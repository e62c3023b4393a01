-------------------------- MODULE MemChannelProofs --------------------------
(***************************************************************************)
(* For every ring, any number of writers and every interleaving: the types *)
(* of the ring's state, and that its used nodes never fill it; that the     *)
(* nodes a writer fills are its own, that the reader meets no bad block,    *)
(* hands out no message twice, and loses none whose mem_send returned       *)
(* success; that it is the queue its users see.                            *)
(***************************************************************************)
EXTENDS MemChannelBlocks, MemChannelQueue, SequenceTheorems, WellFoundedInduction, TLAPS

(***************************************************************************)
(* Arithmetic of indexes.                                                  *)
(***************************************************************************)
LEMMA ModRange ==
  ASSUME NEW n \in Nat \ {0}, NEW a \in Nat
  PROVE  a % n \in 0 .. n - 1
OBVIOUS

\* A position is its lap times the ring plus its index.
LEMMA ModDiv ==
  ASSUME NEW n \in Nat \ {0}, NEW a \in Nat
  PROVE  a = n * (a \div n) + (a % n)
OBVIOUS

\* A position has one index only.
LEMMA ModUnique ==
  ASSUME NEW n \in Nat \ {0}, NEW q \in Int, NEW r \in 0 .. n - 1
  PROVE  (n * q + r) % n = r
OBVIOUS

\* The free nodes a writer computes from two indexes are those between the
\* positions, if these are less than a ring apart.
LEMMA FreeNodes ==
  ASSUME NEW n \in Nat \ {0}, NEW a \in Nat, NEW b \in Nat, a <= b, b - a <= n - 1
  PROVE  ((a % n) + n - (b % n) - 1) % n = n - 1 - (b - a)
<1> DEFINE q == (b \div n) - (a \div n)
           r == n - 1 - (b - a)
<1>1. q \in Int /\ r \in 0 .. n - 1
  OBVIOUS
<1>2. a = n * (a \div n) + (a % n) /\ b = n * (b \div n) + (b % n)
  BY ModDiv
<1>3. (a % n) + n - (b % n) - 1 = n * q + r
  <2> DEFINE x == n * (a \div n)
             y == n * (b \div n)
             ra == a % n
             rb_ == b % n
  <2>1. n * q = y - x
    OBVIOUS
  <2>2. ra \in Int /\ rb_ \in Int /\ x \in Int /\ y \in Int
    OBVIOUS
  <2>3. a = x + ra /\ b = y + rb_
    BY <1>2
  <2> HIDE DEF x, y, ra, rb_
  <2>4. ra + n - rb_ - 1 = (y - x) + (n - 1 - (b - a))
    BY <2>2, <2>3
  <2>5. ra + n - rb_ - 1 = n * q + r
    BY <2>1, <2>4
  <2> QED BY <2>5 DEF ra, rb_
<1> HIDE DEF q, r
<1>4. (n * q + r) % n = r
  BY <1>1, ModUnique
<1> QED BY <1>3, <1>4 DEF r

\* Every position has an index in the ring.
LEMMA IdxInNodes == \A p \in Nat : Idx(p) \in Nodes
BY NodeCountAssumption, ModRange DEF Idx, Nodes

\* The next sequence number fits its width.
LEMMA NextSeqInSeqs == \A s \in Seqs : NextSeq(s) \in Seqs
BY BoundAssumption, ModRange DEF NextSeq, Seqs

\* The room a writer computes from two cursors less than a ring apart, added to
\* what is used between them, leaves the hole and the protected nodes.
LEMMA AvailableBound ==
  ASSUME NEW r \in Nat, NEW w \in Nat, r <= w, w - r <= NodeCount - 1
  PROVE  /\ Available(r, w) \in Nat
         /\ Available(r, w) = 0 \/ Available(r, w) + (w - r) <= NodeCount - 1 - Protect
<1> DEFINE free == (Idx(r) + NodeCount - Idx(w) - 1) % NodeCount
<1>1. free = NodeCount - 1 - (w - r)
  BY NodeCountAssumption, FreeNodes DEF Idx
<1> HIDE DEF free
<1>2. Available(r, w) = IF free >= Protect THEN free - Protect ELSE 0
  BY DEF Available, free
<1> QED BY <1>1, <1>2, NodeCountAssumption, ProtectAssumption

(***************************************************************************)
(* Types.                                                                  *)
(***************************************************************************)
LEMMA NeedInNat == \A m \in Message : Need(m) \in Nat
BY SizesAssumption DEF Message, Need

\* The initial and cleared records have their types.
LEMMA CleanTypes ==
  /\ CleanHead \in HeadType
  /\ CleanBlk \in BlkType
  /\ IdleOp \in OpType
  /\ IdleRv \in RvType
  /\ NoMsg \in AnyMsg
<1>1. 0 \in Seqs
  BY BoundAssumption DEF Seqs
<1>2. CleanHead \in HeadType
  BY <1>1 DEF CleanHead, HeadType
<1>3. NoMsg \in AnyMsg
  BY DEF AnyMsg
<1>4. CleanBlk \in BlkType
  BY <1>3 DEF CleanBlk, BlkType
<1>5. IdleOp \in OpType
  BY <1>1, <1>3 DEF IdleOp, OpType
<1>6. IdleRv \in RvType
  BY <1>1, <1>3 DEF IdleRv, RvType, ReaderCodes
<1> QED BY <1>2, <1>3, <1>4, <1>5, <1>6

\* The ring starts with its types.
LEMMA TypeInit == Init => TypeOK
<1> SUFFICES ASSUME Init PROVE TypeOK
  OBVIOUS
<1> USE CleanTypes, StartAssumption, BoundAssumption
<1>1. CursorsOK
  BY DEF Init, CursorsOK, Positions, Seqs
<1>2. NodesOK
  BY DEF Init, NodesOK
<1>3. TimerOK
  <2>1. waiting \in BOOLEAN
    BY Zenon DEF Init
  <2>2. elapsed \in 0 .. MaxElapsed /\ tcount \in Nat
    BY DEF Init
  <2> QED BY <2>1, <2>2 DEF TimerOK
<1>4. WritersOK
  BY DEF Init, WritersOK, WriterPlaces, Positions
<1>5. ReaderOK
  BY DEF Init, ReaderOK, ReaderPlaces, Positions
<1>6. HistoryOK
  BY DEF Init, HistoryOK
<1>7. \A w \in Writers : pc[w] = "idle"
  BY DEF Init
<1> QED BY <1>1, <1>2, <1>3, <1>4, <1>5, <1>6, <1>7 DEF TypeOK

\* The writer's places, its locals and the results when a call returns or is
\* tried again.
LEMMA ReturnTyped ==
  ASSUME TypeOK, NEW w \in Writers, NEW m \in Message,
         NEW r \in {"SUCCESS", "BUFF_LIMIT"}, Return(w, m, r),
         sent' \in [Writers -> 0 .. MaxSend]
  PROVE  /\ WritersOK'
         /\ returned' \subseteq Message \X {"SUCCESS", "BUFF_LIMIT"}
         /\ (\A v \in Writers : pc[v] \notin {"idle", "dead"} => op[v].m \in Message)'
<1> USE DEF Return, Goto
<1>1. WritersOK'
  BY CleanTypes DEF TypeOK, WritersOK, WriterPlaces, Positions
<1>2. returned' \subseteq Message \X {"SUCCESS", "BUFF_LIMIT"}
  BY DEF TypeOK, HistoryOK
<1>3. (\A v \in Writers : pc[v] \notin {"idle", "dead"} => op[v].m \in Message)'
  BY DEF TypeOK, WritersOK
<1> QED BY <1>1, <1>2, <1>3

\* So it is when a sequence conflict ends a try.
LEMMA ConflictTyped ==
  ASSUME TypeOK, NEW w \in Writers, op[w].m \in Message, Conflict(w), UNCHANGED sent
  PROVE  /\ WritersOK'
         /\ returned' \subseteq Message \X {"SUCCESS", "BUFF_LIMIT"}
         /\ (\A v \in Writers : pc[v] \notin {"idle", "dead"} => op[v].m \in Message)'
<1>1. CASE Return(w, op[w].m, "SUCCESS")
  BY <1>1, ReturnTyped DEF TypeOK, WritersOK
<1>2. CASE /\ op[w].tries > 1 /\ Goto(w, "begin")
           /\ op' = [op EXCEPT ![w] = [IdleOp EXCEPT !.m = op[w].m, !.tries = op[w].tries - 1]]
           /\ wc' = [wc EXCEPT ![w] = 0]
           /\ UNCHANGED <<rc, returned>>
  <2>1. [IdleOp EXCEPT !.m = op[w].m, !.tries = op[w].tries - 1] \in OpType
    <3>1. op[w].tries \in Nat /\ op[w].tries > 1 /\ op[w].m \in AnyMsg
      BY <1>2 DEF TypeOK, WritersOK, OpType
    <3>2. op[w].tries - 1 \in Nat
      BY <3>1
    <3> QED BY <3>1, <3>2, CleanTypes DEF OpType, IdleOp
  <2>2. WritersOK'
    BY <1>2, <2>1 DEF TypeOK, WritersOK, Goto, WriterPlaces, Positions
  <2>3. op'[w].m = op[w].m
    BY <1>2 DEF TypeOK, WritersOK, IdleOp
  <2> QED BY <1>2, <2>2, <2>3 DEF TypeOK, WritersOK, HistoryOK, Goto
<1> QED BY <1>1, <1>2 DEF Conflict

\* Begin keeps the types.
LEMMA TypeBegin ==
  ASSUME TypeOK, NEW w \in Writers, Begin(w)
  PROVE  TypeOK'
<1> USE DEF Begin, history, readerV
<1>1. NodesOK' /\ TimerOK' /\ ReaderOK' /\ HistoryOK'
  BY DEF TypeOK, NodesOK, TimerOK, ReaderOK, HistoryOK, Windows
<1>2. CursorsOK'
  BY NextSeqInSeqs DEF TypeOK, CursorsOK
<1>3. WritersOK'
  BY NextSeqInSeqs DEF TypeOK, WritersOK, CursorsOK, Goto, WriterPlaces, OpType
<1>4. (\A v \in Writers : pc[v] \notin {"idle", "dead"} => op[v].m \in Message)'
  BY DEF TypeOK, WritersOK, Goto, OpType
<1> QED BY <1>1, <1>2, <1>3, <1>4 DEF TypeOK

\* Send keeps the types.
LEMMA TypeSend ==
  ASSUME TypeOK, NEW w \in Writers, Send(w)
  PROVE  TypeOK'
<1> USE DEF Send, shared, readerV
<1>1. CursorsOK' /\ NodesOK' /\ TimerOK' /\ ReaderOK'
  BY DEF TypeOK, CursorsOK, NodesOK, TimerOK, ReaderOK
<1>2. sent' \in [Writers -> 0 .. MaxSend]
  BY BoundAssumption DEF TypeOK, WritersOK
<1>3. PICK n \in Sizes :
        LET m == <<w, sent[w] + 1, n>>
        IN  \/ n = 0 /\ Return(w, m, "SUCCESS")
            \/ n > 0 /\ n >= NodeCount - Protect /\ Return(w, m, "BUFF_LIMIT")
            \/ /\ n > 0 /\ n < NodeCount - Protect
               /\ Goto(w, "begin")
               /\ op' = [op EXCEPT ![w].m = m, ![w].tries = Tries]
               /\ UNCHANGED <<wc, rc, returned>>
  BY Zenon
<1> DEFINE m == <<w, sent[w] + 1, n>>
<1>4. m \in Message
  BY BoundAssumption DEF TypeOK, WritersOK, Message
<1> HIDE DEF m
<1>5. CASE Return(w, m, "SUCCESS") \/ Return(w, m, "BUFF_LIMIT")
  <2>1. WritersOK' /\ returned' \subseteq Message \X {"SUCCESS", "BUFF_LIMIT"}
        /\ (\A v \in Writers : pc[v] \notin {"idle", "dead"} => op[v].m \in Message)'
    BY <1>2, <1>4, <1>5, ReturnTyped
  <2>2. HistoryOK'
    BY <2>1 DEF TypeOK, HistoryOK
  <2> QED BY <1>1, <2>1, <2>2 DEF TypeOK
<1>6. CASE /\ Goto(w, "begin")
           /\ op' = [op EXCEPT ![w].m = m, ![w].tries = Tries]
           /\ UNCHANGED <<wc, rc, returned>>
  <2>1. WritersOK'
    BY <1>2, <1>4, <1>6, BoundAssumption
    DEF TypeOK, WritersOK, Goto, WriterPlaces, OpType, AnyMsg
  <2>2. (\A v \in Writers : pc[v] \notin {"idle", "dead"} => op[v].m \in Message)'
    BY <1>4, <1>6 DEF TypeOK, WritersOK, Goto, OpType
  <2>3. HistoryOK'
    BY <1>6 DEF TypeOK, HistoryOK
  <2> QED BY <1>1, <2>1, <2>2, <2>3 DEF TypeOK
<1> QED BY <1>3, <1>5, <1>6 DEF m

\* LoadReadCur keeps the types.
LEMMA TypeLoadReadCur ==
  ASSUME TypeOK, NEW w \in Writers, LoadReadCur(w)
  PROVE  TypeOK'
<1> USE DEF LoadReadCur, shared, readerV
<1>1. CursorsOK' /\ NodesOK' /\ TimerOK' /\ ReaderOK'
  BY DEF TypeOK, CursorsOK, NodesOK, TimerOK, ReaderOK
<1>2. CASE Return(w, op[w].m, "BUFF_LIMIT")
  <2>1. op[w].m \in Message
    BY DEF TypeOK
  <2>2. WritersOK' /\ returned' \subseteq Message \X {"SUCCESS", "BUFF_LIMIT"}
        /\ (\A v \in Writers : pc[v] \notin {"idle", "dead"} => op[v].m \in Message)'
    BY <1>2, <2>1, ReturnTyped DEF TypeOK, WritersOK
  <2>3. HistoryOK'
    BY <2>2 DEF TypeOK, HistoryOK
  <2> QED BY <1>1, <2>2, <2>3 DEF TypeOK
<1>3. CASE Goto(w, "cas") /\ rc' = [rc EXCEPT ![w] = rpos] /\ UNCHANGED <<wc, op, returned>>
  <2>1. WritersOK'
    BY <1>3 DEF TypeOK, WritersOK, CursorsOK, Goto, WriterPlaces
  <2>2. HistoryOK'
    BY <1>3 DEF TypeOK, HistoryOK
  <2>3. (\A v \in Writers : pc[v] \notin {"idle", "dead"} => op[v].m \in Message)'
    BY <1>3 DEF TypeOK, WritersOK, Goto
  <2> QED BY <1>1, <2>1, <2>2, <2>3 DEF TypeOK
<1> QED BY <1>2, <1>3

\* CasWriteCur keeps the types.
LEMMA TypeCasWriteCur ==
  ASSUME TypeOK, NEW w \in Writers, CasWriteCur(w)
  PROVE  TypeOK'
<1> USE DEF CasWriteCur, readerV
<1>1. NodesOK' /\ TimerOK' /\ ReaderOK'
  BY DEF TypeOK, NodesOK, TimerOK, ReaderOK
<1>2. CursorsOK'
  BY NeedInNat DEF TypeOK, CursorsOK, Positions
<1>3. WritersOK'
  BY DEF TypeOK, WritersOK, CursorsOK, Goto, WriterPlaces, Writing, Positions
<1>4. HistoryOK'
  <2>1. [m |-> op[w].m, p |-> wpos] \in OrderType
    BY DEF TypeOK, CursorsOK, OrderType
  <2> QED BY <2>1 DEF TypeOK, HistoryOK, Windows
<1>5. (\A v \in Writers : pc[v] \notin {"idle", "dead"} => op[v].m \in Message)'
  BY DEF TypeOK, WritersOK, Goto, OpType
<1> QED BY <1>1, <1>2, <1>3, <1>4, <1>5 DEF TypeOK

\* Reload keeps the types.
LEMMA TypeReload ==
  ASSUME TypeOK, NEW w \in Writers, Reload(w)
  PROVE  TypeOK'
<1> USE DEF Reload, shared, readerV, history
<1>1. CursorsOK' /\ NodesOK' /\ TimerOK' /\ ReaderOK' /\ HistoryOK'
  BY DEF TypeOK, CursorsOK, NodesOK, TimerOK, ReaderOK, HistoryOK
<1>2. WritersOK'
  BY DEF TypeOK, WritersOK, CursorsOK, Goto, WriterPlaces, Positions
<1>3. (\A v \in Writers : pc[v] \notin {"idle", "dead"} => op[v].m \in Message)'
  BY DEF TypeOK, WritersOK, Goto, OpType
<1> QED BY <1>1, <1>2, <1>3 DEF TypeOK

\* MarkFirst keeps the types.
LEMMA TypeMarkFirst ==
  ASSUME TypeOK, NEW w \in Writers, MarkFirst(w)
  PROVE  TypeOK'
<1> USE DEF MarkFirst, HeadOnly, readerV, history
<1>1. CursorsOK' /\ TimerOK' /\ ReaderOK' /\ HistoryOK'
  BY DEF TypeOK, CursorsOK, TimerOK, ReaderOK, HistoryOK
<1>2. NodesOK'
  BY CleanTypes DEF TypeOK, NodesOK, WritersOK, HeadType, OpType
<1>3. WritersOK'
  BY DEF TypeOK, WritersOK, CursorsOK, Goto, WriterPlaces, Writing, OpType
<1>4. (\A v \in Writers : pc[v] \notin {"idle", "dead"} => op[v].m \in Message)'
  BY DEF TypeOK, WritersOK, Goto, OpType
<1> QED BY <1>1, <1>2, <1>3, <1>4 DEF TypeOK

\* MarkNextConflict keeps the types.
LEMMA TypeMarkNextConflict ==
  ASSUME TypeOK, NEW w \in Writers, MarkNextConflict(w)
  PROVE  TypeOK'
<1> USE DEF MarkNextConflict, shared, readerV
<1>1. CursorsOK' /\ NodesOK' /\ TimerOK' /\ ReaderOK'
  BY DEF TypeOK, CursorsOK, NodesOK, TimerOK, ReaderOK
<1>2. op[w].m \in Message
  BY DEF TypeOK
<1>3. WritersOK' /\ returned' \subseteq Message \X {"SUCCESS", "BUFF_LIMIT"}
      /\ (\A v \in Writers : pc[v] \notin {"idle", "dead"} => op[v].m \in Message)'
  BY <1>2, ConflictTyped
<1>4. HistoryOK'
  BY <1>3 DEF TypeOK, HistoryOK
<1> QED BY <1>1, <1>3, <1>4 DEF TypeOK

\* MarkNext keeps the types.
LEMMA TypeMarkNext ==
  ASSUME TypeOK, NEW w \in Writers, MarkNext(w)
  PROVE  TypeOK'
<1> USE DEF MarkNext, HeadOnly, readerV, history
<1>1. CursorsOK' /\ TimerOK' /\ ReaderOK' /\ HistoryOK'
  BY DEF TypeOK, CursorsOK, TimerOK, ReaderOK, HistoryOK
<1>2. NodesOK'
  BY ZenonT(40) DEF TypeOK, NodesOK, WritersOK, HeadType, OpType
<1>3. WritersOK'
  BY DEF TypeOK, WritersOK, CursorsOK, Goto, WriterPlaces, Writing, OpType
<1>4. (\A v \in Writers : pc[v] \notin {"idle", "dead"} => op[v].m \in Message)'
  BY DEF TypeOK, WritersOK, Goto, OpType
<1> QED BY <1>1, <1>2, <1>3, <1>4 DEF TypeOK

\* StoreSize keeps the types.
LEMMA TypeStoreSize ==
  ASSUME TypeOK, NEW w \in Writers, StoreSize(w)
  PROVE  TypeOK'
<1> USE DEF StoreSize, HeadOnly, readerV, history
<1>1. CursorsOK' /\ TimerOK' /\ ReaderOK' /\ HistoryOK'
  BY DEF TypeOK, CursorsOK, TimerOK, ReaderOK, HistoryOK
<1>2. NodesOK'
  BY NeedInNat DEF TypeOK, NodesOK, BlkType
<1>3. WritersOK'
  BY DEF TypeOK, WritersOK, CursorsOK, Goto, WriterPlaces, Writing, OpType
<1>4. (\A v \in Writers : pc[v] \notin {"idle", "dead"} => op[v].m \in Message)'
  BY DEF TypeOK, WritersOK, Goto, OpType
<1> QED BY <1>1, <1>2, <1>3, <1>4 DEF TypeOK

\* Fill keeps the types.
LEMMA TypeFill ==
  ASSUME TypeOK, NEW w \in Writers, Fill(w)
  PROVE  TypeOK'
<1> USE DEF Fill, readerV, history
<1>1. CursorsOK' /\ TimerOK' /\ ReaderOK' /\ HistoryOK'
  BY DEF TypeOK, CursorsOK, TimerOK, ReaderOK, HistoryOK
<1>2. NodesOK'
  <2> DEFINE m == op[w].m
             rest == {Idx(wc[w] + i) : i \in 1 .. Need(m) - 1}
  <2>1. m \in AnyMsg /\ NoMsg \in AnyMsg /\ Junk \in Nat
    BY CleanTypes, NodeCountAssumption DEF TypeOK, Junk, AnyMsg
  <2>2. /\ data' = [n \in Nodes |-> IF n \in rest \cup {First(w)} THEN m ELSE data[n]]
        /\ blk' = [n \in Nodes |->
                     IF n = First(w) THEN [blk[n] EXCEPT !.check = m]
                     ELSE IF n \in rest THEN [size |-> Junk, check |-> NoMsg]
                     ELSE blk[n]]
    BY Zenon
  <2> HIDE DEF rest, m
  <2>3. data' \in [Nodes -> AnyMsg]
    BY <2>1, <2>2 DEF TypeOK, NodesOK
  <2>4. blk' \in [Nodes -> BlkType]
    BY <2>1, <2>2 DEF TypeOK, NodesOK, BlkType
  <2> QED BY <2>3, <2>4 DEF TypeOK, NodesOK
<1>3. WritersOK'
  BY DEF TypeOK, WritersOK, CursorsOK, Goto, WriterPlaces, Writing, OpType
<1>4. (\A v \in Writers : pc[v] \notin {"idle", "dead"} => op[v].m \in Message)'
  BY DEF TypeOK, WritersOK, Goto, OpType
<1> QED BY <1>1, <1>2, <1>3, <1>4 DEF TypeOK

\* LoadFlag keeps the types.
LEMMA TypeLoadFlag ==
  ASSUME TypeOK, NEW w \in Writers, LoadFlag(w)
  PROVE  TypeOK'
<1> USE DEF LoadFlag, shared, readerV, history
<1>1. CursorsOK' /\ NodesOK' /\ TimerOK' /\ ReaderOK' /\ HistoryOK'
  BY DEF TypeOK, CursorsOK, NodesOK, TimerOK, ReaderOK, HistoryOK
<1>2. WritersOK'
  <2>1. head[First(w)].start \in BOOLEAN
    <3>1. First(w) \in Nodes
      BY IdxInNodes DEF TypeOK, WritersOK, First, Positions
    <3> QED BY <3>1 DEF TypeOK, NodesOK, HeadType
  <2> QED BY <2>1 DEF TypeOK, WritersOK, Goto, WriterPlaces, Writing, OpType
<1>3. (\A v \in Writers : pc[v] \notin {"idle", "dead"} => op[v].m \in Message)'
  BY DEF TypeOK, WritersOK, Goto, OpType
<1> QED BY <1>1, <1>2, <1>3 DEF TypeOK

\* Publish keeps the types.
LEMMA TypePublish ==
  ASSUME TypeOK, NEW w \in Writers, Publish(w)
  PROVE  TypeOK'
<1> USE DEF Publish, HeadOnly, readerV, history
<1>1. CursorsOK' /\ TimerOK' /\ ReaderOK' /\ HistoryOK'
  BY DEF TypeOK, CursorsOK, TimerOK, ReaderOK, HistoryOK
<1>2. NodesOK'
  BY ZenonT(40) DEF TypeOK, NodesOK, WritersOK, HeadType, OpType
<1>3. WritersOK'
  BY DEF TypeOK, WritersOK, CursorsOK, Goto, WriterPlaces, Writing, OpType
<1>4. (\A v \in Writers : pc[v] \notin {"idle", "dead"} => op[v].m \in Message)'
  BY DEF TypeOK, WritersOK, Goto, OpType
<1> QED BY <1>1, <1>2, <1>3, <1>4 DEF TypeOK

\* FinalCheck keeps the types.
LEMMA TypeFinalCheck ==
  ASSUME TypeOK, NEW w \in Writers, FinalCheck(w)
  PROVE  TypeOK'
<1> USE DEF FinalCheck, shared, readerV
<1>1. CursorsOK' /\ NodesOK' /\ TimerOK' /\ ReaderOK'
  BY DEF TypeOK, CursorsOK, NodesOK, TimerOK, ReaderOK
<1>2. op[w].m \in Message
  BY DEF TypeOK
<1>3. WritersOK' /\ returned' \subseteq Message \X {"SUCCESS", "BUFF_LIMIT"}
      /\ (\A v \in Writers : pc[v] \notin {"idle", "dead"} => op[v].m \in Message)'
  BY <1>2, ConflictTyped, ReturnTyped DEF TypeOK, WritersOK
<1>4. HistoryOK'
  BY <1>3 DEF TypeOK, HistoryOK
<1> QED BY <1>1, <1>3, <1>4 DEF TypeOK

\* Crash keeps the types.
LEMMA TypeCrash ==
  ASSUME TypeOK, NEW w \in Writers, Crash(w)
  PROVE  TypeOK'
<1> USE DEF Crash, shared, readerV, history
<1>1. CursorsOK' /\ NodesOK' /\ TimerOK' /\ ReaderOK' /\ HistoryOK'
  BY DEF TypeOK, CursorsOK, NodesOK, TimerOK, ReaderOK, HistoryOK
<1>2. WritersOK'
  BY CleanTypes DEF TypeOK, WritersOK, Goto, WriterPlaces, Positions
<1>3. (\A v \in Writers : pc[v] \notin {"idle", "dead"} => op[v].m \in Message)'
  BY DEF TypeOK, WritersOK, Goto, OpType
<1> QED BY <1>1, <1>2, <1>3 DEF TypeOK

\* The reader's steps change the heads, the timer and its own locals.

\* mem_recv begins.
LEMMA TypeRecv ==
  ASSUME TypeOK, Recv
  PROVE  TypeOK'
<1> USE DEF Recv, shared, writerV, history
<1>1. CursorsOK' /\ NodesOK' /\ TimerOK' /\ WritersOK' /\ HistoryOK'
  BY DEF TypeOK, CursorsOK, NodesOK, TimerOK, WritersOK, HistoryOK
<1>2. ReaderOK'
  <2>1. PICK cap \in RecvCaps : rv' = [IdleRv EXCEPT !.cap = cap]
    OBVIOUS
  <2>2. rv' \in RvType
    BY <2>1, CleanTypes, BoundAssumption DEF RvType
  <2> QED BY <2>2 DEF TypeOK, ReaderOK, ReaderPlaces, CursorsOK, RGoto
<1>3. (\A v \in Writers : pc[v] \notin {"idle", "dead"} => op[v].m \in Message)'
  BY DEF TypeOK, WritersOK, Goto, OpType
<1> QED BY <1>1, <1>2, <1>3 DEF TypeOK

\* ScanEnd keeps the types.
LEMMA TypeScanEnd ==
  ASSUME TypeOK, ScanEnd
  PROVE  TypeOK'
<1> USE DEF ScanEnd, ReaderOnly, writerV
<1>1. CursorsOK' /\ NodesOK' /\ TimerOK' /\ WritersOK' /\ HistoryOK'
  BY DEF TypeOK, CursorsOK, NodesOK, TimerOK, WritersOK, HistoryOK
<1>2. ReaderOK'
  <2>1. OrElse("NO_DATA") \in ReaderCodes /\ rpos \in Nat
    BY DEF TypeOK, ReaderOK, RvType, OrElse, ReaderCodes, CursorsOK, Positions
  <2> QED BY <2>1 DEF TypeOK, ReaderOK, ReaderPlaces, RGoto, LeaveScan, RvType, Positions
<1>3. (\A v \in Writers : pc[v] \notin {"idle", "dead"} => op[v].m \in Message)'
  BY DEF TypeOK, WritersOK, Goto, OpType
<1> QED BY <1>1, <1>2, <1>3 DEF TypeOK

\* ScanSkip keeps the types.
LEMMA TypeScanSkip ==
  ASSUME TypeOK, ScanSkip
  PROVE  TypeOK'
<1> USE DEF ScanSkip, ReaderOnly, writerV
<1>1. CursorsOK' /\ NodesOK' /\ TimerOK' /\ WritersOK'
  BY DEF TypeOK, CursorsOK, NodesOK, TimerOK, WritersOK
<1>2. ReaderOK'
  BY DEF TypeOK, ReaderOK, ReaderPlaces, NextNode, RGoto, Positions
<1>3. HistoryOK'
  BY DEF TypeOK, HistoryOK, Windows
<1>4. (\A v \in Writers : pc[v] \notin {"idle", "dead"} => op[v].m \in Message)'
  BY DEF TypeOK, WritersOK, Goto, OpType
<1> QED BY <1>1, <1>2, <1>3, <1>4 DEF TypeOK

\* ScanWait keeps the types.
LEMMA TypeScanWait ==
  ASSUME TypeOK, ScanWait
  PROVE  TypeOK'
<1> USE DEF ScanWait, NoteTime, WaitOver, ReaderOnly, writerV
<1>1. CursorsOK' /\ NodesOK' /\ WritersOK' /\ HistoryOK'
  BY DEF TypeOK, CursorsOK, NodesOK, WritersOK, HistoryOK
<1>2. TimerOK'
  <2>1. waiting' \in BOOLEAN
    BY Zenon DEF TypeOK, TimerOK
  <2>2. elapsed' \in 0 .. MaxElapsed /\ tcount' \in Nat
    BY BoundAssumption DEF TypeOK, TimerOK
  <2> QED BY <2>1, <2>2 DEF TimerOK
<1>3. ReaderOK'
  <2>1. OrElse("NO_DATA") \in ReaderCodes /\ rpos \in Nat
    BY DEF TypeOK, ReaderOK, RvType, OrElse, ReaderCodes, CursorsOK, Positions
  <2> QED BY <2>1 DEF TypeOK, ReaderOK, ReaderPlaces, RGoto, LeaveScan, RvType, Positions
<1>4. (\A v \in Writers : pc[v] \notin {"idle", "dead"} => op[v].m \in Message)'
  BY DEF TypeOK, WritersOK, Goto, OpType
<1> QED BY <1>1, <1>2, <1>3, <1>4 DEF TypeOK

\* ScanTimeout keeps the types.
LEMMA TypeScanTimeout ==
  ASSUME TypeOK, ScanTimeout
  PROVE  TypeOK'
<1> USE DEF ScanTimeout, WaitOver, ReaderOnly, writerV
<1>1. CursorsOK' /\ NodesOK' /\ WritersOK'
  BY DEF TypeOK, CursorsOK, NodesOK, WritersOK
<1>2. TimerOK'
  <2>1. waiting' \in BOOLEAN
    BY Zenon
  <2>2. elapsed' \in 0 .. MaxElapsed /\ tcount' \in Nat
    BY BoundAssumption DEF TypeOK, TimerOK
  <2> QED BY <2>1, <2>2 DEF TimerOK
<1>3. ReaderOK'
  BY DEF TypeOK, ReaderOK, ReaderPlaces, NextNode, RGoto, Positions
<1>4. HistoryOK'
  BY DEF TypeOK, HistoryOK, Windows
<1>5. (\A v \in Writers : pc[v] \notin {"idle", "dead"} => op[v].m \in Message)'
  BY DEF TypeOK, WritersOK, Goto, OpType
<1> QED BY <1>1, <1>2, <1>3, <1>4, <1>5 DEF TypeOK

\* ScanBlock keeps the types.
LEMMA TypeScanBlock ==
  ASSUME TypeOK, ScanBlock
  PROVE  TypeOK'
<1> USE DEF ScanBlock, ReaderOnly, writerV
<1>1. CursorsOK' /\ NodesOK' /\ TimerOK' /\ WritersOK' /\ HistoryOK'
  BY DEF TypeOK, CursorsOK, NodesOK, TimerOK, WritersOK, HistoryOK
<1>2. ReaderOK'
  <2>1. OrElse("BAD_BUFF_SIZE") \in ReaderCodes /\ OrElse("BUFF_LIMIT") \in ReaderCodes
    BY DEF TypeOK, ReaderOK, RvType, OrElse, ReaderCodes
  <2>2. head[Idx(rb)].seq \in Seqs /\ rpos \in Nat
    BY IdxInNodes DEF TypeOK, CursorsOK, ReaderOK, NodesOK, HeadType, Positions
  <2>3. /\ rpc' \in {"scan", "clean", "reset"}
        /\ rb' \in {rb, rb + 1} /\ re' \in {rb, rb + 1}
        /\ rw' = rw /\ crashes' = crashes
        /\ \/ rv' = [rv EXCEPT !.ret = OrElse("BAD_BUFF_SIZE")]
           \/ rv' = [rv EXCEPT !.ret = OrElse("BUFF_LIMIT"), !.i = rpos]
           \/ rv' = [rv EXCEPT !.seq = head[Idx(rb)].seq]
    BY DEF LeaveScan, NextNode, RGoto
  <2>4. rv' \in RvType
    BY <2>1, <2>2, <2>3 DEF TypeOK, ReaderOK, RvType
  <2> QED BY <2>3, <2>4 DEF TypeOK, ReaderOK, ReaderPlaces, Positions
<1>3. (\A v \in Writers : pc[v] \notin {"idle", "dead"} => op[v].m \in Message)'
  BY DEF TypeOK, WritersOK, Goto, OpType
<1> QED BY <1>1, <1>2, <1>3 DEF TypeOK

\* ResetNode keeps the types.
LEMMA TypeResetNode ==
  ASSUME TypeOK, ResetNode
  PROVE  TypeOK'
<1> USE DEF ResetNode, Freed, ReaderOnly, writerV
<1>1. CursorsOK' /\ TimerOK' /\ WritersOK'
  BY DEF TypeOK, CursorsOK, TimerOK, WritersOK
<1>2. NodesOK'
  BY CleanTypes DEF TypeOK, NodesOK
<1>3. ReaderOK'
  BY DEF TypeOK, ReaderOK, Positions
<1>4. HistoryOK'
  BY DEF TypeOK, HistoryOK, Windows
<1>5. (\A v \in Writers : pc[v] \notin {"idle", "dead"} => op[v].m \in Message)'
  BY DEF TypeOK, WritersOK, Goto, OpType
<1> QED BY <1>1, <1>2, <1>3, <1>4, <1>5 DEF TypeOK

\* TakeBlock keeps the types.
LEMMA TypeTakeBlock ==
  ASSUME TypeOK, TakeBlock
  PROVE  TypeOK'
<1> USE DEF TakeBlock, ReaderOnly, writerV
<1>1. CursorsOK' /\ NodesOK' /\ WritersOK' /\ HistoryOK'
  BY DEF TypeOK, CursorsOK, NodesOK, WritersOK, HistoryOK
<1>2. TimerOK'
  <2>1. waiting' \in BOOLEAN
    BY Zenon DEF TypeOK, TimerOK
  <2>2. elapsed' \in 0 .. MaxElapsed /\ tcount' \in Nat
    BY BoundAssumption DEF TypeOK, TimerOK
  <2> QED BY <2>1, <2>2 DEF TimerOK
<1>3. ReaderOK'
  <2>1. OrElse("BAD_NODE_NUM") \in ReaderCodes
          /\ {"OK", "BAD_DATA"} \subseteq ReaderCodes /\ rpos \in Nat
    BY DEF TypeOK, ReaderOK, RvType, OrElse, ReaderCodes, CursorsOK, Positions
  <2>3. /\ rpc' \in {"scan", "clean"}
        /\ rb' \in {rb, rb + 1} /\ re' \in {re, rb + 1}
        /\ rw' = rw /\ crashes' = crashes
        /\ \/ rv' = [rv EXCEPT !.ret = OrElse("BAD_NODE_NUM")]
           \/ rv' = [rv EXCEPT !.i = rpos]
           \/ \E r \in {"OK", "BAD_DATA"} :
                rv' = [rv EXCEPT !.i = rpos, !.m = blk[Idx(rb)].check, !.ret = r]
    BY DEF NextNode, RGoto
  <2>2. blk[Idx(rb)].check \in AnyMsg
    BY IdxInNodes DEF TypeOK, ReaderOK, NodesOK, BlkType, Positions
  <2>4. rv' \in RvType
    BY <2>1, <2>2, <2>3 DEF TypeOK, ReaderOK, RvType
  <2> QED BY <2>3, <2>4 DEF TypeOK, ReaderOK, ReaderPlaces, Positions
<1>4. (\A v \in Writers : pc[v] \notin {"idle", "dead"} => op[v].m \in Message)'
  BY DEF TypeOK, WritersOK, Goto, OpType
<1> QED BY <1>1, <1>2, <1>3, <1>4 DEF TypeOK

\* CleanNode keeps the types.
LEMMA TypeCleanNode ==
  ASSUME TypeOK, CleanNode
  PROVE  TypeOK'
<1> USE DEF CleanNode, Freed, ReaderOnly, writerV
<1>1. CursorsOK' /\ TimerOK' /\ WritersOK' /\ HistoryOK'
  BY DEF TypeOK, CursorsOK, TimerOK, WritersOK, HistoryOK
<1>2. NodesOK'
  BY CleanTypes DEF TypeOK, NodesOK
<1>3. ReaderOK'
  BY DEF TypeOK, ReaderOK, RvType
<1>4. (\A v \in Writers : pc[v] \notin {"idle", "dead"} => op[v].m \in Message)'
  BY DEF TypeOK, WritersOK, Goto, OpType
<1> QED BY <1>1, <1>2, <1>3, <1>4 DEF TypeOK

\* StoreReadCur keeps the types.
LEMMA TypeStoreReadCur ==
  ASSUME TypeOK, StoreReadCur
  PROVE  TypeOK'
<1> USE DEF StoreReadCur, writerV
<1>1. NodesOK' /\ TimerOK' /\ WritersOK'
  BY DEF TypeOK, NodesOK, TimerOK, WritersOK
<1>2. CursorsOK'
  BY DEF TypeOK, CursorsOK, ReaderOK
<1>3. ReaderOK'
  BY CleanTypes DEF TypeOK, ReaderOK, ReaderPlaces, RGoto
<1>4. HistoryOK'
  <2>1. rv.m \in AnyMsg
    BY DEF TypeOK, ReaderOK, RvType
  <2> QED BY <2>1 DEF TypeOK, HistoryOK
<1>5. (\A v \in Writers : pc[v] \notin {"idle", "dead"} => op[v].m \in Message)'
  BY DEF TypeOK, WritersOK, Goto, OpType
<1> QED BY <1>1, <1>2, <1>3, <1>4, <1>5 DEF TypeOK

\* ReaderCrash keeps the types.
LEMMA TypeReaderCrash ==
  ASSUME TypeOK, ReaderCrash
  PROVE  TypeOK'
<1> USE DEF ReaderCrash, writerV
<1>1. CursorsOK' /\ NodesOK' /\ WritersOK'
  BY DEF TypeOK, CursorsOK, NodesOK, WritersOK
<1>2. TimerOK'
  <2>1. waiting' \in BOOLEAN
    BY Zenon DEF TypeOK, TimerOK
  <2>2. elapsed' \in 0 .. MaxElapsed /\ tcount' \in Nat
    BY DEF TypeOK, TimerOK
  <2> QED BY <2>1, <2>2 DEF TimerOK
<1>3. ReaderOK'
  BY CleanTypes DEF TypeOK, ReaderOK, ReaderPlaces, CursorsOK, RGoto
<1>4. HistoryOK'
  BY DEF TypeOK, HistoryOK, Windows
<1>5. (\A v \in Writers : pc[v] \notin {"idle", "dead"} => op[v].m \in Message)'
  BY DEF TypeOK, WritersOK, Goto, OpType
<1> QED BY <1>1, <1>2, <1>3, <1>4, <1>5 DEF TypeOK

\* Tick keeps the types.
LEMMA TypeTick ==
  ASSUME TypeOK, Tick
  PROVE  TypeOK'
<1> USE DEF Tick, writerV, readerV, history
<1>1. CursorsOK' /\ NodesOK' /\ WritersOK' /\ ReaderOK' /\ HistoryOK'
  BY DEF TypeOK, CursorsOK, NodesOK, WritersOK, ReaderOK, HistoryOK
<1>2. TimerOK'
  <2>1. waiting' \in BOOLEAN
    BY Zenon DEF TypeOK, TimerOK
  <2>2. elapsed' \in 0 .. MaxElapsed /\ tcount' \in Nat
    BY BoundAssumption DEF TypeOK, TimerOK
  <2> QED BY <2>1, <2>2 DEF TimerOK
<1>3. (\A v \in Writers : pc[v] \notin {"idle", "dead"} => op[v].m \in Message)'
  BY DEF TypeOK, WritersOK, Goto, OpType
<1> QED BY <1>1, <1>2, <1>3 DEF TypeOK

\* Every step keeps the types.
LEMMA TypeNext == TypeOK /\ [Next]_vars => TypeOK'
<1> SUFFICES ASSUME TypeOK, [Next]_vars PROVE TypeOK'
  OBVIOUS
<1>1. ASSUME NEW w \in Writers, Send(w) \/ Step(w) \/ CasSpurious(w) \/ Crash(w)
      PROVE  TypeOK'
  BY <1>1, TypeSend, TypeBegin, TypeLoadReadCur, TypeCasWriteCur, TypeReload,
     TypeMarkFirst, TypeMarkNextConflict, TypeMarkNext, TypeStoreSize, TypeFill,
     TypeLoadFlag, TypePublish, TypeFinalCheck, TypeCrash
  DEF Step, CasLost, CasSpurious
<1>2. CASE Recv \/ ReaderStep \/ ReaderCrash \/ Tick
  BY <1>2, TypeRecv, TypeScanEnd, TypeScanSkip, TypeScanWait, TypeScanTimeout,
     TypeScanBlock, TypeResetNode, TypeTakeBlock, TypeCleanNode, TypeStoreReadCur,
     TypeReaderCrash, TypeTick
  DEF ReaderStep
<1>3. CASE UNCHANGED vars
  BY <1>3 DEF vars, shared, writerV, readerV, history, TypeOK, CursorsOK, NodesOK,
     TimerOK, WritersOK, ReaderOK, HistoryOK
<1> QED BY <1>1, <1>2, <1>3 DEF Next

\* The state of the ring and of every call has its type in every behaviour, for
\* any number of nodes, writers and messages.
THEOREM TypeCorrect == Spec => []TypeOK
<1>1. Init => TypeOK
  BY TypeInit
<1>2. TypeOK /\ [Next]_vars => TypeOK'
  BY TypeNext
<1> QED BY <1>1, <1>2, PTL DEF Spec

(***************************************************************************)
(* Room.  RoomInv is inductive: CursorSafe alone is not, since a writer    *)
(* about to swap the cursor acts on what it loaded long ago.               *)
(***************************************************************************)
LEMMA RoomInit == Init => RoomInv
<1> SUFFICES ASSUME Init PROVE RoomInv
  OBVIOUS
<1>1. rpos = wpos /\ rpos \in Nat
  BY StartAssumption DEF Init
<1>2. WritersSeeThePast
  BY DEF Init, WritersSeeThePast
<1>3. ReaderStaysInside
  BY DEF Init, ReaderStaysInside
<1> QED BY <1>1, <1>2, <1>3 DEF RoomInv, CursorSafe

\* A step of one writer that neither loads nor moves a cursor.
OnlyWriter(w) ==
  /\ UNCHANGED <<rpos, wpos, hz, rpc, rb, re, rw>>
  /\ \A v \in Writers \ {w} : /\ pc'[v] = pc[v] /\ wc'[v] = wc[v]
                              /\ rc'[v] = rc[v] /\ op'[v] = op[v]

\* A step that moves no cursor, makes no writer see more of the past and leaves
\* the reader where it is keeps the room.
LEMMA RoomOtherStep ==
  ASSUME TypeOK, RoomInv, NEW w \in Writers, OnlyWriter(w), pc'[w] \notin {"load", "cas"}
  PROVE  RoomInv'
<1> USE DEF OnlyWriter
<1>1. CursorSafe'
  BY DEF RoomInv, CursorSafe, Without
<1>2. ASSUME Without({"lap"}) PROVE WritersSeeThePast'
  BY <1>2 DEF RoomInv, WritersSeeThePast
<1>3. ASSUME Without({"lap"}) PROVE ReaderStaysInside'
  BY <1>3 DEF RoomInv, ReaderStaysInside
<1> QED BY <1>1, <1>2, <1>3 DEF RoomInv, Without

\* A call that returns leaves every other call alone.
LEMMA ReturnRoom ==
  ASSUME TypeOK, NEW w \in Writers, NEW m, NEW r, Return(w, m, r)
  PROVE  /\ pc'[w] = "idle"
         /\ \A v \in Writers \ {w} : /\ pc'[v] = pc[v] /\ wc'[v] = wc[v]
                                     /\ rc'[v] = rc[v] /\ op'[v] = op[v]
BY DEF Return, Goto, TypeOK, WritersOK

\* A conflict that is tried again or not leaves every other call alone.
LEMMA ConflictRoom ==
  ASSUME TypeOK, NEW w \in Writers, Conflict(w)
  PROVE  /\ pc'[w] \in {"idle", "begin"}
         /\ \A v \in Writers \ {w} : /\ pc'[v] = pc[v] /\ wc'[v] = wc[v]
                                     /\ rc'[v] = rc[v] /\ op'[v] = op[v]
<1>1. CASE Return(w, op[w].m, "SUCCESS")
  BY <1>1, ReturnRoom
<1>2. CASE ~Return(w, op[w].m, "SUCCESS")
  BY <1>2 DEF Conflict, Goto, TypeOK, WritersOK
<1> QED BY <1>1, <1>2

\* mem_send begins: it has loaded nothing yet.
LEMMA RoomSend ==
  ASSUME TypeOK, RoomInv, NEW w \in Writers, Send(w)
  PROVE  RoomInv'
<1>1. PICK n \in Sizes :
        \/ \E r \in {"SUCCESS", "BUFF_LIMIT"} : Return(w, <<w, sent[w] + 1, n>>, r)
        \/ /\ Goto(w, "begin")
           /\ op' = [op EXCEPT ![w].m = <<w, sent[w] + 1, n>>, ![w].tries = Tries]
           /\ UNCHANGED <<wc, rc>>
  BY Zenon DEF Send
<1>2. pc'[w] \in {"idle", "begin"}
      /\ \A v \in Writers \ {w} : /\ pc'[v] = pc[v] /\ wc'[v] = wc[v]
                                  /\ rc'[v] = rc[v] /\ op'[v] = op[v]
  BY <1>1, ReturnRoom DEF Goto, TypeOK, WritersOK
<1>3. OnlyWriter(w)
  BY <1>2 DEF Send, OnlyWriter, shared, readerV
<1> QED BY <1>2, <1>3, RoomOtherStep

\* The steps of mem_send that touch no cursor.
LEMMA RoomQuietStep ==
  ASSUME TypeOK, RoomInv, NEW w \in Writers,
         \/ MarkFirst(w) \/ MarkNextConflict(w) \/ MarkNext(w) \/ StoreSize(w)
         \/ Fill(w) \/ LoadFlag(w) \/ Publish(w) \/ FinalCheck(w) \/ Crash(w)
  PROVE  RoomInv'
<1> SUFFICES OnlyWriter(w) /\ pc'[w] \notin {"load", "cas"}
  BY RoomOtherStep
<1> USE DEF OnlyWriter, TypeOK, WritersOK, Goto, HeadOnly, shared, readerV, history
<1>1. CASE MarkFirst(w)
  BY <1>1 DEF MarkFirst
<1>2. CASE MarkNextConflict(w)
  BY <1>2, ConflictRoom DEF MarkNextConflict
<1>3. CASE MarkNext(w)
  BY <1>3 DEF MarkNext
<1>4. CASE StoreSize(w)
  BY <1>4 DEF StoreSize
<1>5. CASE Fill(w)
  BY <1>5 DEF Fill
<1>6. CASE LoadFlag(w)
  BY <1>6 DEF LoadFlag
<1>7. CASE Publish(w)
  BY <1>7 DEF Publish
<1>8. CASE FinalCheck(w)
  BY <1>8, ConflictRoom, ReturnRoom DEF FinalCheck
<1>9. CASE Crash(w)
  BY <1>9 DEF Crash
<1> QED BY <1>1, <1>2, <1>3, <1>4, <1>5, <1>6, <1>7, <1>8, <1>9

\* The write cursor is loaded: it cannot be ahead of itself.
LEMMA RoomLoadWrite ==
  ASSUME TypeOK, RoomInv, NEW w \in Writers, Begin(w) \/ Reload(w)
  PROVE  RoomInv'
<1>1. /\ UNCHANGED <<rpos, wpos, rpc, rb, re, rw>> /\ (Without({"lap"})' => Without({"lap"}))
      /\ pc'[w] = "load" /\ wc'[w] = wpos
      /\ \A v \in Writers \ {w} : /\ pc'[v] = pc[v] /\ wc'[v] = wc[v]
                                  /\ rc'[v] = rc[v] /\ op'[v] = op[v]
  BY DEF Begin, Reload, Goto, TypeOK, WritersOK, shared, readerV, history, Without
<1>2. CursorSafe'
  BY <1>1 DEF RoomInv, CursorSafe
<1>3. ASSUME Without({"lap"}) PROVE WritersSeeThePast'
  BY <1>1, <1>3 DEF RoomInv, WritersSeeThePast, TypeOK, CursorsOK, Positions
<1>4. ASSUME Without({"lap"}) PROVE ReaderStaysInside'
  BY <1>1, <1>4 DEF RoomInv, ReaderStaysInside
<1> QED BY <1>1, <1>2, <1>3, <1>4 DEF RoomInv, Without

\* The read cursor is loaded after the write cursor: the two are less than a
\* ring apart although neither may still be current.
LEMMA RoomLoadRead ==
  ASSUME TypeOK, RoomInv, NEW w \in Writers, LoadReadCur(w)
  PROVE  RoomInv'
<1>1. CASE Return(w, op[w].m, "BUFF_LIMIT")
  <2>1. OnlyWriter(w) /\ pc'[w] = "idle"
    BY <1>1, ReturnRoom DEF LoadReadCur, OnlyWriter, shared, readerV
  <2> QED BY <2>1, RoomOtherStep
<1>2. CASE ~Return(w, op[w].m, "BUFF_LIMIT")
  <2>1. /\ UNCHANGED <<rpos, wpos, hz, rpc, rb, re, rw>>
        /\ pc[w] = "load" /\ pc'[w] = "cas" /\ wc'[w] = wc[w] /\ rc'[w] = rpos
        /\ op' = op /\ Need(op[w].m) <= Available(rpos, wc[w])
        /\ \A v \in Writers \ {w} : pc'[v] = pc[v] /\ wc'[v] = wc[v] /\ rc'[v] = rc[v]
    BY <1>2 DEF LoadReadCur, Goto, TypeOK, WritersOK, shared, readerV
  <2>2. CursorSafe'
    BY <2>1 DEF RoomInv, CursorSafe, Without
  <2>3. ASSUME Without({"lap"}) PROVE WritersSeeThePast'
    <3>1. wc[w] <= wpos /\ rpos <= wpos /\ wpos - rpos <= NodeCount - 1
      BY <2>1, <2>3, NodeCountAssumption, ProtectAssumption
      DEF RoomInv, CursorSafe, WritersSeeThePast, TypeOK, CursorsOK, Positions
    <3>2. wc[w] - rpos <= NodeCount - 1 /\ rpos <= rpos
      BY <3>1, NodeCountAssumption DEF TypeOK, CursorsOK, WritersOK, Positions
    <3> QED BY <2>1, <2>3, <3>1, <3>2 DEF RoomInv, WritersSeeThePast
  <2>4. ASSUME Without({"lap"}) PROVE ReaderStaysInside'
    BY <2>1, <2>4 DEF RoomInv, ReaderStaysInside
  <2> QED BY <2>1, <2>2, <2>3, <2>4 DEF RoomInv, Without
<1> QED BY <1>1, <1>2

\* The compare-and-swap: what was free when the read cursor was loaded is free
\* now, because the read cursor only moves forward.
LEMMA RoomCas ==
  ASSUME TypeOK, RoomInv, NEW w \in Writers, CasWriteCur(w)
  PROVE  RoomInv'
<1> SUFFICES ASSUME Without({"lap"})' PROVE CursorSafe' /\ WritersSeeThePast' /\ ReaderStaysInside'
  BY DEF RoomInv, CursorSafe
<1>1. wc[w] = wpos /\ hz' = hz /\ Without({"lap"})
  BY DEF CasWriteCur, Without
<1>2. /\ wpos' = wpos + Need(op[w].m) /\ op' = op
      /\ UNCHANGED <<rpos, rpc, rb, re, rw>>
      /\ pc'[w] = "mark"
      /\ \A v \in Writers \ {w} : pc'[v] = pc[v] /\ wc'[v] = wc[v] /\ rc'[v] = rc[v]
  BY DEF CasWriteCur, Goto, TypeOK, WritersOK, readerV
<1>3. /\ rpos \in Nat /\ wpos \in Nat /\ rc[w] \in Nat /\ Need(op[w].m) \in Nat
      /\ rpos <= wpos /\ rc[w] <= rpos /\ wpos - rc[w] <= NodeCount - 1
      /\ Need(op[w].m) <= Available(rc[w], wpos)
  <2>1. op[w].m \in Message /\ pc[w] = "cas"
    BY DEF CasWriteCur, TypeOK
  <2> QED BY <1>1, <2>1, NeedInNat
          DEF RoomInv, CursorSafe, WritersSeeThePast, TypeOK, CursorsOK, WritersOK, Positions
<1>4. CursorSafe'
  <2>1. rc[w] <= wpos
    BY <1>3
  <2>2. /\ Available(rc[w], wpos) \in Nat
        /\ \/ Available(rc[w], wpos) = 0
           \/ Available(rc[w], wpos) + (wpos - rc[w]) <= NodeCount - 1 - Protect
    BY <1>3, <2>1, AvailableBound
  <2>3. CASE Available(rc[w], wpos) = 0
    <3>1. wpos' = wpos
      BY <1>2, <1>3, <2>3
    <3> QED BY <1>1, <1>2, <3>1 DEF RoomInv, CursorSafe, Without
  <2>4. CASE Available(rc[w], wpos) + (wpos - rc[w]) <= NodeCount - 1 - Protect
    <3>1. rpos <= wpos' /\ wpos' - rpos <= NodeCount - 1 - Protect
      BY <1>2, <1>3, <2>2, <2>4, NodeCountAssumption, ProtectAssumption
    <3> QED BY <1>2, <3>1 DEF CursorSafe
  <2> QED BY <2>2, <2>3, <2>4
<1>5. wpos <= wpos' /\ wpos' \in Nat
  BY <1>2, <1>3
<1>6. WritersSeeThePast'
  BY <1>1, <1>2, <1>5, <1>3 DEF RoomInv, WritersSeeThePast, TypeOK, WritersOK, Positions
<1>7. ReaderStaysInside'
  BY <1>1, <1>2, <1>3, <1>5 DEF RoomInv, ReaderStaysInside, TypeOK, ReaderOK, Positions
<1> QED BY <1>4, <1>6, <1>7

\* A cursor further on is no further from the end.
LEMMA LaterCursor ==
  ASSUME NEW a \in Nat, NEW b \in Nat, NEW c \in Nat, NEW k \in Int,
         a <= b, c - a <= k
  PROVE  c - b <= k
OBVIOUS

\* The reader moves between the cursors it loaded; publishing its cursor gives
\* room away and takes none.
LEMMA RoomReader ==
  ASSUME TypeOK, RoomInv, Recv \/ ReaderStep \/ ReaderCrash \/ Tick
  PROVE  RoomInv'
<1> SUFFICES ASSUME Without({"lap"})' PROVE CursorSafe' /\ WritersSeeThePast' /\ ReaderStaysInside'
  BY DEF RoomInv, CursorSafe
<1> USE DEF ReaderOnly, writerV, readerV, shared, history, RGoto
<1>1. Without({"lap"}) /\ wpos' = wpos /\ pc' = pc /\ wc' = wc /\ rc' = rc /\ op' = op
  BY DEF Recv, ReaderStep, ScanEnd, ScanSkip, ScanWait, ScanTimeout, ScanBlock, ResetNode,
     TakeBlock, CleanNode, StoreReadCur, ReaderCrash, Tick, Without
<1>2. /\ rpos \in Nat /\ wpos \in Nat /\ rb \in Nat /\ re \in Nat /\ rw \in Nat
      /\ rpos <= wpos /\ (wpos = rpos \/ wpos - rpos <= NodeCount - 1 - Protect)
      /\ WritersSeeThePast /\ ReaderStaysInside
  BY <1>1 DEF RoomInv, CursorSafe, TypeOK, CursorsOK, ReaderOK, Positions
<1>3. rpos <= rpos' /\ rpos' <= wpos /\ rpos' \in Nat
  <2>1. CASE StoreReadCur
    <3>1. rpos' = re /\ rpc = "clean"
      BY <2>1 DEF StoreReadCur
    <3> QED BY <1>2, <3>1 DEF ReaderStaysInside
  <2>2. CASE ~StoreReadCur
    <3>1. rpos' = rpos
      BY <2>2 DEF Recv, ReaderStep, ScanEnd, ScanSkip, ScanWait, ScanTimeout, ScanBlock,
         ResetNode, TakeBlock, CleanNode, ReaderCrash, Tick
    <3> QED BY <1>2, <3>1
  <2> QED BY <2>1, <2>2
<1> HIDE DEF ReaderOnly, writerV, readerV, shared, history, RGoto
<1>4. CursorSafe'
  <2>1. CASE wpos = rpos
    <3>1. rpos' = wpos
      BY <1>2, <1>3, <2>1
    <3> QED BY <1>1, <1>3, <3>1 DEF CursorSafe
  <2>2. CASE wpos - rpos <= NodeCount - 1 - Protect
    <3>1. /\ rpos \in Nat /\ wpos \in Nat /\ rpos' \in Nat
          /\ rpos <= rpos' /\ rpos' <= wpos
      BY <1>2, <1>3
    <3>2. wpos - rpos' <= NodeCount - 1 - Protect
      <4>1. NodeCount - 1 - Protect \in Int
        BY NodeCountAssumption, ProtectAssumption
      <4>2. wpos - rpos <= NodeCount - 1 - Protect
        BY <2>2
      <4> QED BY <3>1, <4>1, <4>2, LaterCursor
    <3> QED BY <1>1, <1>3, <3>2 DEF CursorSafe
  <2> QED BY <1>2, <2>1, <2>2
<1>5. WritersSeeThePast'
  BY <1>1, <1>2, <1>3 DEF WritersSeeThePast, TypeOK, WritersOK, Positions
<1>6. ReaderStaysInside'
  <2> USE <1>1, <1>2 DEF ReaderStaysInside, ReaderOnly, readerV, shared, RGoto
  <2>1. CASE Recv
    BY <2>1 DEF Recv
  <2>2. CASE ScanEnd
    BY <2>2 DEF ScanEnd, LeaveScan
  <2>3. CASE ScanSkip
    BY <2>3 DEF ScanSkip, NextNode
  <2>4. CASE ScanWait
    BY <2>4 DEF ScanWait, AtUnwritten, LeaveScan
  <2>5. CASE ScanTimeout
    BY <2>5 DEF ScanTimeout, AtUnwritten, NextNode
  <2>6. CASE ScanBlock
    BY <2>6 DEF ScanBlock, LeaveScan, NextNode
  <2>7. CASE ResetNode
    BY <2>7 DEF ResetNode
  <2>8. CASE TakeBlock
    BY <2>8 DEF TakeBlock, NextNode
  <2>9. CASE CleanNode
    BY <2>9 DEF CleanNode
  <2>10. CASE StoreReadCur
    BY <2>10 DEF StoreReadCur
  <2>11. CASE ReaderCrash
    BY <2>11 DEF ReaderCrash
  <2>12. CASE Tick
    BY <2>12 DEF Tick
  <2> QED BY <2>1, <2>2, <2>3, <2>4, <2>5, <2>6, <2>7, <2>8, <2>9, <2>10, <2>11, <2>12
          DEF ReaderStep
<1> QED BY <1>4, <1>5, <1>6

\* Every step keeps the room.
LEMMA RoomNext == TypeOK /\ RoomInv /\ [Next]_vars => RoomInv'
<1> SUFFICES ASSUME TypeOK, RoomInv, [Next]_vars PROVE RoomInv'
  OBVIOUS
<1>1. ASSUME NEW w \in Writers, Send(w) \/ Step(w) \/ CasSpurious(w) \/ Crash(w)
      PROVE  RoomInv'
  BY <1>1, RoomSend, RoomQuietStep, RoomLoadWrite, RoomLoadRead, RoomCas
  DEF Step, CasLost, CasSpurious
<1>2. CASE Recv \/ ReaderStep \/ ReaderCrash \/ Tick
  BY <1>2, RoomReader
<1>3. CASE UNCHANGED vars
  BY <1>3 DEF vars, shared, writerV, readerV, history, RoomInv, CursorSafe, Without,
     WritersSeeThePast, ReaderStaysInside
<1> QED BY <1>1, <1>2, <1>3 DEF Next

\* However writers and reader interleave, crash and time out, the used nodes of
\* the ring leave its hole and its protected nodes free, as long as no writer
\* swaps a cursor that went once round since it loaded it.
THEOREM RoomSafe == Spec => []RoomInv
<1>1. Init => RoomInv
  BY RoomInit
<1>2. TypeOK /\ RoomInv /\ [Next]_vars => RoomInv'
  BY RoomNext
<1> QED BY <1>1, <1>2, TypeCorrect, PTL DEF Spec

\* What a user of the ring relies on: the cursors never come closer than the hole
\* and the protected nodes, so a full ring never looks like an empty one.
THEOREM CursorsSafe == Spec => []CursorSafe
<1>1. RoomInv => CursorSafe
  BY DEF RoomInv
<1> QED BY <1>1, RoomSafe, PTL


-----------------------------------------------------------------------------
(***************************************************************************)
(* Positions less than a ring apart.                                       *)
(***************************************************************************)
\* They have different indexes.
LEMMA IdxDistinct ==
  ASSUME NEW p \in Nat, NEW q \in Nat, p - q < NodeCount, q - p < NodeCount,
         Idx(p) = Idx(q)
  PROVE  p = q
<1> DEFINE a == p \div NodeCount
           b == q \div NodeCount
<1>1. p = NodeCount * a + (p % NodeCount) /\ q = NodeCount * b + (q % NodeCount)
  BY NodeCountAssumption, ModDiv
<1>2. a \in Int /\ b \in Int /\ p % NodeCount \in Int
  BY NodeCountAssumption
<1>3. p - q = NodeCount * (a - b)
  <2> HIDE DEF a, b
  <2> DEFINE x == NodeCount * a
             y == NodeCount * b
  <2>1. x \in Int /\ y \in Int /\ NodeCount * (a - b) = x - y
    BY <1>2, NodeCountAssumption
  <2> QED BY <1>1, <1>2, <2>1 DEF Idx
<1> HIDE DEF a, b
<1>4. a = b
  <2>1. CASE a - b >= 1
    <3>1. NodeCount * (a - b) >= NodeCount
      BY <1>2, <2>1, NodeCountAssumption
    <3> QED BY <1>3, <3>1, NodeCountAssumption
  <2>2. CASE b - a >= 1
    <3>1. NodeCount * (b - a) >= NodeCount
      BY <1>2, <2>2, NodeCountAssumption
    <3>2. q - p = NodeCount * (b - a)
      BY <1>2, <1>3, NodeCountAssumption
    <3> QED BY <3>1, <3>2, NodeCountAssumption
  <2> QED BY <1>2, <2>1, <2>2
<1>5. NodeCount * (a - b) = 0
  BY <1>2, <1>4, NodeCountAssumption
<1> QED BY <1>3, <1>5

\* One ring further is the same node.
LEMMA IdxAgain == \A p \in Nat : Idx(p + NodeCount) = Idx(p)
<1> SUFFICES ASSUME NEW p \in Nat PROVE Idx(p + NodeCount) = Idx(p)
  OBVIOUS
<1> DEFINE a == p \div NodeCount
<1>1. a \in Int /\ p = NodeCount * a + (p % NodeCount) /\ p % NodeCount \in 0 .. NodeCount - 1
  BY NodeCountAssumption, ModDiv, ModRange
<1> DEFINE r == p % NodeCount
<1>2. r \in 0 .. NodeCount - 1 /\ a + 1 \in Int /\ p = NodeCount * a + r
  BY <1>1
<1> HIDE DEF a, r
<1>3. p + NodeCount = NodeCount * (a + 1) + r
  BY <1>1, <1>2, NodeCountAssumption
<1>4. (NodeCount * (a + 1) + r) % NodeCount = r
  BY <1>2, NodeCountAssumption, ModUnique
<1> QED BY <1>3, <1>4 DEF Idx, r

\* The nodes the reader counts between two indexes are those between the positions.
LEMMA NodesBetween ==
  ASSUME NEW p \in Nat, NEW q \in Nat, p <= q, q - p < NodeCount
  PROVE  (Idx(q) + NodeCount - Idx(p)) % NodeCount = q - p
<1> DEFINE a == p \div NodeCount
           b == q \div NodeCount
           x == NodeCount * a
           y == NodeCount * b
<1>1. /\ p = x + Idx(p) /\ q = y + Idx(q)
      /\ a \in Int /\ b \in Int /\ x \in Int /\ y \in Int
      /\ Idx(p) \in Int /\ Idx(q) \in Int
  BY NodeCountAssumption, ModDiv DEF Idx
<1>2. NodeCount * (a - b + 1) = x - y + NodeCount
  BY NodeCountAssumption
<1> HIDE DEF a, b, x, y
<1>3. Idx(q) + NodeCount - Idx(p) = NodeCount * (a - b + 1) + (q - p)
  BY <1>1, <1>2, NodeCountAssumption
<1>4. (NodeCount * (a - b + 1) + (q - p)) % NodeCount = q - p
  BY <1>1, NodeCountAssumption, ModUnique
<1> QED BY <1>3, <1>4

\* 0 is no operation number.
LEMMA NextSeqNotZero == \A s \in Seqs : NextSeq(s) # 0
<1> SUFFICES ASSUME NEW s \in Seqs, (s + 1) % SeqMod = 0 PROVE (s + 2) % SeqMod # 0
  BY DEF NextSeq
<1>1. SeqMod \in Nat \ {0, 1, 2} /\ s \in 0 .. SeqMod - 1
  BY BoundAssumption DEF Seqs
<1>2. s = SeqMod - 1
  <2> SUFFICES ASSUME s # SeqMod - 1 PROVE FALSE
    OBVIOUS
  <2>1. SeqMod * 0 + (s + 1) = s + 1 /\ s + 1 \in 0 .. SeqMod - 1
    BY <1>1
  <2>2. (s + 1) % SeqMod = s + 1
    BY <1>1, <2>1, ModUnique
  <2> QED BY <1>1, <2>2
<1>3. s + 2 = SeqMod * 1 + 1 /\ 1 \in 0 .. SeqMod - 1
  BY <1>1, <1>2
<1>4. (s + 2) % SeqMod = 1
  BY <1>1, <1>3, ModUnique
<1> QED BY <1>4

\* What TypeOK and RoomInv say of the cursors of a calm ring.
LEMMA Cursors ==
  ASSUME TypeOK, RoomInv, Calm
  PROVE  /\ NodeCount \in Nat /\ NodeCount > 0
         /\ rpos \in Nat /\ wpos \in Nat /\ rb \in Nat /\ re \in Nat /\ rw \in Nat
         /\ rpos <= wpos /\ wpos <= rpos + NodeCount - 1
         /\ rpc = "scan"  => rpos <= rb /\ rb <= rw /\ rw <= wpos
         /\ rpc = "reset" => rpos <= rb /\ rb < rw /\ rb <= re /\ re <= rw /\ rw <= wpos
         /\ rpc = "clean" => rpos <= re /\ re <= wpos
         /\ rpc \in {"idle", "scan", "reset", "clean"}
<1>1. Without({"lap"})
  BY DEF Calm, Without
<1> QED BY <1>1, NodeCountAssumption, ProtectAssumption
        DEF RoomInv, CursorSafe, ReaderStaysInside, TypeOK, CursorsOK, ReaderOK, Positions,
            ReaderPlaces

\* A position in the ring has a node of its own.
LEMMA OwnNode ==
  ASSUME TypeOK
  PROVE  /\ \A p \in Nat : Idx(p) \in Nodes
         /\ \A p, q \in rpos .. rpos + NodeCount - 1 : Idx(p) = Idx(q) => p = q
<1>1. \A p \in Nat : Idx(p) \in Nodes
  BY IdxInNodes
<1>2. ASSUME NEW p \in rpos .. rpos + NodeCount - 1, NEW q \in rpos .. rpos + NodeCount - 1,
             Idx(p) = Idx(q)
      PROVE  p = q
  <2>1. p \in Nat /\ q \in Nat /\ p - q < NodeCount /\ q - p < NodeCount
    BY NodeCountAssumption DEF TypeOK, CursorsOK, Positions
  <2> QED BY <1>2, <2>1, IdxDistinct
<1> QED BY <1>1, <1>2

(***************************************************************************)
(* Calls: a writer knows its message and how far it is.                    *)
(***************************************************************************)
\* No call is open at first.
LEMMA CallsInit == Init => CallsInv
BY DEF Init, CallsInv, AtWork, AtNode, IdleOp, Writing

\* The parts of a message.
LEMMA MessageParts ==
  ASSUME NEW m \in Message
  PROVE  m[1] \in Writers /\ m[2] \in Nat /\ Need(m) \in Nat /\ m # NoMsg
<1>1. m \in Writers \X (1 .. MaxSend) \X Sizes
  BY DEF Message
<1>2. PICK v \in Writers, i \in 1 .. MaxSend, n \in Sizes : m = <<v, i, n>>
  BY <1>1
<1>3. m[1] = v /\ m[2] = i /\ m[3] = n
  BY <1>2
<1>4. m # NoMsg
  BY <1>2 DEF NoMsg
<1> QED BY <1>3, <1>4, BoundAssumption, SizesAssumption DEF Need

\* A call of a writer returns.
LEMMA CallsReturn ==
  ASSUME TypeOK, CallsInv, NEW w \in Writers, NEW m \in Message,
         NEW r \in {"SUCCESS", "BUFF_LIMIT"}, Return(w, m, r),
         m[1] = w, m[2] <= sent'[w], sent[w] <= sent'[w],
         sent' \in [Writers -> Nat], \A v \in Writers \ {w} : sent'[v] = sent[v]
  PROVE  CallsInv'
<1>1. /\ pc'[w] = "idle" /\ returned' = returned \cup {<<m, r>>}
      /\ \A v \in Writers \ {w} : pc'[v] = pc[v] /\ op'[v] = op[v]
  BY DEF Return, Goto, TypeOK, WritersOK
<1>2. ASSUME NEW v \in Writers, AtWork(v)'
      PROVE  (op[v].m[1] = v /\ op[v].m[2] = sent[v] /\ Need(op[v].m) > 0)'
  BY <1>1, <1>2 DEF CallsInv, AtWork
<1>4. ASSUME NEW v \in Writers PROVE AtNode(v)'
  <2>1. CASE v = w
    <3>1. op'[w].i = 0
      BY DEF Return, TypeOK, WritersOK, IdleOp
    <3> QED BY <1>1, <2>1, <3>1 DEF AtNode, Writing
  <2>2. CASE v # w
    BY <1>1, <2>2 DEF CallsInv, AtNode
  <2> QED BY <2>1, <2>2
<1>3. ASSUME NEW x \in returned'
      PROVE  x[1][2] <= sent'[x[1][1]] /\ (AtWork(x[1][1])' => x[1][2] < sent'[x[1][1]])
  <2>1. CASE x = <<m, r>>
    BY <1>1, <2>1 DEF AtWork
  <2>2. CASE x \in returned
    <3>1. x[1] \in Message
      BY <2>2 DEF TypeOK, HistoryOK
    <3>2. x[1][1] \in Writers /\ x[1][2] \in Nat
      BY <3>1, MessageParts
    <3>3. x[1][2] <= sent[x[1][1]] /\ (AtWork(x[1][1]) => x[1][2] < sent[x[1][1]])
      BY <2>2 DEF CallsInv
    <3>4. sent[w] \in Nat
      BY BoundAssumption DEF TypeOK, WritersOK
    <3>5. CASE x[1][1] = w
      BY <1>1, <3>2, <3>3, <3>4, <3>5 DEF AtWork
    <3>6. CASE x[1][1] # w
      BY <1>1, <3>2, <3>3, <3>6 DEF AtWork
    <3> QED BY <3>5, <3>6
  <2> QED BY <1>1, <1>3, <2>1, <2>2
<1> QED BY <1>2, <1>3, <1>4 DEF CallsInv

\* A call of a writer goes on, or its process dies.
LEMMA CallsStep ==
  ASSUME TypeOK, CallsInv, NEW w \in Writers, UNCHANGED <<sent, returned>>,
         AtWork(w), \A v \in Writers \ {w} : pc'[v] = pc[v] /\ op'[v] = op[v],
         AtNode(w)', pc'[w] = "dead" \/ op'[w].m = op[w].m
  PROVE  CallsInv'
<1>1. ASSUME NEW v \in Writers, AtWork(v)'
      PROVE  (op[v].m[1] = v /\ op[v].m[2] = sent[v] /\ Need(op[v].m) > 0)'
  BY <1>1 DEF CallsInv, AtWork
<1>3. ASSUME NEW v \in Writers PROVE AtNode(v)'
  BY DEF CallsInv, AtNode
<1>2. ASSUME NEW x \in returned'
      PROVE  x[1][2] <= sent'[x[1][1]] /\ (AtWork(x[1][1])' => x[1][2] < sent'[x[1][1]])
  <2>1. x[1] \in Message /\ x \in returned
    BY <1>2 DEF TypeOK, HistoryOK
  <2>2. x[1][1] \in Writers
    BY <2>1, MessageParts
  <2> QED BY <2>1, <2>2 DEF CallsInv, AtWork
<1> QED BY <1>1, <1>2, <1>3 DEF CallsInv

\* A conflict ends a try, or the call.
LEMMA CallsConflict ==
  ASSUME TypeOK, CallsInv, NEW w \in Writers, Conflict(w), UNCHANGED sent, AtWork(w)
  PROVE  CallsInv'
<1>0. op[w].m \in Message /\ op[w].m[1] = w /\ op[w].m[2] = sent[w] /\ sent \in [Writers -> Nat]
  BY BoundAssumption DEF CallsInv, TypeOK, WritersOK, AtWork
<1>1. CASE Return(w, op[w].m, "SUCCESS")
  BY <1>0, <1>1, CallsReturn
<1>2. CASE ~Return(w, op[w].m, "SUCCESS")
  <2>0. op \in [Writers -> OpType] /\ pc \in [Writers -> WriterPlaces]
    BY DEF TypeOK, WritersOK
  <2>1. /\ pc'[w] = "begin" /\ op'[w].m = op[w].m /\ op'[w].i = 0 /\ UNCHANGED returned
        /\ \A v \in Writers \ {w} : pc'[v] = pc[v] /\ op'[v] = op[v]
    BY <1>2, <2>0 DEF Conflict, Goto, IdleOp, OpType
  <2>2. AtNode(w)'
    BY <2>1 DEF AtNode, Writing
  <2> QED BY <2>1, <2>2, CallsStep
<1> QED BY <1>1, <1>2

\* mem_send begins.
LEMMA CallsSend ==
  ASSUME TypeOK, CallsInv, NEW w \in Writers, Send(w)
  PROVE  CallsInv'
<1>1. /\ sent' = [sent EXCEPT ![w] = sent[w] + 1] /\ sent[w] \in 0 .. MaxSend
      /\ sent[w] < MaxSend /\ pc[w] = "idle"
  BY DEF Send, TypeOK, WritersOK
<1>2. PICK n \in Sizes :
        \/ \E r \in {"SUCCESS", "BUFF_LIMIT"} : Return(w, <<w, sent[w] + 1, n>>, r)
        \/ /\ n > 0 /\ Goto(w, "begin")
           /\ op' = [op EXCEPT ![w].m = <<w, sent[w] + 1, n>>, ![w].tries = Tries]
           /\ UNCHANGED returned
  BY Zenon DEF Send
<1> DEFINE m == <<w, sent[w] + 1, n>>
<1>3. m \in Message /\ m[1] = w /\ m[2] = sent[w] + 1 /\ Need(m) = n
  BY <1>1, BoundAssumption DEF Message, Need
<1>4. /\ sent' \in [Writers -> Nat] /\ sent'[w] = sent[w] + 1 /\ sent[w] <= sent'[w]
      /\ \A v \in Writers \ {w} : sent'[v] = sent[v]
  BY <1>1, BoundAssumption DEF TypeOK, WritersOK
<1> HIDE DEF m
<1>5. ASSUME NEW r \in {"SUCCESS", "BUFF_LIMIT"}, Return(w, m, r) PROVE CallsInv'
  <2>1. m[2] <= sent'[w]
    BY <1>1, <1>3, <1>4
  <2> QED BY <1>3, <1>4, <1>5, <2>1, CallsReturn
<1>6. CASE /\ n > 0 /\ Goto(w, "begin")
           /\ op' = [op EXCEPT ![w].m = m, ![w].tries = Tries]
           /\ UNCHANGED returned
  <2>1. /\ pc'[w] = "begin" /\ op'[w].m = m /\ op'[w].i = op[w].i
        /\ \A v \in Writers \ {w} : pc'[v] = pc[v] /\ op'[v] = op[v]
    BY <1>6 DEF Goto, TypeOK, WritersOK, OpType
  <2>2. ASSUME NEW v \in Writers PROVE AtNode(v)'
    BY <1>1, <2>1 DEF CallsInv, AtNode, Writing
  <2>3. ASSUME NEW v \in Writers, AtWork(v)'
        PROVE  (op[v].m[1] = v /\ op[v].m[2] = sent[v] /\ Need(op[v].m) > 0)'
    BY <1>2, <1>3, <1>4, <1>6, <2>1, <2>3 DEF CallsInv, AtWork
  <2>4. ASSUME NEW x \in returned'
        PROVE  x[1][2] <= sent'[x[1][1]] /\ (AtWork(x[1][1])' => x[1][2] < sent'[x[1][1]])
    <3>1. x[1] \in Message /\ x \in returned
      BY <1>6, <2>4 DEF TypeOK, HistoryOK
    <3>2. x[1][1] \in Writers /\ x[1][2] \in Nat
      BY <3>1, MessageParts
    <3>3. x[1][2] <= sent[x[1][1]] /\ (AtWork(x[1][1]) => x[1][2] < sent[x[1][1]])
      BY <3>1 DEF CallsInv
    <3>4. CASE x[1][1] = w
      BY <1>1, <1>4, <3>2, <3>3, <3>4
    <3>5. CASE x[1][1] # w
      BY <1>4, <2>1, <3>2, <3>3, <3>5 DEF AtWork
    <3> QED BY <3>4, <3>5
  <2> QED BY <2>2, <2>3, <2>4 DEF CallsInv
<1> QED BY <1>2, <1>5, <1>6 DEF m

\* Every step keeps the calls.
LEMMA CallsNext == TypeOK /\ CallsInv /\ [Next]_vars => CallsInv'
<1> SUFFICES ASSUME TypeOK, CallsInv, [Next]_vars PROVE CallsInv'
  OBVIOUS
<1>1. ASSUME NEW w \in Writers, AtWork(w),
             Step(w) \/ CasSpurious(w) \/ Crash(w)
      PROVE  CallsInv'
  <2>0. op[w].m \in Message /\ op[w].m[1] = w /\ op[w].m[2] = sent[w] /\ AtNode(w)
        /\ sent \in [Writers -> Nat] /\ op[w].i \in Nat /\ Need(op[w].m) \in Nat
        /\ Need(op[w].m) > 0
    BY <1>1, BoundAssumption, NeedInNat DEF CallsInv, TypeOK, WritersOK, AtWork, OpType
  <2> USE <1>1, <2>0
  <2>1. CASE \E r \in {"SUCCESS", "BUFF_LIMIT"} : Return(w, op[w].m, r) /\ UNCHANGED sent
    BY <2>1, CallsReturn
  <2>2. CASE Conflict(w) /\ UNCHANGED sent
    BY <2>2, CallsConflict
  <2> USE DEF TypeOK, WritersOK, OpType, Goto, HeadOnly, shared, readerV, history, AtNode,
              Writing, AtWork
  <2>3. CASE Begin(w)
    BY <2>3, CallsStep DEF Begin
  <2>4. CASE LoadReadCur(w) /\ ~(\E r \in {"SUCCESS", "BUFF_LIMIT"} : Return(w, op[w].m, r) /\ UNCHANGED sent)
    BY <2>4, CallsStep DEF LoadReadCur
  <2>5. CASE CasWriteCur(w)
    BY <2>5, CallsStep DEF CasWriteCur
  <2>6. CASE Reload(w)
    BY <2>6, CallsStep DEF Reload
  <2>7. CASE MarkFirst(w)
    BY <2>7, CallsStep DEF MarkFirst
  <2>8. CASE MarkNext(w)
    BY <2>8, CallsStep DEF MarkNext
  <2>9. CASE StoreSize(w)
    BY <2>9, CallsStep DEF StoreSize
  <2>10. CASE Fill(w)
    BY <2>10, CallsStep DEF Fill
  <2>11. CASE LoadFlag(w)
    BY <2>11, CallsStep DEF LoadFlag
  <2>12. CASE Publish(w)
    BY <2>12, CallsStep DEF Publish
  <2>13. CASE Crash(w)
    BY <2>13, CallsStep DEF Crash, IdleOp
  <2>14. CASE MarkNextConflict(w) \/ FinalCheck(w)
    BY <2>1, <2>2, <2>14 DEF MarkNextConflict, FinalCheck
  <2> QED BY <2>1, <2>3, <2>4, <2>5, <2>6, <2>7, <2>8, <2>9, <2>10, <2>11, <2>12, <2>13, <2>14
          DEF Step, CasLost, CasSpurious
<1>2. ASSUME NEW w \in Writers, Step(w) \/ CasSpurious(w) \/ Crash(w) PROVE AtWork(w)
  BY <1>2 DEF Step, Begin, LoadReadCur, CasWriteCur, CasLost, MarkFirst, MarkNextConflict,
     MarkNext, StoreSize, Fill, LoadFlag, Publish, FinalCheck, CasSpurious, Crash, Reload, AtWork
<1>3. CASE UNCHANGED <<pc, op, sent, returned>>
  BY <1>3 DEF CallsInv, AtNode, AtWork
<1>4. CASE Recv \/ ReaderStep \/ ReaderCrash \/ Tick \/ UNCHANGED vars
  <2>1. UNCHANGED <<pc, op, sent, returned>>
    BY <1>4 DEF Recv, ReaderStep, ScanEnd, ScanSkip, ScanWait, ScanTimeout, ScanBlock, ResetNode,
       TakeBlock, CleanNode, StoreReadCur, ReaderCrash, Tick, ReaderOnly, writerV, history, vars,
       shared, readerV
  <2> QED BY <1>3, <2>1 DEF NextHead
<1> QED BY <1>1, <1>2, <1>4, CallsSend DEF Next

(***************************************************************************)
(* Blocks: what a state of a calm ring lets its steps rely on.             *)
(***************************************************************************)
\* The hypotheses of every step.
Steady == TypeOK /\ RoomInv /\ CallsInv /\ Calm /\ Blocks

\* A message of a writer at work, and how far it is.
LEMMA Working ==
  ASSUME TypeOK, CallsInv, NEW w \in Writers, AtWork(w)
  PROVE  /\ op[w].m \in Message /\ Need(op[w].m) \in Nat /\ Need(op[w].m) > 0
         /\ wc[w] \in Nat /\ op[w].i \in Nat /\ op[w].i <= Need(op[w].m)
         /\ pc[w] = "mark" => op[w].i = 0
         /\ pc[w] = "cont" => op[w].i \in 1 .. Need(op[w].m) - 1
         /\ pc[w] \in {"size", "fill", "flag", "publish", "check"} => op[w].i = Need(op[w].m)
<1>1. op[w].m \in Message /\ wc[w] \in Nat /\ op[w].i \in Nat /\ pc[w] \in WriterPlaces
  BY DEF TypeOK, WritersOK, OpType, Positions, AtWork
<1>2. Need(op[w].m) \in Nat /\ Need(op[w].m) > 0
  BY <1>1, NeedInNat DEF CallsInv
<1> QED BY <1>1, <1>2 DEF CallsInv, AtNode, AtWork, WriterPlaces, Writing

\* Where the reader is.
LEMMA AtFront ==
  ASSUME Steady
  PROVE  /\ Front \in Nat /\ rpos <= Front /\ Front <= wpos
         /\ rpc = "reset" => /\ InHandSize \in Nat /\ InHandSize > 0 /\ re <= Front
                             /\ Front = rb + InHandSize /\ Front <= rw
         /\ rpc = "scan" => Front = rb /\ re = rb
         /\ rpc = "clean" => Front = re /\ rb <= re /\ rv.i <= rb /\ rpos <= rv.i /\ rv.i \in Nat
         /\ rpc = "idle" => Front = rpos
<1> USE Cursors DEF Steady
<1>1. CASE rpc = "reset"
  <2>1. ResetInv
    BY <1>1 DEF Blocks, ReaderInv
  <2>2. MsgAt(rb) \in Message /\ InHandSize = Need(MsgAt(rb)) /\ InHandSize > 0
    BY <2>1 DEF ResetInv, Whole, InHandSize
  <2>3. InHandSize \in Nat
    BY <2>2, NeedInNat
  <2> QED BY <1>1, <2>1, <2>2, <2>3 DEF Front, ResetInv
<1>2. CASE rpc = "clean"
  <2>1. rv.i \in Nat
    BY DEF TypeOK, ReaderOK, RvType
  <2> QED BY <1>2, <2>1 DEF Blocks, ReaderInv, CleanInv, Front
<1>3. CASE rpc = "scan"
  BY <1>3 DEF Blocks, ReaderInv, ScanInv, Front
<1>4. CASE rpc = "idle"
  BY <1>4 DEF Front
<1> QED BY <1>1, <1>2, <1>3, <1>4

\* Where a writer at its nodes is.
LEMMA AtBlock ==
  ASSUME Steady, NEW w \in Writers, Filling(w)
  PROVE  /\ AtWork(w) /\ Own(w)
         /\ op[w].m \in Message /\ Need(op[w].m) \in Nat /\ Need(op[w].m) > 0
         /\ wc[w] \in Nat /\ op[w].i \in Nat /\ op[w].i <= Need(op[w].m)
         /\ rpos <= wc[w] /\ Front <= wc[w] /\ wc[w] + Need(op[w].m) <= wpos
         /\ wc[w] \in Used
         /\ \A q \in Reserved(w) : q \in Used /\ OwnHead(w, q) /\ ~IsPublished(q)
<1>1. AtWork(w) /\ Own(w)
  BY DEF AtWork, Filling, Writing, Steady, Blocks, FillingInv
<1>2. /\ op[w].m \in Message /\ Need(op[w].m) \in Nat /\ Need(op[w].m) > 0
      /\ wc[w] \in Nat /\ op[w].i \in Nat /\ op[w].i <= Need(op[w].m)
  BY <1>1, Working DEF Steady
<1>3. Front \in Nat /\ rpos <= Front /\ rpos \in Nat /\ wpos \in Nat
      /\ Front <= wc[w] /\ wc[w] + Need(op[w].m) <= wpos
  BY <1>1, AtFront, Cursors DEF Own, Steady
<1>4. rpos <= wc[w] /\ wc[w] \in Used
  BY <1>2, <1>3 DEF Used
<1>5. ASSUME NEW q \in Reserved(w)
      PROVE  q \in Used /\ OwnHead(w, q) /\ ~IsPublished(q)
  <2>1. q \in Used
    BY <1>2, <1>3, <1>4 DEF Reserved, Used
  <2>2. OwnHead(w, q)
    BY <1>1 DEF Own
  <2>3. ~IsPublished(q)
    BY <2>2 DEF OwnHead, IsPublished, Published, Clean, CleanHead, FirstHead, NextHead
  <2> QED BY <2>1, <2>2, <2>3
<1> QED BY <1>1, <1>2, <1>3, <1>4, <1>5

\* A published block and its message.
LEMMA AtPublished ==
  ASSUME Steady, NEW p \in Used, IsPublished(p)
  PROVE  /\ p \in Nat /\ PublishedBlock(p, MsgAt(p)) /\ MsgAt(p) \in Message
         /\ Need(MsgAt(p)) \in Nat /\ Need(MsgAt(p)) > 0 /\ p + Need(MsgAt(p)) <= wpos
<1>1. PublishedBlock(p, MsgAt(p))
  BY DEF Steady, Blocks, PublishedInv
<1>2. p \in Nat
  BY Cursors DEF Used, Steady
<1> QED BY <1>1, <1>2, NeedInNat DEF PublishedBlock, Whole

\* No node of a published block is one that a writer fills, and they have
\* different numbers.
LEMMA PublishedApart ==
  ASSUME Steady, NEW p \in Used, IsPublished(p), NEW w \in Writers, Filling(w)
  PROVE  /\ p + Need(MsgAt(p)) <= wc[w] \/ wc[w] + Need(op[w].m) <= p
         /\ SeqOf(p) # op[w].seq
<1> DEFINE n == Need(MsgAt(p))
<1>1. /\ p \in Nat /\ n \in Nat /\ n > 0 /\ Rest(p, n, SeqOf(p))
  BY AtPublished DEF PublishedBlock
<1>2. /\ wc[w] \in Nat /\ Need(op[w].m) \in Nat /\ Need(op[w].m) > 0
      /\ op[w].i \in Nat /\ op[w].i <= Need(op[w].m) /\ Own(w)
      /\ \A q \in Reserved(w) : OwnHead(w, q) /\ ~IsPublished(q)
  BY AtBlock
<1> HIDE DEF n
<1>3. p \notin Reserved(w)
  BY <1>2
<1>4. ~(p < wc[w] /\ wc[w] < p + n)
  <2> SUFFICES ASSUME p < wc[w], wc[w] < p + n PROVE FALSE
    OBVIOUS
  <2>0. wc[w] \in p + 1 .. p + n - 1
    BY <1>1, <1>2
  <2>1. head[Idx(wc[w])] = NextHead(SeqOf(p))
    BY <1>1, <2>0, Zenon DEF Rest
  <2>2. wc[w] \in Reserved(w)
    BY <1>2 DEF Reserved
  <2>3. OwnHead(w, wc[w])
    BY <1>2, <2>2
  <2> QED BY <1>2, <2>1, <2>3 DEF OwnHead, Clean, CleanHead, FirstHead, NextHead
<1>5. p + n <= wc[w] \/ wc[w] + Need(op[w].m) <= p
  BY <1>1, <1>2, <1>3, <1>4 DEF Reserved
<1>6. SeqOf(p) # op[w].seq
  <2> SUFFICES ASSUME SeqOf(p) = op[w].seq PROVE FALSE
    OBVIOUS
  <2>1. wc[w] <= p /\ p < wc[w] + op[w].i
    BY <1>2 DEF Own, Only
  <2> QED BY <1>1, <1>2, <1>3, <2>1 DEF Reserved
<1> QED BY <1>5, <1>6 DEF n

\* Two published blocks have no node and no number in common.
LEMMA PublishedBlocksApart ==
  ASSUME Steady, NEW p \in Used, IsPublished(p), NEW q \in Used, IsPublished(q), p # q
  PROVE  /\ p + Need(MsgAt(p)) <= q \/ q + Need(MsgAt(q)) <= p
         /\ SeqOf(p) # SeqOf(q)
<1>1. /\ p \in Nat /\ Need(MsgAt(p)) \in Nat /\ Rest(p, Need(MsgAt(p)), SeqOf(p))
      /\ Only(SeqOf(p), p, Need(MsgAt(p)))
  BY AtPublished DEF PublishedBlock
<1>2. /\ q \in Nat /\ Need(MsgAt(q)) \in Nat /\ Rest(q, Need(MsgAt(q)), SeqOf(q))
      /\ Only(SeqOf(q), q, Need(MsgAt(q)))
  BY AtPublished DEF PublishedBlock
<1>3. head[Idx(p)].start /\ head[Idx(q)].start
  BY DEF IsPublished, Published
<1>4. ~(p < q /\ q < p + Need(MsgAt(p)))
  <2> SUFFICES ASSUME p < q, q < p + Need(MsgAt(p)) PROVE FALSE
    OBVIOUS
  <2>0. q \in p + 1 .. p + Need(MsgAt(p)) - 1
    BY <1>1, <1>2
  <2>1. head[Idx(q)] = NextHead(SeqOf(p))
    BY <1>1, <2>0, Zenon DEF Rest
  <2> QED BY <1>3, <2>1 DEF NextHead
<1>5. ~(q < p /\ p < q + Need(MsgAt(q)))
  <2> SUFFICES ASSUME q < p, p < q + Need(MsgAt(q)) PROVE FALSE
    OBVIOUS
  <2>0. p \in q + 1 .. q + Need(MsgAt(q)) - 1
    BY <1>1, <1>2
  <2>1. head[Idx(p)] = NextHead(SeqOf(q))
    BY <1>2, <2>0, Zenon DEF Rest
  <2> QED BY <1>3, <2>1 DEF NextHead
<1>6. p + Need(MsgAt(p)) <= q \/ q + Need(MsgAt(q)) <= p
  BY <1>1, <1>2, <1>4, <1>5
<1>7. SeqOf(p) # SeqOf(q)
  BY <1>1, <1>2, <1>4, <1>5 DEF Only
<1> QED BY <1>6, <1>7

(***************************************************************************)
(* The steps of a writer that leave the ring as it is.                     *)
(***************************************************************************)
\* The ring is not touched.
RingSame == UNCHANGED <<rpos, wpos, head, blk, data, rpc, rb, re, rw, rv>>
\* No other writer moves.
OthersSame(w) ==
  \A v \in Writers \ {w} : pc'[v] = pc[v] /\ wc'[v] = wc[v] /\ op'[v] = op[v]

\* Then the blocks, the free nodes and the reader are as they were.
LEMMA RingSameParts ==
  ASSUME Steady, RingSame
  PROVE  /\ PublishedInv' /\ FreeInv' /\ ReaderInv'
         /\ Front' = Front /\ Used' = Used
         /\ \A s, p, n : Only(s, p, n)' = Only(s, p, n)
         /\ \A p, m : Whole(p, m)' = Whole(p, m)
         /\ \A p, n : SeenWhole(p, n)' = SeenWhole(p, n)
<1> USE DEF RingSame
<1>1. Front' = Front /\ Used' = Used
  BY DEF Front, Used, InHandSize
<1>2. \A s, p, n : Only(s, p, n)' = Only(s, p, n)
  BY Zenon DEF Only, Used, SeqOf
<1>3. \A p, m : Whole(p, m)' = Whole(p, m)
  BY Zenon DEF Whole
<1>4. \A p, n : SeenWhole(p, n)' = SeenWhole(p, n)
  BY Zenon DEF SeenWhole
<1>5. PublishedInv'
  <2>1. PublishedInv
    BY DEF Steady, Blocks
  <2> QED BY <2>1, Zenon DEF PublishedInv, PublishedBlock, Whole, Only, SeenWhole, Rest, Used,
      SeqOf, MsgAt, IsPublished, Published
<1>6. FreeInv'
  BY DEF FreeInv, Clean, Steady, Blocks
<1>7. ReaderInv'
  <2>1. ReaderInv
    BY DEF Steady, Blocks
  <2>2. ScanInv' = ScanInv
    BY Zenon DEF ScanInv, IsPublished, Published
  <2>3. ResetInv' = ResetInv
    BY Zenon DEF ResetInv, IsPublished, Published, Whole, InHandSize, MsgAt, Clean, SeqOf, Only, Used
  <2>4. CleanInv' = CleanInv
    BY Zenon DEF CleanInv, IsPublished, Published, Clean
  <2> QED BY <2>1, <2>2, <2>3, <2>4 DEF ReaderInv
<1> QED BY <1>1, <1>2, <1>3, <1>4, <1>5, <1>6, <1>7

\* What the other writers own stays so.
LEMMA OthersKeep ==
  ASSUME Steady, RingSame, NEW w \in Writers, OthersSame(w), NEW v \in Writers \ {w}
  PROVE  /\ Filling(v)' = Filling(v) /\ Loading(v)' = Loading(v) /\ Numbered(v)' = Numbered(v)
         /\ Filling(v) => Own(v)'
<1>1. pc'[v] = pc[v] /\ wc'[v] = wc[v] /\ op'[v] = op[v] /\ head' = head /\ blk' = blk
      /\ wpos' = wpos
  BY DEF OthersSame, RingSame
<1>2. Filling(v)' = Filling(v) /\ Loading(v)' = Loading(v) /\ Numbered(v)' = Numbered(v)
  BY <1>1 DEF Filling, Loading, Numbered
<1>3. ASSUME Filling(v) PROVE Own(v)'
  <2>1. Own(v)
    BY <1>3 DEF Steady, Blocks, FillingInv
  <2>2. \A q : OwnHead(v, q)' = OwnHead(v, q)
    BY <1>1, Zenon DEF OwnHead, Clean
  <2>3. Reserved(v)' = Reserved(v) /\ First(v)' = First(v)
    BY <1>1 DEF Reserved, First
  <2> QED BY <1>1, <2>1, <2>2, <2>3, RingSameParts DEF Own
<1> QED BY <1>2, <1>3

\* A writer that gives up its number: it returned, tries again or died.
LEMMA GiveUp ==
  ASSUME Steady, RingSame, NEW w \in Writers, OthersSame(w),
         pc'[w] \notin {"load", "cas"} \cup Writing
  PROVE  Blocks'
<1>0. ~Filling(w)' /\ ~Loading(w)' /\ ~Numbered(w)'
  BY DEF Filling, Loading, Numbered
<1>1. PublishedInv' /\ FreeInv' /\ ReaderInv' /\ Used' = Used
  BY RingSameParts
<1>2. \A v \in Writers \ {w} :
        /\ Filling(v)' = Filling(v) /\ Loading(v)' = Loading(v) /\ Numbered(v)' = Numbered(v)
        /\ Filling(v) => Own(v)'
        /\ wc'[v] = wc[v] /\ op'[v] = op[v]
  BY OthersKeep DEF OthersSame
<1>3. FillingInv'
  BY <1>0, <1>2 DEF FillingInv, Apart, Steady, Blocks
<1>4. NumbersInv'
  <2>1. NumbersInv /\ rpc' = rpc /\ rv' = rv /\ head' = head
    BY DEF Steady, Blocks, RingSame
  <2> QED BY <1>0, <1>1, <1>2, <2>1 DEF NumbersInv, SeqOf
<1> QED BY <1>1, <1>3, <1>4 DEF Blocks

\* A writer that goes from one place to the next with the number it has.
LEMMA GoOn ==
  ASSUME Steady, RingSame, NEW w \in Writers, OthersSame(w), op'[w].seq = op[w].seq,
         \/ pc[w] \in {"load", "cas"} /\ pc'[w] \in {"load", "cas"}
         \/ Filling(w) /\ Filling(w)' /\ Own(w)' /\ wc'[w] = wc[w] /\ op'[w].m = op[w].m
  PROVE  Blocks'
<1>1. PublishedInv' /\ FreeInv' /\ ReaderInv' /\ Used' = Used
  BY RingSameParts
<1>2. \A v \in Writers \ {w} :
        /\ Filling(v)' = Filling(v) /\ Loading(v)' = Loading(v) /\ Numbered(v)' = Numbered(v)
        /\ Filling(v) => Own(v)'
        /\ wc'[v] = wc[v] /\ op'[v] = op[v]
  BY OthersKeep DEF OthersSame
<1>3. Filling(w)' = Filling(w) /\ Loading(w)' = Loading(w) /\ Numbered(w)' = Numbered(w)
      /\ (Filling(w) => Own(w)' /\ wc'[w] = wc[w] /\ op'[w].m = op[w].m)
  BY DEF Filling, Loading, Numbered, Writing
<1>4. FillingInv'
  BY <1>2, <1>3 DEF FillingInv, Apart, Steady, Blocks
<1>5. NumbersInv'
  <2>1. NumbersInv /\ rpc' = rpc /\ rv' = rv /\ head' = head
    BY DEF Steady, Blocks, RingSame
  <2> QED BY <1>1, <1>2, <1>3, <2>1 DEF NumbersInv, SeqOf
<1> QED BY <1>1, <1>4, <1>5 DEF Blocks

\* A call that begins or is refused at once owns no node and no number.
LEMMA BlocksSend ==
  ASSUME Steady, NEW w \in Writers, Send(w)
  PROVE  Blocks'
<1>1. pc'[w] \in {"idle", "begin"} /\ OthersSame(w)
  <2>1. PICK n \in Sizes :
          \/ \E r \in {"SUCCESS", "BUFF_LIMIT"} : Return(w, <<w, sent[w] + 1, n>>, r)
          \/ /\ Goto(w, "begin")
             /\ op' = [op EXCEPT ![w].m = <<w, sent[w] + 1, n>>, ![w].tries = Tries]
             /\ UNCHANGED <<wc, rc>>
    BY Zenon DEF Send
  <2> QED BY <2>1, ReturnRoom DEF Goto, Steady, TypeOK, WritersOK, OthersSame
<1>2. RingSame
  BY DEF Send, RingSame, shared, readerV
<1> QED BY <1>1, <1>2, GiveUp DEF Writing

\* A call that ends, or starts over, gives up its number.
LEMMA BlocksConflict ==
  ASSUME Steady, NEW w \in Writers, MarkNextConflict(w) \/ FinalCheck(w)
  PROVE  Blocks'
<1>1. RingSame
  BY DEF MarkNextConflict, FinalCheck, RingSame, shared, readerV
<1>2. pc'[w] \in {"idle", "begin"} /\ OthersSame(w)
  BY ConflictRoom, ReturnRoom DEF MarkNextConflict, FinalCheck, OthersSame, Steady
<1> QED BY <1>1, <1>2, GiveUp DEF Writing

\* So does a writer that dies; what it wrote becomes a remnant.
LEMMA BlocksCrash ==
  ASSUME Steady, NEW w \in Writers, Crash(w)
  PROVE  Blocks'
<1>1. RingSame
  BY DEF Crash, RingSame, shared, readerV
<1>2. pc'[w] = "dead" /\ OthersSame(w)
  BY DEF Crash, Goto, OthersSame, Steady, TypeOK, WritersOK
<1> QED BY <1>1, <1>2, GiveUp DEF Writing

\* A call that saw the read cursor is refused or goes on.
LEMMA BlocksLoadReadCur ==
  ASSUME Steady, NEW w \in Writers, LoadReadCur(w)
  PROVE  Blocks'
<1>1. RingSame
  BY DEF LoadReadCur, RingSame, shared, readerV
<1>2. CASE Return(w, op[w].m, "BUFF_LIMIT")
  <2>1. pc'[w] = "idle" /\ OthersSame(w)
    BY <1>2, ReturnRoom DEF OthersSame, Steady
  <2> QED BY <1>1, <2>1, GiveUp DEF Writing
<1>3. CASE ~Return(w, op[w].m, "BUFF_LIMIT")
  <2>1. pc[w] = "load" /\ pc'[w] = "cas" /\ op' = op /\ OthersSame(w)
    BY <1>3 DEF LoadReadCur, Goto, OthersSame, Steady, TypeOK, WritersOK
  <2> QED BY <1>1, <2>1, GoOn
<1> QED BY <1>2, <1>3

\* A call whose compare-and-swap failed keeps its number.
LEMMA BlocksReload ==
  ASSUME Steady, NEW w \in Writers, Reload(w)
  PROVE  Blocks'
<1>1. RingSame
  BY DEF Reload, RingSame, shared, readerV
<1>2. pc[w] = "cas" /\ pc'[w] = "load" /\ op' = op /\ OthersSame(w)
  BY DEF Reload, Goto, OthersSame, Steady, TypeOK, WritersOK
<1> QED BY <1>1, <1>2, GoOn

\* The flag that is loaded is the one the writer has set.
LEMMA BlocksLoadFlag ==
  ASSUME Steady, NEW w \in Writers, LoadFlag(w)
  PROVE  Blocks'
<1>1. RingSame
  BY DEF LoadFlag, RingSame, shared, readerV
<1>2. /\ pc[w] = "flag" /\ pc'[w] = "publish" /\ wc' = wc /\ OthersSame(w)
      /\ op'[w].m = op[w].m /\ op'[w].i = op[w].i /\ op'[w].seq = op[w].seq
      /\ op'[w].start = head[First(w)].start
  BY DEF LoadFlag, Goto, OthersSame, Steady, TypeOK, WritersOK, OpType
<1>3. Filling(w) /\ Filling(w)'
  BY <1>2 DEF Filling, Writing
<1>4. /\ Own(w) /\ op[w].i = Need(op[w].m) /\ Need(op[w].m) > 0 /\ wc[w] \in Nat
      /\ Need(op[w].m) \in Nat
  BY <1>2, <1>3, AtBlock, Working DEF Steady
<1>5. op'[w].start
  <2>1. wc[w] \in Reserved(w)
    BY <1>4 DEF Reserved
  <2>2. OwnHead(w, wc[w])
    BY <1>4, <2>1 DEF Own
  <2>3. head[Idx(wc[w])] = FirstHead(op[w].seq)
    BY <1>4, <2>2 DEF OwnHead
  <2> QED BY <1>2, <2>3 DEF First, FirstHead
<1>6. Own(w)'
  <2>1. \A q : OwnHead(w, q)' = OwnHead(w, q)
    BY <1>1, <1>2, Zenon DEF OwnHead, Clean, RingSame
  <2>2. Reserved(w)' = Reserved(w) /\ First(w)' = First(w)
    BY <1>2 DEF Reserved, First
  <2>3. Front' = Front /\ wpos' = wpos /\ blk' = blk
    BY <1>1, RingSameParts DEF RingSame
  <2>4. \A p, m : Whole(p, m)' = Whole(p, m)
    BY <1>1, RingSameParts
  <2>5. SeenWhole(wc[w], Need(op[w].m))' /\ Only(op[w].seq, wc[w], op[w].i)'
    BY <1>1, <1>2, <1>4, RingSameParts DEF Own
  <2> QED BY <1>2, <1>4, <1>5, <2>1, <2>2, <2>3, <2>4, <2>5 DEF Own
<1> QED BY <1>1, <1>2, <1>3, <1>6, GoOn

\* A new number is nobody's, as long as the numbers have not come round.
LEMMA BlocksBegin ==
  ASSUME Steady, NEW w \in Writers, Begin(w), Calm'
  PROVE  Blocks'
<1> DEFINE s == NextSeq(opseq)
<1>1. RingSame
  BY DEF Begin, RingSame, readerV
<1>2. /\ pc[w] = "begin" /\ pc'[w] = "load" /\ op'[w].seq = s /\ OthersSame(w)
  BY DEF Begin, Goto, OthersSame, Steady, TypeOK, WritersOK, OpType
<1>3. s # 0 /\ s \notin NumbersInUse
  <2>1. s # 0
    BY NextSeqNotZero DEF Steady, TypeOK, CursorsOK
  <2>2. hz' = IF s \in NumbersInUse THEN hz \cup {"wrap"} ELSE hz
    BY DEF Begin
  <2>3. "wrap" \notin hz'
    BY DEF Calm, Without
  <2> QED BY <2>1, <2>2, <2>3
<1> HIDE DEF s
<1>4. /\ \A n \in Nodes : head[n].seq # s
      /\ \A v \in Writers : op[v].seq # s
      /\ rv.seq # s
  BY <1>3 DEF NumbersInUse
<1>5. PublishedInv' /\ FreeInv' /\ ReaderInv' /\ Used' = Used
  BY <1>1, RingSameParts
<1>6. \A v \in Writers \ {w} :
        /\ Filling(v)' = Filling(v) /\ Loading(v)' = Loading(v) /\ Numbered(v)' = Numbered(v)
        /\ Filling(v) => Own(v)'
        /\ wc'[v] = wc[v] /\ op'[v] = op[v]
  BY <1>1, <1>2, OthersKeep DEF OthersSame
<1>7. ~Filling(w)' /\ Loading(w)'
  BY <1>2 DEF Filling, Loading, Writing
<1>8. FillingInv'
  BY <1>6, <1>7 DEF FillingInv, Apart, Steady, Blocks
<1>9. \A p \in Used : SeqOf(p) # s
  <2>1. ASSUME NEW p \in Used PROVE Idx(p) \in Nodes
    BY <2>1, OwnNode, Cursors DEF Used, Steady
  <2> QED BY <1>4, <2>1 DEF SeqOf
<1>10. NumbersInv'
  <2>1. NumbersInv /\ rpc' = rpc /\ rv' = rv /\ head' = head
    BY <1>1 DEF Steady, Blocks, RingSame
  <2>2. ASSUME NEW v \in Writers
        PROVE  (/\ Loading(v) \/ Filling(v) =>
                     /\ op[v].seq # 0
                     /\ \A u \in Writers \ {v} : Numbered(u) => op[u].seq # op[v].seq
                     /\ rpc = "reset" => rv.seq # op[v].seq
                /\ Loading(v) => \A p \in Used : SeqOf(p) # op[v].seq)'
    <3>1. CASE v = w
      BY <1>2, <1>3, <1>4, <1>5, <1>6, <1>7, <1>9, <2>1, <3>1 DEF SeqOf
    <3>2. CASE v # w
      BY <1>2, <1>4, <1>5, <1>6, <2>1, <3>2 DEF NumbersInv, SeqOf
    <3> QED BY <3>1, <3>2
  <2> QED BY <2>2 DEF NumbersInv
<1> QED BY <1>5, <1>8, <1>10 DEF Blocks

\* The compare-and-swap takes nodes that are clean and in front of everything.
LEMMA BlocksCas ==
  ASSUME Steady, NEW w \in Writers, CasWriteCur(w), Calm', RoomInv', TypeOK'
  PROVE  Blocks'
<1> DEFINE n == Need(op[w].m)
<1>1. /\ pc[w] = "cas" /\ pc'[w] = "mark" /\ wpos' = wpos + n /\ wc'[w] = wpos /\ op' = op
      /\ OthersSame(w)
      /\ UNCHANGED <<rpos, head, blk, data, rpc, rb, re, rw, rv>>
  BY DEF CasWriteCur, Goto, OthersSame, Steady, TypeOK, WritersOK, readerV
<1>2. op[w].i = 0 /\ n \in Nat /\ n > 0 /\ op[w].m \in Message
  <2>1. AtWork(w)
    BY <1>1 DEF AtWork
  <2> QED BY <1>1, <2>1, Working DEF Steady, CallsInv, AtNode
<1> HIDE DEF n
<1>3. /\ rpos \in Nat /\ wpos \in Nat /\ rpos <= wpos /\ wpos < wpos'
      /\ wpos' \in Nat /\ wpos' <= rpos + NodeCount - 1 /\ NodeCount \in Nat
  <2>1. rpos \in Nat /\ wpos \in Nat /\ rpos <= wpos /\ NodeCount \in Nat
    BY Cursors DEF Steady
  <2>2. wpos' \in Nat /\ (wpos' = rpos \/ wpos' - rpos <= NodeCount - 1 - Protect)
    BY <1>1, <1>2, <2>1 DEF RoomInv, CursorSafe, Calm, Without
  <2>3. wpos' - rpos <= NodeCount - 1
    BY <1>1, <1>2, <2>1, <2>2, NodeCountAssumption, ProtectAssumption
  <2> QED BY <1>1, <1>2, <2>1, <2>3
<1>4. \A q \in Used' : q \in Used \/ (wpos <= q /\ q < wpos' /\ Clean(q) /\ SeqOf(q) = 0)
  <2>1. ASSUME NEW q \in Used', q \notin Used PROVE wpos <= q /\ q < wpos' /\ Clean(q)
    BY <1>1, <1>3, <2>1 DEF Used, FreeInv, Steady, Blocks
  <2> QED BY <2>1 DEF Clean, SeqOf, CleanHead
<1>5. Used \subseteq Used'
  BY <1>1, <1>3 DEF Used
<1>6. ASSUME NEW k \in Seqs, k # 0, NEW p \in Nat, NEW l \in Nat, Only(k, p, l)
      PROVE  Only(k, p, l)'
  BY <1>1, <1>4, <1>6 DEF Only, SeqOf
<1>7. /\ Front' = Front /\ Front \in Nat /\ rpos <= Front /\ Front <= wpos
      /\ \A p, l : SeenWhole(p, l)' = SeenWhole(p, l)
      /\ rpc \in {"scan", "reset"} => rw <= wpos
  BY <1>1, AtFront, Cursors DEF Front, InHandSize, SeenWhole, Steady
<1>8. \A p \in Nat : \A m : Whole(p, m) => Whole(p, m)'
  <2> SUFFICES ASSUME NEW p \in Nat, NEW m, Whole(p, m) PROVE Whole(p, m)'
    OBVIOUS
  <2>1. m \in Message /\ Need(m) \in Nat
    BY NeedInNat DEF Whole
  <2> QED BY <1>1, <1>3, <2>1 DEF Whole
<1>9. PublishedInv'
  <2> SUFFICES ASSUME NEW p \in Used', IsPublished(p)' PROVE PublishedBlock(p, MsgAt(p))'
    BY DEF PublishedInv
  <2>1. p \in Used /\ IsPublished(p) /\ MsgAt(p)' = MsgAt(p) /\ SeqOf(p)' = SeqOf(p)
    BY <1>1, <1>4 DEF Clean, CleanHead, IsPublished, Published, MsgAt, SeqOf
  <2>2. /\ p \in Nat /\ PublishedBlock(p, MsgAt(p)) /\ MsgAt(p) \in Message
        /\ Need(MsgAt(p)) \in Nat
    BY <2>1, AtPublished
  <2>3. SeqOf(p) \in Seqs
    BY <2>2, IdxInNodes DEF SeqOf, Steady, TypeOK, NodesOK, HeadType
  <2>4. Whole(p, MsgAt(p))' /\ SeenWhole(p, Need(MsgAt(p)))'
        /\ Only(SeqOf(p), p, Need(MsgAt(p)))'
    BY <1>6, <1>7, <1>8, <2>1, <2>2, <2>3 DEF PublishedBlock
  <2>5. Rest(p, Need(MsgAt(p)), SeqOf(p))'
    BY <1>1, <2>1, <2>2 DEF PublishedBlock, Rest
  <2> QED BY <1>1, <2>1, <2>2, <2>4, <2>5 DEF PublishedBlock
<1>10. Own(w)'
  <2>1. \A q \in Reserved(w)' : Clean(q)
    <3> SUFFICES ASSUME NEW q \in Reserved(w)' PROVE Clean(q)
      OBVIOUS
    <3>1. q \in wpos .. wpos + n - 1
      BY <1>1 DEF Reserved, n
    <3>2. q \in wpos .. rpos + NodeCount - 1
      BY <1>1, <1>2, <1>3, <3>1
    <3> QED BY <3>2 DEF FreeInv, Steady, Blocks
  <2>2. \A q \in Reserved(w)' : OwnHead(w, q)'
    <3> SUFFICES ASSUME NEW q \in Reserved(w)' PROVE OwnHead(w, q)'
      OBVIOUS
    <3>1. q >= wpos /\ Clean(q)'
      BY <1>1, <1>2, <1>3, <2>1 DEF Reserved, Clean, n
    <3> QED BY <1>1, <1>2, <1>3, <3>1 DEF OwnHead
  <2>3. Only(op[w].seq, wc[w], op[w].i)'
    <3>1. \A q \in Used' : SeqOf(q) # op[w].seq
      BY <1>1, <1>4 DEF Steady, Blocks, NumbersInv, Loading
    <3> QED BY <1>1, <3>1 DEF Only, SeqOf
  <2>4. SeenWhole(wc[w], Need(op[w].m))'
    BY <1>1, <1>3, <1>7, Cursors DEF SeenWhole, Steady
  <2>5. Front' <= wc'[w] /\ wc'[w] + Need(op'[w].m) <= wpos'
    BY <1>1, <1>2, <1>3, <1>7 DEF n
  <2> QED BY <1>1, <2>2, <2>3, <2>4, <2>5 DEF Own
<1>11. ASSUME NEW v \in Writers \ {w}
       PROVE  /\ Filling(v)' = Filling(v) /\ Loading(v)' = Loading(v) /\ Numbered(v)' = Numbered(v)
              /\ wc'[v] = wc[v] /\ op'[v] = op[v]
              /\ Filling(v) => Own(v)' /\ wc[v] + Need(op[v].m) <= wpos
  <2>1. pc'[v] = pc[v] /\ wc'[v] = wc[v] /\ op'[v] = op[v]
    BY <1>1 DEF OthersSame
  <2>2. Filling(v)' = Filling(v) /\ Loading(v)' = Loading(v) /\ Numbered(v)' = Numbered(v)
    BY <2>1 DEF Filling, Loading, Numbered
  <2>3. ASSUME Filling(v) PROVE Own(v)' /\ wc[v] + Need(op[v].m) <= wpos
    <3>1. /\ Own(v) /\ wc[v] \in Nat /\ Need(op[v].m) \in Nat /\ op[v].i \in Nat
          /\ wc[v] + Need(op[v].m) <= wpos
      BY <2>3, AtBlock
    <3>2. op[v].seq # 0 /\ op[v].seq \in Seqs
      BY <2>3 DEF Steady, Blocks, NumbersInv, TypeOK, WritersOK, OpType
    <3>3. \A q : OwnHead(v, q)' = OwnHead(v, q)
      BY <1>1, <2>1, Zenon DEF OwnHead, Clean
    <3>4. Reserved(v)' = Reserved(v) /\ First(v)' = First(v)
      BY <2>1 DEF Reserved, First
    <3>5. Only(op[v].seq, wc[v], op[v].i)'
      BY <1>6, <2>1, <3>1, <3>2 DEF Own
    <3>6. SeenWhole(wc[v], Need(op[v].m))' /\ (Whole(wc[v], op[v].m) => Whole(wc[v], op[v].m)')
      BY <1>7, <1>8, <2>1, <3>1 DEF Own
    <3>7. Front' <= wc'[v] /\ wc'[v] + Need(op'[v].m) <= wpos'
      BY <1>3, <1>7, <2>1, <3>1 DEF Own
    <3> QED BY <1>1, <2>1, <3>1, <3>3, <3>4, <3>5, <3>6, <3>7 DEF Own
  <2> QED BY <2>1, <2>2, <2>3
<1>12. Filling(w)' /\ ~Loading(w)' /\ Numbered(w)' /\ Loading(w) /\ Numbered(w)
  BY <1>1 DEF Filling, Loading, Numbered, Writing
<1>13. FillingInv'
  <2>1. \A v \in Writers : Filling(v)' => Own(v)'
    BY <1>10, <1>11
  <2>2. ASSUME NEW v \in Writers, NEW u \in Writers, v # u, Filling(v)', Filling(u)'
        PROVE  Apart(v, u)'
    BY <1>1, <1>11, <2>2 DEF FillingInv, Apart, Steady, Blocks
  <2> QED BY <2>1, <2>2 DEF FillingInv
<1>14. NumbersInv'
  <2>1. NumbersInv
    BY DEF Steady, Blocks
  <2>2. ASSUME NEW v \in Writers, Loading(v)' \/ Filling(v)'
        PROVE  (/\ op[v].seq # 0
                /\ \A u \in Writers \ {v} : Numbered(u) => op[u].seq # op[v].seq
                /\ rpc = "reset" => rv.seq # op[v].seq)'
    BY <1>1, <1>11, <1>12, <2>1, <2>2 DEF NumbersInv
  <2>3. ASSUME NEW v \in Writers, Loading(v)'
        PROVE  \A p \in Used' : SeqOf(p)' # op'[v].seq
    <3>1. Loading(v) /\ op'[v].seq # 0 /\ op' = op
      BY <1>1, <1>11, <1>12, <2>2, <2>3
    <3> QED BY <1>1, <1>4, <2>1, <3>1 DEF NumbersInv, SeqOf
  <2> QED BY <2>2, <2>3 DEF NumbersInv
<1>15. FreeInv'
  BY <1>1, <1>3 DEF FreeInv, Clean, Steady, Blocks
<1>16. ReaderInv'
  <2>1. ReaderInv
    BY DEF Steady, Blocks
  <2>2. ScanInv' = ScanInv /\ CleanInv' = CleanInv
    BY <1>1, Zenon DEF ScanInv, CleanInv, IsPublished, Published, Clean
  <2>3. ASSUME rpc = "reset" PROVE ResetInv'
    <3>1. ResetInv
      BY <2>1, <2>3 DEF ReaderInv
    <3>2. rb \in Nat /\ InHandSize \in Nat /\ rv.seq \in Seqs /\ rv.seq # 0
      BY <2>3, <3>1, AtFront, Cursors DEF ResetInv, Steady, TypeOK, ReaderOK, RvType
    <3>3. Only(rv.seq, rb, InHandSize)' /\ Whole(rb, MsgAt(rb))'
      BY <1>1, <1>6, <1>8, <3>1, <3>2 DEF ResetInv, InHandSize, MsgAt
    <3> QED BY <1>1, <3>1, <3>3 DEF ResetInv, InHandSize, IsPublished, Published, SeqOf, Clean
  <2> QED BY <1>1, <2>1, <2>2, <2>3 DEF ReaderInv
<1> QED BY <1>9, <1>13, <1>14, <1>15, <1>16 DEF Blocks

(***************************************************************************)
(* The steps of a writer that write into its own nodes.                    *)
(***************************************************************************)
\* The step of w changes nothing but its own nodes, and gives these no number
\* but its own.
OwnNodesOnly(w) ==
  /\ UNCHANGED <<rpos, wpos, rpc, rb, re, rw, rv>>
  /\ OthersSame(w)
  /\ wc'[w] = wc[w] /\ op'[w].m = op[w].m /\ op'[w].seq = op[w].seq
  /\ Filling(w) /\ pc'[w] \in Writing
  /\ \A p \in rpos .. rpos + NodeCount - 1 :
       \/ head'[Idx(p)] = head[Idx(p)] /\ blk'[Idx(p)] = blk[Idx(p)] /\ data'[Idx(p)] = data[Idx(p)]
       \/ p \in Reserved(w) /\ SeqOf(p)' \in {SeqOf(p), op[w].seq}

\* What is in use lies in the ring; so does a block of it.
LEMMA UsedInRing ==
  ASSUME TypeOK, RoomInv, Calm
  PROVE  /\ \A p \in Used : p \in rpos .. rpos + NodeCount - 1 /\ p \in Nat
         /\ \A p \in wpos .. rpos + NodeCount - 1 : p \in rpos .. rpos + NodeCount - 1
BY Cursors DEF Used

\* The reader's front is no node of w.
LEMMA FrontStays ==
  ASSUME Steady, NEW w \in Writers, OwnNodesOnly(w)
  PROVE  Front' = Front
<1>1. UNCHANGED <<rpos, wpos, rpc, rb, re, rw, rv>> /\ Filling(w)
  BY DEF OwnNodesOnly
<1>2. ASSUME rpc = "reset" PROVE InHandSize' = InHandSize
  <2>1. wc[w] \in Nat /\ Need(op[w].m) \in Nat /\ Front <= wc[w]
    BY <1>1, AtBlock
  <2>2. /\ rb \in rpos .. rpos + NodeCount - 1 /\ rb < wc[w]
    BY <1>2, <2>1, AtFront, Cursors DEF Steady
  <2>3. rb \notin Reserved(w)
    BY <2>1, <2>2 DEF Reserved
  <2> QED BY <1>1, <2>2, <2>3 DEF OwnNodesOnly, InHandSize
<1> QED BY <1>1, <1>2 DEF Front

\* A number that is neither 0 nor w's is where it was.
LEMMA OnlyStays ==
  ASSUME Steady, NEW w \in Writers, OwnNodesOnly(w),
         NEW s, s # op[w].seq, NEW p \in Nat, NEW n \in Nat, Only(s, p, n)
  PROVE  Only(s, p, n)'
<1> SUFFICES ASSUME NEW q \in Used', SeqOf(q)' = s PROVE p <= q /\ q < p + n
  BY Zenon DEF Only
<1>1. q \in Used
  BY DEF Used, OwnNodesOnly
<1>2. q \in rpos .. rpos + NodeCount - 1
  BY <1>1, UsedInRing DEF Steady
<1>3. SeqOf(q)' = SeqOf(q) \/ SeqOf(q)' = op[w].seq
  BY <1>2 DEF OwnNodesOnly, SeqOf
<1>4. SeqOf(q) = s
  BY <1>3
<1> QED BY <1>1, <1>4 DEF Only

\* Such a step keeps everything, if it keeps what w owns and publishes whole
\* blocks.
LEMMA OwnWrite ==
  ASSUME Steady, NEW w \in Writers, OwnNodesOnly(w),
         Filling(w)' => Own(w)',
         \A p \in Reserved(w) : IsPublished(p)' => PublishedBlock(p, MsgAt(p))'
  PROVE  Blocks'
<1> DEFINE n == Need(op[w].m)
           Same(p) == /\ head'[Idx(p)] = head[Idx(p)]
                      /\ blk'[Idx(p)] = blk[Idx(p)]
                      /\ data'[Idx(p)] = data[Idx(p)]
<1>1. /\ UNCHANGED <<rpos, wpos, rpc, rb, re, rw, rv>>
      /\ wc'[w] = wc[w] /\ op'[w].m = op[w].m /\ op'[w].seq = op[w].seq
      /\ Filling(w) /\ pc'[w] \in Writing
  BY DEF OwnNodesOnly
<1>2. /\ n \in Nat /\ n > 0 /\ wc[w] \in Nat
      /\ rpos <= wc[w] /\ Front <= wc[w] /\ wc[w] + n <= wpos
  BY <1>1, AtBlock
<1>3. /\ rpos \in Nat /\ wpos \in Nat /\ rpos <= wpos /\ wpos <= rpos + NodeCount - 1
      /\ NodeCount \in Nat
  BY Cursors DEF Steady
<1>4. Reserved(w) = wc[w] .. wc[w] + n - 1
  BY DEF Reserved
<1>5. ASSUME NEW p \in rpos .. rpos + NodeCount - 1, p < wc[w] \/ wc[w] + n <= p
      PROVE  Same(p)
  BY <1>2, <1>3, <1>4, <1>5 DEF OwnNodesOnly
<1> HIDE DEF n, Same
<1>6. Used' = Used
  BY <1>1 DEF Used
<1>7. NumbersInv /\ Numbered(w) /\ op[w].seq # 0
  BY <1>1 DEF Steady, Blocks, NumbersInv, Numbered, Filling, Writing
<1>8. \A p, l : SeenWhole(p, l)' = SeenWhole(p, l)
  BY <1>1, Zenon DEF SeenWhole
\* A whole block apart from w's nodes stays whole.
<1>9. ASSUME NEW p \in Nat, NEW m, rpos <= p, Whole(p, m),
             p + Need(m) <= wc[w] \/ wc[w] + n <= p
      PROVE  Whole(p, m)'
  <2>1. m \in Message /\ Need(m) \in Nat /\ Need(m) > 0 /\ p + Need(m) <= wpos
    BY <1>9, NeedInNat DEF Whole
  <2>2. ASSUME NEW q \in p .. p + Need(m) - 1
        PROVE  Same(q)
    BY <1>2, <1>3, <1>5, <1>9, <2>1
  <2>3. p \in p .. p + Need(m) - 1
    BY <2>1
  <2> QED BY <1>1, <1>9, <2>1, <2>2, <2>3 DEF Whole, Same
\* A published block stays as it is.
<1>10. ASSUME NEW p \in Used, IsPublished(p)
       PROVE  PublishedBlock(p, MsgAt(p))'
  <2>0. PICK m, s : m = MsgAt(p) /\ s = SeqOf(p)
    OBVIOUS
  <2>1. /\ p \in Nat /\ PublishedBlock(p, m) /\ m \in Message
        /\ Need(m) \in Nat /\ Need(m) > 0 /\ p + Need(m) <= wpos
    BY <1>10, <2>0, AtPublished
  <2>2. p + Need(m) <= wc[w] \/ wc[w] + n <= p
    BY <1>1, <1>10, <2>0, PublishedApart DEF n
  <2>3. s # op[w].seq
    BY <1>1, <1>10, <2>0, PublishedApart
  <2>4. \A q \in p .. p + Need(m) - 1 : Same(q)
    <3> SUFFICES ASSUME NEW q \in p .. p + Need(m) - 1 PROVE Same(q)
      OBVIOUS
    <3>1. q \in rpos .. rpos + NodeCount - 1 /\ (q < wc[w] \/ wc[w] + n <= q)
      BY <1>2, <1>3, <1>10, <2>1, <2>2 DEF Used
    <3> QED BY <1>5, <3>1
  <2>5. p \in p .. p + Need(m) - 1
    BY <2>1
  <2>6. MsgAt(p)' = m /\ SeqOf(p)' = s
    BY <2>0, <2>4, <2>5 DEF MsgAt, SeqOf, Same
  <2>7. Whole(p, m)'
    BY <1>3, <1>9, <1>10, <2>1, <2>2 DEF PublishedBlock, Used
  <2>8. Only(s, p, Need(m))'
    BY <2>0, <2>1, <2>3, OnlyStays DEF PublishedBlock
  <2>9. Rest(p, Need(m), s)'
    <3>1. \A q \in p + 1 .. p + Need(m) - 1 : q \in p .. p + Need(m) - 1
      BY <2>1
    <3> QED BY <2>0, <2>1, <2>4, <3>1 DEF PublishedBlock, Rest, Same
  <2>10. /\ s # 0 /\ SeenWhole(p, Need(m))'
         /\ rpc' = "reset" /\ p # rb' => s # rv'.seq
    BY <1>1, <1>8, <2>0, <2>1 DEF PublishedBlock
  <2> QED BY <2>6, <2>7, <2>8, <2>9, <2>10 DEF PublishedBlock
<1>11. PublishedInv'
  <2> SUFFICES ASSUME NEW p \in Used, IsPublished(p)' PROVE PublishedBlock(p, MsgAt(p))'
    BY <1>6 DEF PublishedInv
  <2>1. CASE p \in Reserved(w)
    BY <2>1
  <2>2. CASE p \notin Reserved(w)
    <3>1. Same(p)
      BY <1>2, <1>3, <1>4, <1>5, <2>2, UsedInRing DEF Steady
    <3>2. IsPublished(p)
      BY <3>1 DEF IsPublished, Published, Same
    <3> QED BY <1>10, <3>2
  <2> QED BY <2>1, <2>2
<1>12. ASSUME NEW v \in Writers \ {w}
       PROVE  /\ Filling(v)' = Filling(v) /\ Loading(v)' = Loading(v) /\ Numbered(v)' = Numbered(v)
              /\ wc'[v] = wc[v] /\ op'[v] = op[v]
              /\ Filling(v) => Own(v)'
  <2>1. pc'[v] = pc[v] /\ wc'[v] = wc[v] /\ op'[v] = op[v]
    BY DEF OwnNodesOnly, OthersSame
  <2>2. Filling(v)' = Filling(v) /\ Loading(v)' = Loading(v) /\ Numbered(v)' = Numbered(v)
    BY <2>1 DEF Filling, Loading, Numbered
  <2>3. ASSUME Filling(v) PROVE Own(v)'
    <3> DEFINE nv == Need(op[v].m)
    <3>1. /\ Own(v) /\ wc[v] \in Nat /\ nv \in Nat /\ nv > 0 /\ op[v].i \in Nat
          /\ rpos <= wc[v] /\ wc[v] + nv <= wpos
      BY <2>3, AtBlock
    <3>2. wc[v] + nv <= wc[w] \/ wc[w] + n <= wc[v]
      BY <1>1, <2>3 DEF Steady, Blocks, FillingInv, Apart, n
    <3>3. Reserved(v) = wc[v] .. wc[v] + nv - 1
      BY DEF Reserved
    <3> HIDE DEF nv
    <3>4. \A q \in Reserved(v) : Same(q)
      <4> SUFFICES ASSUME NEW q \in Reserved(v) PROVE Same(q)
        OBVIOUS
      <4>1. PICK c : c = wc[v]
        OBVIOUS
      <4>2. c \in Nat /\ rpos <= c /\ c + nv <= wpos /\ q \in c .. c + nv - 1
        BY <3>1, <3>3, <4>1
      <4>3. q \in Nat /\ rpos <= q /\ q <= wpos - 1
        BY <1>3, <3>1, <4>2
      <4>4. q \in rpos .. rpos + NodeCount - 1
        BY <1>3, <4>3
      <4>5. CASE c + nv <= wc[w]
        <5>1. q < wc[w]
          BY <1>2, <3>1, <4>2, <4>5
        <5> QED BY <1>5, <4>4, <5>1
      <4>6. CASE wc[w] + n <= c
        <5>1. wc[w] + n <= q
          BY <1>2, <4>2, <4>6
        <5> QED BY <1>5, <4>4, <5>1
      <4> QED BY <3>2, <4>1, <4>5, <4>6
    <3>5. wc[v] \in Reserved(v)
      BY <3>1, <3>3
    <3>6. \A q \in Reserved(v) : OwnHead(v, q)'
      BY <2>1, <3>1, <3>4 DEF Own, OwnHead, Clean, Same
    <3>7. Only(op[v].seq, wc[v], op[v].i)'
      <4>1. op[v].seq # op[w].seq
        BY <1>7, <2>3 DEF NumbersInv
      <4>2. Only(op[v].seq, wc[v], op[v].i)
        BY <3>1 DEF Own
      <4>3. PICK s, p, l : s = op[v].seq /\ p = wc[v] /\ l = op[v].i
        OBVIOUS
      <4>4. Only(s, p, l)'
        BY <3>1, <4>1, <4>2, <4>3, OnlyStays
      <4> QED BY <2>1, <4>3, <4>4 DEF Only
    <3>8. Whole(wc[v], op[v].m) => Whole(wc[v], op[v].m)'
      BY <1>9, <2>1, <3>1, <3>2 DEF nv
    <3>9. blk'[First(v)] = blk[First(v)] /\ First(v)' = First(v) /\ Reserved(v)' = Reserved(v)
      BY <2>1, <3>4, <3>5 DEF First, Same, Reserved
    <3>10. Front' <= wc[v] /\ SeenWhole(wc[v], Need(op[v].m))'
      <4>1. Front' = Front
        BY FrontStays
      <4> QED BY <1>8, <2>1, <3>1, <4>1 DEF Own
    <3> QED BY <1>1, <2>1, <3>1, <3>6, <3>7, <3>8, <3>9, <3>10 DEF Own
  <2> QED BY <2>1, <2>2, <2>3
<1>13. FillingInv'
  BY <1>1, <1>12 DEF FillingInv, Apart, Steady, Blocks
<1>14. NumbersInv'
  <2>1. ~Loading(w) /\ ~Loading(w)' /\ Numbered(w)'
    BY <1>1 DEF Loading, Numbered, Filling, Writing
  <2>2. ASSUME NEW v \in Writers, Loading(v)' \/ Filling(v)'
        PROVE  (/\ op[v].seq # 0
                /\ \A u \in Writers \ {v} : Numbered(u) => op[u].seq # op[v].seq
                /\ rpc = "reset" => rv.seq # op[v].seq)'
    BY <1>1, <1>7, <1>12, <2>1, <2>2 DEF NumbersInv
  <2>3. ASSUME NEW v \in Writers, Loading(v)'
        PROVE  \A p \in Used' : SeqOf(p)' # op'[v].seq
    <3>1. v # w /\ Loading(v) /\ op'[v] = op[v]
      BY <1>12, <2>1, <2>3
    <3>2. op[w].seq # op[v].seq /\ \A p \in Used : SeqOf(p) # op[v].seq
      BY <1>7, <3>1 DEF NumbersInv
    <3>3. ASSUME NEW p \in Used PROVE SeqOf(p)' = SeqOf(p) \/ SeqOf(p)' = op[w].seq
      BY UsedInRing DEF OwnNodesOnly, SeqOf, Steady
    <3> QED BY <1>6, <3>1, <3>2, <3>3
  <2> QED BY <2>2, <2>3 DEF NumbersInv
<1>15. FreeInv'
  <2>1. \A p \in wpos .. rpos + NodeCount - 1 : Same(p)
    BY <1>2, <1>3, <1>5
  <2> QED BY <1>1, <2>1 DEF FreeInv, Clean, Same, Steady, Blocks
<1>16. ReaderInv'
  <2>1. ReaderInv
    BY DEF Steady, Blocks
  <2>2. ASSUME NEW p \in Nat, rpos <= p, p < Front PROVE Same(p)
    BY <1>2, <1>3, <1>5, <2>2, AtFront
  <2>3. ASSUME NEW p \in Nat, rpos <= p, p < Front
        PROVE  IsPublished(p)' = IsPublished(p) /\ Clean(p)' = Clean(p) /\ SeqOf(p)' = SeqOf(p)
               /\ head'[Idx(p)].start = head[Idx(p)].start
    BY <2>2, <2>3 DEF IsPublished, Published, Clean, SeqOf, Same
  <2>4. Front \in Nat /\ rpos <= Front
    BY AtFront
  <2>5. ASSUME rpc = "scan" PROVE ScanInv'
    <3>1. ScanInv /\ Front = rb
      BY <2>1, <2>5, AtFront DEF ReaderInv
    <3> QED BY <1>1, <1>3, <2>3, <2>4, <3>1 DEF ScanInv
  <2>6. ASSUME rpc = "clean" PROVE CleanInv'
    <3>1. CleanInv /\ Front = re /\ rb <= re /\ rv.i <= rb /\ rv.i \in Nat /\ rpos <= rv.i
      BY <2>1, <2>6, AtFront DEF ReaderInv
    <3>2. rb \in Nat /\ re \in Nat
      BY Cursors DEF Steady
    <3> QED BY <1>1, <1>3, <2>3, <3>1, <3>2 DEF CleanInv
  <2>7. ASSUME rpc = "reset" PROVE ResetInv'
    <3>1. /\ ResetInv /\ Front = rb + InHandSize /\ InHandSize \in Nat /\ InHandSize > 0
          /\ re <= Front
      BY <2>1, <2>7, AtFront DEF ReaderInv
    <3>2. rb \in Nat /\ re \in Nat /\ rpos <= rb /\ rb <= re
      BY <2>7, Cursors DEF Steady
    <3>3. Same(rb)
      BY <2>2, <3>1, <3>2
    <3>4. InHandSize' = InHandSize /\ MsgAt(rb)' = MsgAt(rb)
      BY <1>1, <3>3 DEF InHandSize, MsgAt, Same
    <3>5. Whole(rb, MsgAt(rb))'
      <4>1. Whole(rb, MsgAt(rb)) /\ Need(MsgAt(rb)) = InHandSize
        BY <3>1 DEF ResetInv, Whole, InHandSize
      <4>2. rb + Need(MsgAt(rb)) <= wc[w]
        BY <1>2, <3>1, <4>1
      <4>3. PICK p, m : p = rb /\ m = MsgAt(rb)
        OBVIOUS
      <4>4. Whole(p, m)'
        BY <1>9, <3>2, <4>1, <4>2, <4>3
      <4> QED BY <1>1, <3>4, <4>3, <4>4 DEF Whole
    <3>6. Only(rv.seq, rb, InHandSize)'
      <4>1. rv.seq # op[w].seq /\ Only(rv.seq, rb, InHandSize)
        BY <1>1, <1>7, <2>7, <3>1 DEF NumbersInv, ResetInv
      <4>2. PICK s, p, l : s = rv.seq /\ p = rb /\ l = InHandSize
        OBVIOUS
      <4>3. Only(s, p, l)'
        BY <3>1, <3>2, <4>1, <4>2, OnlyStays
      <4> QED BY <1>1, <3>4, <4>2, <4>3 DEF Only
    <3>7. /\ (\A p \in rpos .. rb - 1 : ~IsPublished(p))'
          /\ (\A p \in rb .. re - 1 : Clean(p))'
          /\ (\A p \in re .. rb + InHandSize - 1 : SeqOf(p) = rv.seq)'
          /\ (\A p \in rb + 1 .. rb + InHandSize - 1 : ~head[Idx(p)].start)'
      BY <1>1, <1>3, <2>3, <3>1, <3>2, <3>4 DEF ResetInv
    <3> QED BY <1>1, <3>1, <3>4, <3>5, <3>6, <3>7 DEF ResetInv
  <2> QED BY <1>1, <2>1, <2>5, <2>6, <2>7 DEF ReaderInv
<1> QED BY <1>11, <1>13, <1>14, <1>15, <1>16 DEF Blocks

\* A writer that goes on filling publishes nothing.
LEMMA OwnWriteOn ==
  ASSUME Steady, NEW w \in Writers, OwnNodesOnly(w), Filling(w)', Own(w)'
  PROVE  Blocks'
<1>1. Reserved(w)' = Reserved(w)
  BY DEF OwnNodesOnly, Reserved
<1>2. ASSUME NEW p \in Reserved(w) PROVE ~IsPublished(p)'
  <2>1. OwnHead(w, p)'
    BY <1>1 DEF Own
  <2> QED BY <2>1 DEF OwnHead, IsPublished, Published, Clean, CleanHead, FirstHead, NextHead
<1> QED BY <1>2, OwnWrite

\* Writing one head changes one position.
LEMMA OneHead ==
  ASSUME TypeOK, NEW t \in rpos .. rpos + NodeCount - 1, NEW h,
         head' = [head EXCEPT ![Idx(t)] = h]
  PROVE  \A p \in rpos .. rpos + NodeCount - 1 :
           head'[Idx(p)] = IF p = t THEN h ELSE head[Idx(p)]
<1> SUFFICES ASSUME NEW p \in rpos .. rpos + NodeCount - 1
             PROVE  head'[Idx(p)] = IF p = t THEN h ELSE head[Idx(p)]
  OBVIOUS
<1>1. p \in Nat /\ t \in Nat
  BY NodeCountAssumption DEF TypeOK, CursorsOK, Positions
<1>2. Idx(p) \in Nodes /\ Idx(t) \in Nodes /\ (Idx(p) = Idx(t) => p = t)
  BY <1>1, OwnNode
<1>3. head \in [Nodes -> HeadType]
  BY DEF TypeOK, NodesOK
<1> QED BY <1>2, <1>3

\* A clean head that becomes the start of a block.
LEMMA FirstMarked ==
  ASSUME NEW x \in Nodes, NEW f \in [Nodes -> HeadType], NEW s \in Seqs, f[x] = CleanHead
  PROVE  [f EXCEPT ![x].start = TRUE, ![x].seq = s] = [f EXCEPT ![x] = FirstHead(s)]
<1> DEFINE g == [f EXCEPT ![x].start = TRUE, ![x].seq = s]
<1>1. g[x].start = TRUE /\ g[x].writen = FALSE /\ g[x].seq = s
  BY DEF CleanHead, FirstHead
<1>2. g[x] \in HeadType
  BY DEF HeadType
<1>3. g = [f EXCEPT ![x] = g[x]]
  OBVIOUS
<1> HIDE DEF g
<1>4. g[x] = [start |-> TRUE, writen |-> FALSE, seq |-> s]
  BY <1>1, <1>2 DEF HeadType
<1>5. g = [f EXCEPT ![x] = FirstHead(s)]
  BY <1>3, <1>4 DEF FirstHead, NextHead
<1> QED BY <1>5 DEF g

\* A clean head that becomes a later node of a block.
LEMMA NextMarked ==
  ASSUME NEW x \in Nodes, NEW f \in [Nodes -> HeadType], NEW s \in Seqs, f[x] = CleanHead
  PROVE  [f EXCEPT ![x].writen = TRUE, ![x].seq = s] = [f EXCEPT ![x] = NextHead(s)]
<1> DEFINE g == [f EXCEPT ![x].writen = TRUE, ![x].seq = s]
<1>1. g[x].start = FALSE /\ g[x].writen = TRUE /\ g[x].seq = s
  BY DEF CleanHead, FirstHead
<1>2. g[x] \in HeadType
  BY DEF HeadType
<1>3. g = [f EXCEPT ![x] = g[x]]
  OBVIOUS
<1> HIDE DEF g
<1>4. g[x] = [start |-> FALSE, writen |-> TRUE, seq |-> s]
  BY <1>1, <1>2 DEF HeadType
<1>5. g = [f EXCEPT ![x] = NextHead(s)]
  BY <1>3, <1>4 DEF FirstHead, NextHead
<1> QED BY <1>5 DEF g

\* The start of a block that is published.
LEMMA FirstPublished ==
  ASSUME NEW x \in Nodes, NEW f \in [Nodes -> HeadType], NEW s \in Seqs, f[x] = FirstHead(s)
  PROVE  [f EXCEPT ![x].writen = TRUE, ![x].start = TRUE] = [f EXCEPT ![x] = [start |-> TRUE, writen |-> TRUE, seq |-> s]]
<1> DEFINE g == [f EXCEPT ![x].writen = TRUE, ![x].start = TRUE]
<1>1. g[x].start = TRUE /\ g[x].writen = TRUE /\ g[x].seq = s
  BY DEF CleanHead, FirstHead
<1>2. g[x] \in HeadType
  BY DEF HeadType
<1>3. g = [f EXCEPT ![x] = g[x]]
  OBVIOUS
<1> HIDE DEF g
<1>4. g[x] = [start |-> TRUE, writen |-> TRUE, seq |-> s]
  BY <1>1, <1>2 DEF HeadType
<1>5. g = [f EXCEPT ![x] = [start |-> TRUE, writen |-> TRUE, seq |-> s]]
  BY <1>3, <1>4 DEF FirstHead, NextHead
<1> QED BY <1>5 DEF g

\* The next head is marked.
LEMMA BlocksMark ==
  ASSUME Steady, NEW w \in Writers, MarkFirst(w) \/ MarkNext(w)
  PROVE  Blocks' /\ OwnNodesOnly(w) /\ Filling(w)' /\ Own(w)'
<1> DEFINE n == Need(op[w].m)
           i == op[w].i
           h == IF i = 0 THEN FirstHead(op[w].seq) ELSE NextHead(op[w].seq)
<1>1. Filling(w) /\ pc[w] \in {"mark", "cont"}
  BY DEF MarkFirst, MarkNext, Filling, Writing
<1>2. /\ n \in Nat /\ n > 0 /\ wc[w] \in Nat /\ i \in Nat /\ i < n
      /\ rpos <= wc[w] /\ Front <= wc[w] /\ wc[w] + n <= wpos
      /\ (i = 0) = (pc[w] = "mark")
      /\ op[w].m \in Message /\ Own(w)
  <2>1. AtWork(w)
    BY <1>1 DEF AtWork
  <2> QED BY <1>1, <2>1, AtBlock, Working DEF Steady
<1>3. /\ rpos \in Nat /\ wpos \in Nat /\ rpos <= wpos /\ wpos <= rpos + NodeCount - 1
      /\ NodeCount \in Nat
  BY Cursors DEF Steady
<1>4. /\ UNCHANGED <<rpos, wpos, rpc, rb, re, rw, rv, wc, data>> /\ OthersSame(w)
      /\ op'[w].m = op[w].m /\ op'[w].seq = op[w].seq /\ op'[w].i = i + 1
      /\ op'[w].start = op[w].start
      /\ pc'[w] \in {"cont", "size"}
  BY <1>2 DEF MarkFirst, MarkNext, HeadOnly, readerV, OthersSame, Goto, Steady, TypeOK,
         WritersOK, OpType
<1>5. \A q \in Reserved(w) : q \in rpos .. rpos + NodeCount - 1 /\ OwnHead(w, q)
  BY <1>2, <1>3 DEF Reserved, Own
<1>6. wc[w] \in Reserved(w) /\ wc[w] + i \in Reserved(w) /\ Clean(wc[w] + i)
  <2>1. wc[w] \in Reserved(w) /\ wc[w] + i \in Reserved(w)
    BY <1>2 DEF Reserved
  <2> QED BY <1>2, <1>5, <2>1 DEF OwnHead
<1>7. head' = [head EXCEPT ![Idx(wc[w] + i)] = h]
  <2>1. head[Idx(wc[w] + i)] = CleanHead
    BY <1>6 DEF Clean
  <2>2. CASE MarkFirst(w)
    <3>1. i = 0 /\ wc[w] + i = wc[w]
      BY <1>2, <2>2 DEF MarkFirst
    <3>2. head' = [head EXCEPT ![Idx(wc[w])].start = TRUE, ![Idx(wc[w])].seq = op[w].seq]
      BY <2>2 DEF MarkFirst, First
    <3>3. head[Idx(wc[w])] = CleanHead
      BY <2>1, <3>1
    <3>4. head \in [Nodes -> HeadType] /\ Idx(wc[w]) \in Nodes /\ op[w].seq \in Seqs
      BY <1>2, IdxInNodes DEF Steady, TypeOK, NodesOK, WritersOK, OpType
    <3>5. head' = [head EXCEPT ![Idx(wc[w])] = FirstHead(op[w].seq)]
      BY <3>2, <3>3, <3>4, FirstMarked
    <3> QED BY <3>1, <3>5
  <2>3. CASE MarkNext(w)
    <3>1. i # 0
      BY <1>2, <2>3 DEF MarkNext
    <3>2. head' = [head EXCEPT ![Idx(wc[w] + i)].writen = TRUE, ![Idx(wc[w] + i)].seq = op[w].seq]
      BY <2>3 DEF MarkNext, Node
    <3>3. head[Idx(wc[w] + i)] = CleanHead
      BY <2>1
    <3>4. head \in [Nodes -> HeadType] /\ Idx(wc[w] + i) \in Nodes /\ op[w].seq \in Seqs
      BY <1>2, IdxInNodes DEF Steady, TypeOK, NodesOK, WritersOK, OpType
    <3>5. head' = [head EXCEPT ![Idx(wc[w] + i)] = NextHead(op[w].seq)]
      BY <3>2, <3>3, <3>4, NextMarked
    <3> QED BY <3>1, <3>5
  <2> QED BY <2>2, <2>3
<1> HIDE DEF n, i, h
<1>8. \A p \in rpos .. rpos + NodeCount - 1 :
        head'[Idx(p)] = IF p = wc[w] + i THEN h ELSE head[Idx(p)]
  <2>1. wc[w] + i \in rpos .. rpos + NodeCount - 1
    BY <1>5, <1>6
  <2>2. TypeOK
    BY DEF Steady
  <2> QED BY <1>7, <2>1, <2>2, OneHead
<1>9. \A p \in rpos .. rpos + NodeCount - 1 : p # wc[w] => blk'[Idx(p)] = blk[Idx(p)]
  <2> SUFFICES ASSUME NEW p \in rpos .. rpos + NodeCount - 1, p # wc[w]
               PROVE  blk'[Idx(p)] = blk[Idx(p)]
    OBVIOUS
  <2>1. Idx(p) # Idx(wc[w]) /\ Idx(p) \in Nodes
    BY <1>3, <1>5, <1>6, OwnNode DEF Steady
  <2>2. blk' = blk \/ blk' = [blk EXCEPT ![Idx(wc[w])] = CleanBlk]
    BY DEF MarkFirst, MarkNext, First
  <2> QED BY <2>1, <2>2 DEF Steady, TypeOK, NodesOK
<1>10. h.seq = op[w].seq
  BY DEF h, FirstHead, NextHead
<1>11. OwnNodesOnly(w)
  <2>1. ASSUME NEW p \in rpos .. rpos + NodeCount - 1, p = wc[w] \/ p = wc[w] + i
        PROVE  p \in Reserved(w) /\ SeqOf(p)' \in {SeqOf(p), op[w].seq}
    BY <1>6, <1>8, <1>10, <2>1 DEF SeqOf
  <2>2. pc'[w] \in Writing
    BY <1>4 DEF Writing
  <2> QED BY <1>1, <1>4, <1>8, <1>9, <2>1, <2>2 DEF OwnNodesOnly
<1>12. Own(w)'
  <2>1. Front' = Front
    BY <1>11, FrontStays
  <2>2. Reserved(w)' = Reserved(w)
    BY <1>4 DEF Reserved
  <2>3. ASSUME NEW q \in Reserved(w) PROVE OwnHead(w, q)'
    <3>1. q \in Nat /\ q \in rpos .. rpos + NodeCount - 1 /\ OwnHead(w, q) /\ wc[w] <= q
      BY <1>2, <1>3, <1>5 DEF Reserved
    <3>2. CASE q = wc[w] + i
      <4>1. head'[Idx(q)] = h
        BY <1>8, <3>1, <3>2
      <4>2. ~(q >= wc[w] + (i + 1)) /\ (q = wc[w]) = (i = 0)
        BY <1>2, <3>1, <3>2
      <4> QED BY <1>4, <4>1, <4>2 DEF OwnHead, h
    <3>3. CASE q # wc[w] + i
      <4>1. head'[Idx(q)] = head[Idx(q)]
        BY <1>8, <3>1, <3>3
      <4>2. (q >= wc[w] + (i + 1)) = (q >= wc[w] + i)
        BY <1>2, <3>1, <3>3
      <4> QED BY <1>4, <3>1, <4>1, <4>2 DEF OwnHead, Clean, i
    <3> QED BY <3>2, <3>3
  <2>4. Only(op[w].seq, wc[w], op[w].i)'
    <3> SUFFICES ASSUME NEW q \in Used, SeqOf(q)' = op[w].seq
                 PROVE  wc[w] <= q /\ q < wc[w] + (i + 1)
      BY <1>4 DEF Only, Used
    <3>1. q \in rpos .. rpos + NodeCount - 1 /\ q \in Nat
      BY UsedInRing DEF Steady
    <3>2. CASE q = wc[w] + i
      BY <1>2, <3>2
    <3>3. CASE q # wc[w] + i
      <4>1. SeqOf(q) = op[w].seq
        BY <1>8, <3>1, <3>3 DEF SeqOf
      <4>2. wc[w] <= q /\ q < wc[w] + i
        BY <1>2, <4>1 DEF Own, Only, i
      <4> QED BY <1>2, <3>1, <4>2
    <3> QED BY <3>2, <3>3
  <2>5. SeenWhole(wc[w], Need(op[w].m))'
    BY <1>2, <1>4 DEF Own, SeenWhole
  <2> QED BY <1>2, <1>4, <2>1, <2>2, <2>3, <2>4, <2>5 DEF Own, n
<1>13. Filling(w)'
  BY <1>4 DEF Filling, Writing
<1> QED BY <1>11, <1>12, <1>13, OwnWriteOn

\* Writing one block head changes one position.
LEMMA OneBlk ==
  ASSUME TypeOK, NEW t \in rpos .. rpos + NodeCount - 1, NEW b,
         blk' = [blk EXCEPT ![Idx(t)].size = b]
  PROVE  /\ \A p \in rpos .. rpos + NodeCount - 1 : p # t => blk'[Idx(p)] = blk[Idx(p)]
         /\ blk'[Idx(t)].size = b
<1>1. t \in Nat /\ \A p \in rpos .. rpos + NodeCount - 1 : p \in Nat
  BY NodeCountAssumption DEF TypeOK, CursorsOK, Positions
<1>2. \A p \in rpos .. rpos + NodeCount - 1 : Idx(p) \in Nodes /\ (Idx(p) = Idx(t) => p = t)
  BY <1>1, OwnNode
<1>3. blk \in [Nodes -> BlkType] /\ Idx(t) \in Nodes
  BY <1>1, <1>2 DEF TypeOK, NodesOK
<1> QED BY <1>2, <1>3 DEF BlkType

\* Own nodes lie in the ring, each with an index of its own.
LEMMA OwnInRing ==
  ASSUME Steady, NEW w \in Writers, Filling(w)
  PROVE  /\ \A q \in Reserved(w) : q \in rpos .. rpos + NodeCount - 1 /\ q \in Nat
         /\ wc[w] \in Reserved(w)
<1>1. /\ wc[w] \in Nat /\ Need(op[w].m) \in Nat /\ Need(op[w].m) > 0
      /\ rpos <= wc[w] /\ wc[w] + Need(op[w].m) <= wpos
  BY AtBlock
<1>2. rpos \in Nat /\ wpos \in Nat /\ wpos <= rpos + NodeCount - 1 /\ NodeCount \in Nat
  BY Cursors DEF Steady
<1> QED BY <1>1, <1>2 DEF Reserved

\* The length goes into the head of the writer's own block.
LEMMA BlocksStoreSize ==
  ASSUME Steady, NEW w \in Writers, StoreSize(w)
  PROVE  Blocks' /\ OwnNodesOnly(w) /\ Filling(w)' /\ Own(w)'
<1>1. /\ UNCHANGED <<rpos, wpos, rpc, rb, re, rw, rv, wc, data, head, op>> /\ OthersSame(w)
      /\ pc[w] = "size" /\ pc'[w] = "fill"
      /\ blk' = [blk EXCEPT ![Idx(wc[w])].size = Need(op[w].m)]
  BY DEF StoreSize, HeadOnly, readerV, OthersSame, Goto, Steady, TypeOK, WritersOK, First
<1>2. Filling(w) /\ Filling(w)'
  BY <1>1 DEF Filling, Writing
<1>3. wc[w] \in rpos .. rpos + NodeCount - 1 /\ wc[w] \in Reserved(w)
  BY <1>2, OwnInRing
<1>4. /\ \A p \in rpos .. rpos + NodeCount - 1 : p # wc[w] => blk'[Idx(p)] = blk[Idx(p)]
      /\ blk'[Idx(wc[w])].size = Need(op[w].m)
  BY <1>1, <1>3, OneBlk DEF Steady
<1>5. OwnNodesOnly(w)
  BY <1>1, <1>2, <1>3, <1>4 DEF OwnNodesOnly, Writing, SeqOf
<1>6. Own(w)'
  <2>1. Own(w) /\ Front' = Front
    BY <1>2, <1>5, AtBlock, FrontStays
  <2>2. Reserved(w)' = Reserved(w) /\ First(w)' = First(w)
    BY <1>1 DEF Reserved, First
  <2>3. \A q : OwnHead(w, q)' = OwnHead(w, q)
    BY <1>1, Zenon DEF OwnHead, Clean
  <2>4. SeenWhole(wc[w], Need(op[w].m))' /\ Only(op[w].seq, wc[w], op[w].i)'
    BY <1>1, <2>1 DEF Own, SeenWhole, Only, Used, SeqOf
  <2> QED BY <1>1, <1>4, <2>1, <2>2, <2>3, <2>4 DEF Own, First
<1> QED BY <1>2, <1>5, <1>6, OwnWriteOn

\* The payload fills the writer's own nodes and no other.
LEMMA BlocksFill ==
  ASSUME Steady, NEW w \in Writers, Fill(w)
  PROVE  Blocks' /\ OwnNodesOnly(w) /\ Filling(w)' /\ Own(w)'
<1> DEFINE m == op[w].m
           n == Need(m)
           rest == {Idx(wc[w] + i) : i \in 1 .. n - 1}
<1>1. /\ UNCHANGED <<rpos, wpos, rpc, rb, re, rw, rv, wc, head, op>> /\ OthersSame(w)
      /\ pc[w] = "fill" /\ pc'[w] = "flag"
  BY DEF Fill, readerV, OthersSame, Goto, Steady, TypeOK, WritersOK
<1>2. /\ data' = [x \in Nodes |-> IF x \in rest \cup {First(w)} THEN m ELSE data[x]]
      /\ blk' = [x \in Nodes |-> IF x = First(w) THEN [blk[x] EXCEPT !.check = m]
                                 ELSE IF x \in rest THEN [size |-> Junk, check |-> NoMsg]
                                 ELSE blk[x]]
  BY Zenon DEF Fill
<1>3. Filling(w) /\ Filling(w)'
  BY <1>1 DEF Filling, Writing
<1>4. /\ m \in Message /\ n \in Nat /\ n > 0 /\ wc[w] \in Nat /\ Own(w)
      /\ wc[w] + n <= wpos
  BY <1>3, AtBlock
<1>5. Reserved(w) = wc[w] .. wc[w] + n - 1
  BY DEF Reserved
<1>6. \A q \in Reserved(w) : q \in rpos .. rpos + NodeCount - 1
  BY <1>3, OwnInRing
<1>7. ASSUME NEW p \in rpos .. rpos + NodeCount - 1
      PROVE  /\ Idx(p) \in Nodes
             /\ (Idx(p) \in rest \cup {First(w)}) = (p \in Reserved(w))
             /\ (Idx(p) = First(w)) = (p = wc[w])
  <2>1. p \in Nat /\ Idx(p) \in Nodes
    BY OwnNode, Cursors DEF Steady
  <2>2. \A q \in Reserved(w) : Idx(p) = Idx(q) => p = q
    BY <1>6, <1>7, OwnNode DEF Steady
  <2>3. wc[w] \in Reserved(w)
    BY <1>4, <1>5
  <2>4. ASSUME p \in Reserved(w) PROVE Idx(p) \in rest \cup {First(w)}
    <3>1. CASE p = wc[w]
      BY <3>1 DEF First
    <3>2. CASE p # wc[w]
      <4>1. p - wc[w] \in 1 .. n - 1 /\ p = wc[w] + (p - wc[w])
        BY <1>4, <1>5, <2>4, <3>2
      <4> QED BY <4>1
    <3> QED BY <3>1, <3>2
  <2>5. ASSUME Idx(p) \in rest \cup {First(w)} PROVE p \in Reserved(w)
    <3>1. CASE Idx(p) = First(w)
      BY <2>2, <2>3, <3>1 DEF First
    <3>2. CASE Idx(p) \in rest
      <4>1. PICK i \in 1 .. n - 1 : Idx(p) = Idx(wc[w] + i)
        BY <3>2
      <4>2. wc[w] + i \in Reserved(w)
        BY <1>4, <1>5
      <4> QED BY <2>2, <4>1, <4>2
    <3> QED BY <2>5, <3>1, <3>2
  <2> QED BY <2>1, <2>2, <2>3, <2>4, <2>5 DEF First
<1> HIDE DEF m, n, rest
<1>8. \A p \in rpos .. rpos + NodeCount - 1 :
        /\ data'[Idx(p)] = IF p \in Reserved(w) THEN m ELSE data[Idx(p)]
        /\ p \notin Reserved(w) => blk'[Idx(p)] = blk[Idx(p)]
  BY <1>2, <1>7
<1>9. wc[w] \in Reserved(w) /\ wc[w] \in rpos .. rpos + NodeCount - 1
  BY <1>3, OwnInRing
<1>10. blk'[Idx(wc[w])] = [size |-> n, check |-> m]
  <2>1. blk'[Idx(wc[w])] = [blk[Idx(wc[w])] EXCEPT !.check = m]
    BY <1>2, <1>7, <1>9 DEF First
  <2>2. blk[Idx(wc[w])].size = n /\ blk[Idx(wc[w])] \in BlkType
    BY <1>1, <1>4, <1>7, <1>9 DEF Own, n, m, First, Steady, TypeOK, NodesOK
  <2> QED BY <2>1, <2>2 DEF BlkType
<1>11. OwnNodesOnly(w)
  BY <1>1, <1>3, <1>8 DEF OwnNodesOnly, Writing, SeqOf
<1>12. Own(w)'
  <2>1. Front' = Front
    BY <1>11, FrontStays
  <2>2. Reserved(w)' = Reserved(w)
    BY <1>1 DEF Reserved
  <2>3. \A q : OwnHead(w, q)' = OwnHead(w, q)
    BY <1>1, Zenon DEF OwnHead, Clean
  <2>4. SeenWhole(wc[w], Need(op[w].m))' /\ Only(op[w].seq, wc[w], op[w].i)'
    BY <1>1, <1>4 DEF Own, SeenWhole, Only, Used, SeqOf
  <2>5. Whole(wc[w], op[w].m)'
    <3>1. \A q \in wc[w] .. wc[w] + n - 1 : data'[Idx(q)] = m
      BY <1>5, <1>6, <1>8
    <3> QED BY <1>1, <1>4, <1>10, <3>1 DEF Whole, n, m
  <2> QED BY <1>1, <1>4, <2>1, <2>2, <2>3, <2>4, <2>5 DEF Own
<1> QED BY <1>3, <1>11, <1>12, OwnWriteOn

\* The block is whole when it is published.
LEMMA BlocksPublish ==
  ASSUME Steady, NEW w \in Writers, Publish(w)
  PROVE  /\ Blocks' /\ OwnNodesOnly(w) /\ blk' = blk /\ op' = op
         /\ Whole(wc[w], op[w].m) /\ ~IsPublished(wc[w])
         /\ IsPublished(wc[w])' /\ SeqOf(wc[w])' = op[w].seq
         /\ \A p \in rpos .. rpos + NodeCount - 1 : p # wc[w] => head'[Idx(p)] = head[Idx(p)]
<1> DEFINE n == Need(op[w].m)
<1>1. /\ UNCHANGED <<rpos, wpos, rpc, rb, re, rw, rv, wc, data, blk, op>> /\ OthersSame(w)
      /\ pc[w] = "publish" /\ pc'[w] = "check"
      /\ head' = [head EXCEPT ![Idx(wc[w])].writen = TRUE, ![Idx(wc[w])].start = op[w].start]
  BY DEF Publish, HeadOnly, readerV, OthersSame, Goto, Steady, TypeOK, WritersOK, First
<1>2. Filling(w) /\ ~Filling(w)'
  BY <1>1 DEF Filling, Writing
<1>3. /\ op[w].m \in Message /\ n \in Nat /\ n > 0 /\ wc[w] \in Nat /\ Own(w)
      /\ op[w].i = n /\ wc[w] + n <= wpos
  <2>1. AtWork(w)
    BY <1>1 DEF AtWork
  <2> QED BY <1>1, <1>2, <2>1, AtBlock, Working DEF Steady
<1>4. Reserved(w) = wc[w] .. wc[w] + n - 1
  BY DEF Reserved
<1> HIDE DEF n
<1>5. /\ \A q \in Reserved(w) : q \in rpos .. rpos + NodeCount - 1 /\ q \in Nat
      /\ wc[w] \in Reserved(w)
  BY <1>2, OwnInRing
<1>6. \A q \in Reserved(w) :
        head[Idx(q)] = IF q = wc[w] THEN FirstHead(op[w].seq) ELSE NextHead(op[w].seq)
  <2> SUFFICES ASSUME NEW q \in Reserved(w)
               PROVE  head[Idx(q)] = IF q = wc[w] THEN FirstHead(op[w].seq)
                                     ELSE NextHead(op[w].seq)
    OBVIOUS
  <2>1. OwnHead(w, q) /\ ~(q >= wc[w] + n)
    BY <1>3, <1>4 DEF Own
  <2> QED BY <1>3, <2>1 DEF OwnHead
<1> DEFINE h == [start |-> TRUE, writen |-> TRUE, seq |-> op[w].seq]
<1>7. head' = [head EXCEPT ![Idx(wc[w])] = h]
  <2>1. head[Idx(wc[w])] = FirstHead(op[w].seq) /\ Idx(wc[w]) \in Nodes
    BY <1>3, <1>5, <1>6, IdxInNodes
  <2>2. head \in [Nodes -> HeadType] /\ op[w].seq \in Seqs
    BY DEF Steady, TypeOK, NodesOK, WritersOK, OpType
  <2>3. op[w].start = TRUE
    <3>1. op[w].start
      BY <1>1, <1>3 DEF Own
    <3>2. op[w].start \in BOOLEAN
      BY DEF Steady, TypeOK, WritersOK, OpType
    <3> QED BY <3>1, <3>2, Zenon
  <2>4. head' = [head EXCEPT ![Idx(wc[w])].writen = TRUE, ![Idx(wc[w])].start = TRUE]
    BY <1>1, <2>3
  <2> QED BY <2>1, <2>2, <2>4, FirstPublished
<1> HIDE DEF h
<1>8. \A p \in rpos .. rpos + NodeCount - 1 :
        head'[Idx(p)] = IF p = wc[w] THEN h ELSE head[Idx(p)]
  <2>1. TypeOK
    BY DEF Steady
  <2>2. wc[w] \in rpos .. rpos + NodeCount - 1
    BY <1>5
  <2> QED BY <1>7, <2>1, <2>2, OneHead
<1>9. h.start /\ h.writen /\ h.seq = op[w].seq /\ SeqOf(wc[w]) = op[w].seq
  BY <1>5, <1>6 DEF h, SeqOf, FirstHead
<1>10. \A p \in rpos .. rpos + NodeCount - 1 : SeqOf(p)' = SeqOf(p)
  BY <1>8, <1>9 DEF SeqOf
<1>11. OwnNodesOnly(w)
  <2>1. \A p \in rpos .. rpos + NodeCount - 1 : p = wc[w] => SeqOf(p)' = SeqOf(p)
    BY <1>10
  <2> QED BY <1>1, <1>2, <1>5, <1>8, <2>1 DEF OwnNodesOnly, Writing
<1>12. ASSUME NEW p \in Reserved(w), IsPublished(p)'
       PROVE  PublishedBlock(p, MsgAt(p))'
  <2>1. p = wc[w]
    <3> SUFFICES ASSUME p # wc[w] PROVE FALSE
      OBVIOUS
    <3>1. head'[Idx(p)] = NextHead(op[w].seq)
      BY <1>5, <1>6, <1>8
    <3> QED BY <1>12, <3>1 DEF IsPublished, Published, NextHead
  <2>2. Whole(p, op[w].m) /\ MsgAt(p) = op[w].m
    BY <1>1, <1>3, <2>1 DEF Own, Whole, MsgAt
  <2>3. Whole(p, op[w].m)' /\ MsgAt(p)' = op[w].m
    BY <1>1, <2>2 DEF Whole, MsgAt
  <2>4. SeqOf(p)' = op[w].seq
    BY <1>5, <1>9, <1>10, <2>1
  <2>5. op[w].seq # 0 /\ (rpc = "reset" => rv.seq # op[w].seq)
    BY <1>2 DEF Steady, Blocks, NumbersInv
  <2>6. Rest(p, n, op[w].seq)'
    <3> SUFFICES ASSUME NEW q \in p + 1 .. p + n - 1
                 PROVE  head'[Idx(q)] = NextHead(op[w].seq)
      BY <1>1, <1>3 DEF Rest, n
    <3>1. q \in Reserved(w) /\ q # wc[w]
      BY <1>3, <1>4, <2>1
    <3> QED BY <1>5, <1>6, <1>8, <3>1
  <2>7. Only(op[w].seq, p, n)'
    <3> SUFFICES ASSUME NEW q \in Used, SeqOf(q)' = op[w].seq PROVE p <= q /\ q < p + n
      BY <1>1 DEF Only, Used, n
    <3>1. SeqOf(q) = op[w].seq
      BY <1>10, UsedInRing DEF Steady
    <3> QED BY <1>3, <2>1, <3>1 DEF Own, Only
  <2>8. SeenWhole(p, n)'
    BY <1>1, <1>3, <2>1 DEF Own, SeenWhole, n
  <2> QED BY <1>1, <2>3, <2>4, <2>5, <2>6, <2>7, <2>8 DEF PublishedBlock, n
<1>13. Blocks'
  BY <1>2, <1>11, <1>12, OwnWrite
<1>14. head'[Idx(wc[w])] = h /\ head[Idx(wc[w])] = FirstHead(op[w].seq)
  BY <1>5, <1>6, <1>8
<1>15. IsPublished(wc[w])' /\ SeqOf(wc[w])' = op[w].seq
  BY <1>1, <1>9, <1>14 DEF IsPublished, Published, SeqOf
<1>16. ~IsPublished(wc[w]) /\ Whole(wc[w], op[w].m)
  BY <1>1, <1>3, <1>14 DEF IsPublished, Published, FirstHead, Own
<1>17. ASSUME NEW p \in rpos .. rpos + NodeCount - 1, p # wc[w]
       PROVE  head'[Idx(p)] = head[Idx(p)]
  BY <1>8, <1>17
<1> QED BY <1>1, <1>11, <1>13, <1>15, <1>16, <1>17

(***************************************************************************)
(* The steps of the reader that leave the ring as it is.                   *)
(***************************************************************************)
\* No writer moves.
WritersSame == UNCHANGED <<wpos, blk, data, pc, wc, op>>

\* They keep everything, if the reader's front stays before the blocks being
\* filled, and its number is that of the block in hand only.
LEMMA ReaderMoves ==
  ASSUME Steady, WritersSame, UNCHANGED <<rpos, head>>,
         \A w \in Writers : Filling(w) =>
           Front' <= wc[w] /\ SeenWhole(wc[w], Need(op[w].m))',
         \A p \in Used : IsPublished(p) => SeenWhole(p, Need(MsgAt(p)))',
         rpc' = "reset" =>
           /\ \A p \in Used : IsPublished(p) /\ p # rb' => SeqOf(p) # rv'.seq
           /\ \A w \in Writers : Loading(w) \/ Filling(w) => rv'.seq # op[w].seq,
         ReaderInv'
  PROVE  Blocks'
<1> USE DEF WritersSame
<1>1. Used' = Used
  BY DEF Used
<1>2. \A s, p, n : Only(s, p, n)' = Only(s, p, n)
  BY Zenon DEF Only, Used, SeqOf
<1>3. \A p, m : Whole(p, m)' = Whole(p, m)
  BY Zenon DEF Whole
<1>4. /\ \A p : IsPublished(p)' = IsPublished(p)
      /\ \A p : MsgAt(p)' = MsgAt(p) /\ SeqOf(p)' = SeqOf(p)
      /\ \A p, n, s : Rest(p, n, s)' = Rest(p, n, s)
  BY Zenon DEF IsPublished, Published, MsgAt, SeqOf, Rest
<1>5. PublishedInv'
  <2> SUFFICES ASSUME NEW p \in Used, IsPublished(p) PROVE PublishedBlock(p, MsgAt(p))'
    BY <1>1, <1>4 DEF PublishedInv
  <2>1. PICK m, s : m = MsgAt(p) /\ s = SeqOf(p)
    OBVIOUS
  <2>2. PublishedBlock(p, m)
    BY <2>1, AtPublished
  <2>3. MsgAt(p)' = m /\ SeqOf(p)' = s
    BY <1>4, <2>1
  <2>4. Whole(p, m)' /\ Rest(p, Need(m), s)' /\ Only(s, p, Need(m))' /\ s # 0
    BY <1>2, <1>3, <1>4, <2>1, <2>2 DEF PublishedBlock
  <2>5. SeenWhole(p, Need(m))' /\ (rpc' = "reset" /\ p # rb' => s # rv'.seq)
    BY <2>1, <2>3 DEF SeenWhole
  <2> QED BY <2>3, <2>4, <2>5 DEF PublishedBlock
<1>6. FillingInv'
  <2>1. \A w \in Writers : Filling(w)' = Filling(w) /\ Reserved(w)' = Reserved(w)
                           /\ First(w)' = First(w)
    BY DEF Filling, Reserved, First
  <2>2. \A w, q : OwnHead(w, q)' = OwnHead(w, q)
    BY Zenon DEF OwnHead, Clean
  <2>3. ASSUME NEW w \in Writers, Filling(w) PROVE Own(w)'
    <3>1. Own(w)
      BY <2>3, AtBlock
    <3>2. Front' <= wc'[w] /\ SeenWhole(wc[w], Need(op[w].m))'
      BY <2>3
    <3> QED BY <1>2, <1>3, <2>1, <2>2, <3>1, <3>2 DEF Own
  <2> QED BY <2>1, <2>3 DEF FillingInv, Apart, Steady, Blocks
<1>7. NumbersInv'
  <2>1. NumbersInv
    BY DEF Steady, Blocks
  <2>2. \A w \in Writers : Filling(w)' = Filling(w) /\ Loading(w)' = Loading(w)
                           /\ Numbered(w)' = Numbered(w)
    BY DEF Filling, Loading, Numbered
  <2> QED BY <1>1, <2>1, <2>2 DEF NumbersInv, SeqOf
<1>8. FreeInv'
  BY DEF FreeInv, Clean, Steady, Blocks
<1> QED BY <1>5, <1>6, <1>7, <1>8 DEF Blocks

\* Nothing is filled at a node the reader passes without meeting its writer.
LEMMA NotFilledAt ==
  ASSUME Steady, rpc = "scan", NEW P, OwnersAt(rb, P) = {},
         NEW w \in Writers, Filling(w), pc[w] \in P
  PROVE  rb + 1 <= wc[w]
<1>1. wc[w] # rb
  BY DEF OwnersAt
<1>2. rb <= wc[w] /\ wc[w] \in Nat /\ rb \in Nat
  BY AtBlock, AtFront, Cursors DEF Steady
<1> QED BY <1>1, <1>2

\* Indexes tell the positions of the reader apart.
LEMMA ReaderIdx ==
  ASSUME Steady, NEW p \in Nat, NEW q \in Nat, rpos <= p, p <= wpos, rpos <= q, q <= wpos
  PROVE  (Idx(p) = Idx(q)) = (p = q)
<1>1. p \in rpos .. rpos + NodeCount - 1 /\ q \in rpos .. rpos + NodeCount - 1
  BY Cursors DEF Steady
<1> QED BY <1>1, OwnNode DEF Steady

\* A call of mem_recv begins at the read cursor and sees whole blocks only.
LEMMA BlocksRecv ==
  ASSUME Steady, Recv
  PROVE  Blocks'
<1>1. /\ WritersSame /\ UNCHANGED <<rpos, head>>
      /\ rpc = "idle" /\ rpc' = "scan" /\ rb' = rpos /\ re' = rpos /\ rw' = wpos
      /\ rv'.ret = "OK"
  BY DEF Recv, RGoto, IdleRv, WritersSame, shared, writerV
<1>2. Front = rpos /\ Front' = rpos
  BY <1>1, AtFront DEF Front
<1>3. \A w \in Writers : Filling(w) => Front' <= wc[w] /\ SeenWhole(wc[w], Need(op[w].m))'
  BY <1>1, <1>2, AtBlock DEF SeenWhole, WritersSame
<1>4. \A p \in Used : IsPublished(p) => SeenWhole(p, Need(MsgAt(p)))'
  <2> SUFFICES ASSUME NEW p \in Used, IsPublished(p) PROVE SeenWhole(p, Need(MsgAt(p)))'
    OBVIOUS
  <2>1. MsgAt(p)' = MsgAt(p) /\ p + Need(MsgAt(p)) <= wpos
    BY <1>1, AtPublished DEF MsgAt, WritersSame
  <2> QED BY <1>1, <2>1 DEF SeenWhole
<1>5. ReaderInv'
  <2>1. \A p \in rpos .. rpos - 1 : FALSE
    BY Cursors DEF Steady
  <2> QED BY <1>1, <2>1 DEF ReaderInv, ScanInv
<1> QED BY <1>1, <1>3, <1>4, <1>5, ReaderMoves

\* The scan is left where it is.
LEMMA BlocksLeaveScan ==
  ASSUME Steady, WritersSame, UNCHANGED <<rpos, head, rb>>,
         rpc = "scan", NEW code \in {"NO_DATA", "BUFF_LIMIT"}, LeaveScan(code)
  PROVE  Blocks'
<1>1. /\ rpc' = "clean" /\ re' = rb /\ rv' = [rv EXCEPT !.ret = code, !.i = rpos]
      /\ ScanInv /\ Front = rb /\ rpos <= rb /\ rpos \in Nat /\ rb \in Nat
  BY AtFront, Cursors DEF LeaveScan, RGoto, OrElse, Steady, Blocks, ReaderInv, ScanInv
<1>2. rv'.ret = code /\ rv'.i = rpos
  BY <1>1 DEF Steady, TypeOK, ReaderOK, RvType
<1>3. Front' = rb
  BY <1>1 DEF Front
<1>4. \A w \in Writers : Filling(w) => Front' <= wc[w] /\ SeenWhole(wc[w], Need(op[w].m))'
  BY <1>1, <1>3, AtBlock DEF SeenWhole
<1>5. \A p \in Used : IsPublished(p) => SeenWhole(p, Need(MsgAt(p)))'
  BY <1>1 DEF SeenWhole
<1>6. ReaderInv'
  <2>1. (\A p \in rpos .. rb - 1 : ~IsPublished(p))'
    BY <1>1 DEF ScanInv, IsPublished, Published
  <2>2. (\A p \in rpos .. rv.i - 1 : Clean(p))' /\ (\A p \in rb .. re - 1 : Clean(p))'
    BY <1>1, <1>2
  <2>3. rpos' <= rv'.i /\ rv'.i <= rb' /\ rb' <= re' /\ re' = rb'
    BY <1>1, <1>2
  <2> QED BY <1>1, <1>2, <2>1, <2>2, <2>3 DEF ReaderInv, CleanInv
<1> QED BY <1>1, <1>4, <1>5, <1>6, ReaderMoves

\* One node is stepped over that holds no published block.
LEMMA BlocksNextNode ==
  ASSUME Steady, WritersSame, UNCHANGED <<rpos, head, rw, rv>>,
         rpc = "scan", NextNode, ~IsPublished(rb),
         \A w \in Writers : Filling(w) => rb + 1 <= wc[w]
  PROVE  Blocks'
<1>1. /\ rpc' = "scan" /\ rb' = rb + 1 /\ re' = rb + 1
      /\ ScanInv /\ rpos \in Nat /\ rb \in Nat /\ rpos <= rb
  BY Cursors DEF NextNode, RGoto, Steady, Blocks, ReaderInv
<1>2. Front' = rb + 1
  BY <1>1 DEF Front
<1>3. \A w \in Writers : Filling(w) => Front' <= wc[w] /\ SeenWhole(wc[w], Need(op[w].m))'
  BY <1>1, <1>2, AtBlock DEF SeenWhole, Own, WritersSame
<1>4. \A p \in Used : IsPublished(p) => SeenWhole(p, Need(MsgAt(p)))'
  BY <1>1, AtPublished DEF SeenWhole, PublishedBlock, MsgAt, WritersSame
<1>5. ReaderInv'
  <2>1. (\A p \in rpos .. rb - 1 : ~IsPublished(p))'
    BY <1>1 DEF ScanInv, IsPublished, Published
  <2> QED BY <1>1, <2>1 DEF ReaderInv, ScanInv
<1> QED BY <1>1, <1>3, <1>4, <1>5, ReaderMoves

\* The scan ends at the write cursor, or at a block still being written.
LEMMA BlocksScanEnd ==
  ASSUME Steady, ScanEnd \/ ScanWait
  PROVE  Blocks'
<1>1. /\ WritersSame /\ UNCHANGED <<rpos, head, rb>> /\ rpc = "scan" /\ LeaveScan("NO_DATA")
  BY DEF ScanEnd, ScanWait, AtUnwritten, ReaderOnly, writerV, WritersSame
<1> QED BY <1>1, BlocksLeaveScan

\* A node that is no start of a block: a writer that reserved it and has not
\* marked it is the window `early`.
LEMMA BlocksScanSkip ==
  ASSUME Steady, ScanSkip, Calm'
  PROVE  Blocks'
<1>1. /\ WritersSame /\ UNCHANGED <<rpos, head, rw, rv>> /\ rpc = "scan" /\ NextNode
      /\ ~head[Idx(rb)].start
  BY DEF ScanSkip, ReaderOnly, writerV, WritersSame
<1>2. OwnersAt(rb, {"mark"}) = {}
  <2>1. hz' = IF OwnersAt(rb, {"mark"}) # {} THEN hz \cup {"early"} ELSE hz
    BY DEF ScanSkip
  <2> QED BY <2>1 DEF Calm, Without
<1>3. ASSUME NEW w \in Writers, Filling(w) PROVE rb + 1 <= wc[w]
  <2>1. CASE pc[w] = "mark"
    BY <1>1, <1>2, <1>3, <2>1, NotFilledAt
  <2>2. CASE pc[w] # "mark"
    <3>1. op[w].i > 0
      BY <1>3, <2>2, AtBlock, Working DEF Filling, Writing, Steady
    <3>2. /\ wc[w] \in Nat /\ op[w].i \in Nat /\ rb \in Nat /\ rb <= wc[w]
          /\ wc[w] \in Reserved(w) /\ OwnHead(w, wc[w])
      BY <1>1, <1>3, AtBlock, OwnInRing, AtFront, Cursors DEF Steady
    <3>3. head[Idx(wc[w])] = FirstHead(op[w].seq)
      BY <3>1, <3>2 DEF OwnHead
    <3> QED BY <1>1, <3>2, <3>3 DEF FirstHead
  <2> QED BY <2>1, <2>2
<1>4. ~IsPublished(rb)
  BY <1>1 DEF IsPublished, Published
<1> QED BY <1>1, <1>3, <1>4, BlocksNextNode

\* An unpublished block that is given up: its writer being alive is the window
\* `timeout`.
LEMMA BlocksScanTimeout ==
  ASSUME Steady, ScanTimeout, Calm'
  PROVE  Blocks'
<1>1. /\ WritersSame /\ UNCHANGED <<rpos, head, rw, rv>> /\ rpc = "scan" /\ NextNode
      /\ ~head[Idx(rb)].writen
  BY DEF ScanTimeout, AtUnwritten, ReaderOnly, writerV, WritersSame
<1>2. OwnersAt(rb, Writing) = {}
  <2>1. hz' = IF OwnersAt(rb, Writing) # {} THEN hz \cup {"timeout"} ELSE hz
    BY DEF ScanTimeout
  <2> QED BY <2>1 DEF Calm, Without
<1>3. ASSUME NEW w \in Writers, Filling(w) PROVE rb + 1 <= wc[w]
  <2>1. pc[w] \in Writing
    BY <1>3 DEF Filling
  <2> QED BY <1>1, <1>2, <1>3, <2>1, NotFilledAt
<1>4. ~IsPublished(rb)
  BY <1>1 DEF IsPublished, Published
<1> QED BY <1>1, <1>3, <1>4, BlocksNextNode

\* A reader that dies starts again at the read cursor.
LEMMA BlocksReaderCrash ==
  ASSUME Steady, ReaderCrash
  PROVE  Blocks'
<1>1. /\ WritersSame /\ UNCHANGED <<rpos, head>> /\ rpc' = "idle"
  BY DEF ReaderCrash, RGoto, writerV, WritersSame
<1>2. Front' = rpos /\ rpos <= Front /\ rpos \in Nat /\ Front \in Nat
  BY <1>1, AtFront, Cursors DEF Front, Steady
<1>3. \A w \in Writers : Filling(w) => Front' <= wc[w] /\ SeenWhole(wc[w], Need(op[w].m))'
  BY <1>1, <1>2, AtBlock DEF SeenWhole
<1>4. \A p \in Used : IsPublished(p) => SeenWhole(p, Need(MsgAt(p)))'
  BY <1>1 DEF SeenWhole
<1>5. ReaderInv'
  BY <1>1 DEF ReaderInv, ReaderCrash, IdleRv
<1> QED BY <1>1, <1>3, <1>4, <1>5, ReaderMoves

\* Nothing happens to the ring, to the writers or to the reader's places.
LEMMA BlocksSame ==
  ASSUME Steady, RingSame, WritersSame
  PROVE  Blocks'
<1>1. PublishedInv' /\ FreeInv' /\ ReaderInv' /\ Used' = Used
  BY RingSameParts
<1>2. NumbersInv'
  BY <1>1 DEF NumbersInv, Loading, Filling, Numbered, SeqOf, RingSame, WritersSame, Steady, Blocks
<1>3. FillingInv'
  <2>1. \A w \in Writers : Filling(w)' = Filling(w) /\ Reserved(w)' = Reserved(w)
                           /\ First(w)' = First(w)
    BY DEF Filling, Reserved, First, WritersSame
  <2>2. \A w, q : OwnHead(w, q)' = OwnHead(w, q)
    BY Zenon DEF OwnHead, Clean, RingSame, WritersSame
  <2>3. ASSUME NEW w \in Writers, Filling(w) PROVE Own(w)'
    <3>1. Own(w)
      BY <2>3, AtBlock
    <3>2. Only(op[w].seq, wc[w], op[w].i)' /\ SeenWhole(wc[w], Need(op[w].m))'
      BY <3>1 DEF Own, Only, SeenWhole, Used, SeqOf, RingSame, WritersSame
    <3>3. Whole(wc[w], op[w].m)' = Whole(wc[w], op[w].m)
      BY Zenon DEF Whole, RingSame, WritersSame
    <3> QED BY <2>1, <2>2, <3>1, <3>2, <3>3, RingSameParts DEF Own, WritersSame
  <2> QED BY <2>1, <2>3 DEF FillingInv, Apart, Steady, Blocks, WritersSame
<1> QED BY <1>1, <1>2, <1>3 DEF Blocks

\* The clock is no part of the blocks.
LEMMA BlocksTick ==
  ASSUME Steady, Tick
  PROVE  Blocks'
<1>1. RingSame /\ WritersSame
  BY DEF Tick, RingSame, WritersSame, writerV, readerV
<1> QED BY <1>1, BlocksSame

\* A published block is whole, so its length is good, and it fits or does not.
LEMMA BlocksScanBlock ==
  ASSUME Steady, ScanBlock
  PROVE  /\ Blocks' /\ rb \in Used /\ IsPublished(rb) /\ rb' = rb /\ re' = rb
         /\ \/ rpc' = "clean"
            \/ rpc' = "reset" /\ Front' = rb + Need(MsgAt(rb))
<1>1. /\ WritersSame /\ UNCHANGED <<rpos, head, rw>> /\ rpc = "scan" /\ IsPublished(rb)
      /\ Idx(rb) # Idx(rw)
  BY DEF ScanBlock, ReaderOnly, writerV, WritersSame, IsPublished
<1>2. /\ rpos \in Nat /\ rb \in Nat /\ rw \in Nat /\ wpos \in Nat
      /\ rpos <= rb /\ rb < rw /\ rw <= wpos /\ ScanInv
  <2>1. /\ rpos \in Nat /\ rb \in Nat /\ rw \in Nat /\ wpos \in Nat
        /\ rpos <= rb /\ rb <= rw /\ rw <= wpos /\ ScanInv
    BY <1>1, Cursors DEF Steady, Blocks, ReaderInv
  <2>2. rb # rw
    BY <1>1
  <2> QED BY <2>1, <2>2
<1>3. rb \in Used
  BY <1>2 DEF Used
<1>4. PICK m, n, s : m = MsgAt(rb) /\ n = Need(m) /\ s = SeqOf(rb)
  OBVIOUS
<1>5. /\ PublishedBlock(rb, m) /\ m \in Message /\ n \in Nat /\ n > 0 /\ rb + n <= wpos
      /\ Whole(rb, m) /\ s # 0 /\ Rest(rb, n, s) /\ Only(s, rb, n) /\ rb + n <= rw
  BY <1>1, <1>2, <1>3, <1>4, AtPublished DEF PublishedBlock, SeenWhole
<1>6. /\ blk[Idx(rb)] = [size |-> n, check |-> m] /\ SizeAt(Idx(rb)) = {n}
      /\ n <= NodeCount - Protect
  <2>1. blk[Idx(rb)] = [size |-> n, check |-> m]
    BY <1>4, <1>5 DEF Whole
  <2>2. n <= NodeCount - Protect
    <3>1. wpos = rpos \/ wpos - rpos <= NodeCount - 1 - Protect
      BY DEF Steady, RoomInv, CursorSafe, Calm, Without
    <3> QED BY <1>2, <1>5, <3>1, NodeCountAssumption, ProtectAssumption
  <2>3. n # Junk
    BY <1>5, <2>2, NodeCountAssumption, ProtectAssumption DEF Junk
  <2> QED BY <2>1, <2>2, <2>3 DEF SizeAt
<1>7. \/ LeaveScan("BUFF_LIMIT") /\ rb' = rb
      \/ /\ rpc' = "reset" /\ re' = rb /\ rb' = rb
         /\ rv' = [rv EXCEPT !.seq = head[Idx(rb)].seq]
  <2>1. PICK z \in SizeAt(Idx(rb)) :
          \/ z = 0 \/ z > NodeCount - Protect
          \/ LeaveScan("BUFF_LIMIT") /\ rb' = rb
          \/ /\ RGoto("reset") /\ re' = rb
             /\ rv' = [rv EXCEPT !.seq = head[Idx(rb)].seq]
             /\ rb' = rb
    BY Zenon DEF ScanBlock
  <2>2. z = n
    BY <1>6
  <2>3. ~(z = 0 \/ z > NodeCount - Protect)
    BY <1>5, <1>6, <2>2, NodeCountAssumption, ProtectAssumption
  <2> QED BY <2>1, <2>3 DEF RGoto
<1>8. ASSUME LeaveScan("BUFF_LIMIT"), rb' = rb PROVE Blocks'
  BY <1>1, <1>8, BlocksLeaveScan
<1>9. ASSUME rpc' = "reset", re' = rb, rb' = rb,
             rv' = [rv EXCEPT !.seq = head[Idx(rb)].seq]
      PROVE  Blocks'
  <2>1. rv'.seq = s /\ rv'.ret = "OK"
    BY <1>2, <1>4, <1>9 DEF SeqOf, ScanInv, Steady, TypeOK, ReaderOK, RvType
  <2>2. InHandSize' = n /\ Front' = rb + n /\ Front = rb
    BY <1>1, <1>6, <1>9, AtFront DEF InHandSize, Front, WritersSame
  <2>3. ASSUME NEW w \in Writers, Filling(w) PROVE rb + n <= wc[w] /\ op[w].seq # s
    <3>1. rb + n <= wc[w] \/ wc[w] + Need(op[w].m) <= rb
      BY <1>1, <1>3, <1>4, <2>3, PublishedApart
    <3>2. rb <= wc[w] /\ wc[w] \in Nat /\ Need(op[w].m) \in Nat /\ Need(op[w].m) > 0
      BY <2>2, <2>3, AtBlock
    <3>3. op[w].seq # s
      BY <1>1, <1>3, <1>4, <2>3, PublishedApart
    <3> QED BY <1>2, <1>5, <3>1, <3>2, <3>3
  <2>4. \A w \in Writers : Filling(w) => Front' <= wc[w] /\ SeenWhole(wc[w], Need(op[w].m))'
    BY <1>1, <1>9, <2>2, <2>3, AtBlock DEF SeenWhole, Own, WritersSame
  <2>5. \A p \in Used : IsPublished(p) => SeenWhole(p, Need(MsgAt(p)))'
    BY <1>1, <1>9, AtPublished DEF SeenWhole, PublishedBlock, MsgAt, WritersSame
  <2>6. \A p \in Used : IsPublished(p) /\ p # rb' => SeqOf(p) # rv'.seq
    BY <1>1, <1>3, <1>4, <1>9, <2>1, PublishedBlocksApart
  <2>7. \A w \in Writers : Loading(w) \/ Filling(w) => rv'.seq # op[w].seq
    BY <1>3, <1>4, <2>1, <2>3 DEF Steady, Blocks, NumbersInv
  <2>8. ResetInv'
    <3>1. Whole(rb, m)' /\ MsgAt(rb)' = m
      BY <1>1, <1>4, <1>5, <1>9 DEF Whole, MsgAt, WritersSame
    <3>2. (\A p \in rpos .. rb - 1 : ~IsPublished(p))'
      BY <1>1, <1>2, <1>9 DEF ScanInv, IsPublished, Published
    <3>3. \A p \in rb + 1 .. rb + n - 1 : ~head'[Idx(p)].start /\ SeqOf(p)' = s
      BY <1>1, <1>5 DEF Rest, NextHead, SeqOf
    <3>4. (\A p \in re .. rb + InHandSize - 1 : SeqOf(p) = rv.seq)'
      <4> SUFFICES ASSUME NEW p \in rb .. rb + n - 1 PROVE SeqOf(p)' = s
        BY <1>9, <2>1, <2>2
      <4>1. p = rb \/ p \in rb + 1 .. rb + n - 1
        BY <1>2, <1>5
      <4> QED BY <1>1, <1>4, <3>3, <4>1 DEF SeqOf
    <3>5. Only(rv.seq, rb, InHandSize)'
      BY <1>1, <1>5, <1>9, <2>1, <2>2 DEF Only, Used, SeqOf, WritersSame
    <3>6. (\A p \in rb .. re - 1 : Clean(p))' /\ re' <= rb' + InHandSize'
          /\ rb' + InHandSize' <= rw'
      BY <1>1, <1>2, <1>5, <1>9, <2>2
    <3> QED BY <1>5, <1>9, <2>1, <2>2, <3>1, <3>2, <3>3, <3>4, <3>5, <3>6 DEF ResetInv, Whole
  <2>9. ReaderInv'
    BY <1>9, <2>8 DEF ReaderInv
  <2> QED BY <1>1, <1>9, <2>4, <2>5, <2>6, <2>7, <2>9, ReaderMoves
<1>10. Blocks'
  BY <1>7, <1>8, <1>9
<1>11. re' = rb /\ rb' = rb /\ rpc' \in {"clean", "reset"}
  BY <1>7 DEF LeaveScan, RGoto
<1>12. rpc' = "reset" => Front' = rb + Need(MsgAt(rb))
  <2>1. InHandSize' = n
    BY <1>1, <1>6, <1>11 DEF InHandSize, WritersSame
  <2> QED BY <1>4, <1>11, <2>1 DEF Front
<1> QED BY <1>1, <1>3, <1>10, <1>11, <1>12

\* The block in hand has been freed to its end: the count agrees, and so does the
\* checksum.
LEMMA TakesWhole ==
  ASSUME Steady, TakeBlock
  PROVE  /\ WritersSame /\ UNCHANGED <<rpos, head, rb, re, rw>> /\ rpc' = "clean"
         /\ rv' = [rv EXCEPT !.i = rpos, !.m = MsgAt(rb), !.ret = "OK"]
         /\ rpc = "reset" /\ ResetInv /\ re = rb + InHandSize /\ re # rb
<1>1. /\ rpc = "reset" /\ (Idx(re) = Idx(rw) \/ head[Idx(re)].seq # rv.seq)
      /\ WritersSame /\ UNCHANGED <<rpos, head, rw>>
  BY DEF TakeBlock, ReaderOnly, writerV, WritersSame
<1>2. /\ ResetInv /\ InHandSize \in Nat /\ InHandSize > 0
      /\ rpos \in Nat /\ rb \in Nat /\ re \in Nat /\ rw \in Nat /\ wpos \in Nat
      /\ rpos <= rb /\ rb <= re /\ re <= rb + InHandSize /\ rb + InHandSize <= rw
      /\ rw <= wpos
  BY <1>1, AtFront, Cursors DEF Steady, Blocks, ReaderInv, ResetInv
<1>3. re = rb + InHandSize
  <2> SUFFICES ASSUME re < rb + InHandSize PROVE FALSE
    BY <1>2
  <2>1. re \in re .. rb + InHandSize - 1 /\ re < rw
    BY <1>2
  <2>2. SeqOf(re) = rv.seq
    BY <1>2, <2>1 DEF ResetInv
  <2>3. Idx(re) # Idx(rw)
    BY <1>2, <2>1, ReaderIdx
  <2> QED BY <1>1, <2>2, <2>3 DEF SeqOf
<1>4. PICK m, n : m = MsgAt(rb) /\ n = Need(m)
  OBVIOUS
<1>5. /\ m \in Message /\ n \in Nat /\ n > 0 /\ blk[Idx(rb)] = [size |-> n, check |-> m]
      /\ \A q \in rb .. rb + n - 1 : data[Idx(q)] = m
      /\ InHandSize = n
  <2>1. Whole(rb, m)
    BY <1>2, <1>4 DEF ResetInv
  <2> QED BY <1>4, <2>1, NeedInNat DEF Whole, InHandSize
<1>6. n < NodeCount /\ n # Junk /\ SizeAt(Idx(rb)) = {n}
  <2>1. n < NodeCount
    BY <1>2, <1>5, Cursors DEF Steady
  <2>2. n # Junk
    BY <1>5, <2>1, NodeCountAssumption DEF Junk
  <2> QED BY <1>5, <2>1, <2>2 DEF SizeAt
<1>7. (Idx(re) + NodeCount - Idx(rb)) % NodeCount = n
  <2>1. rb <= re /\ re - rb < NodeCount /\ re - rb = n
    BY <1>2, <1>3, <1>5, <1>6, NodeCountAssumption
  <2> QED BY <1>2, <2>1, NodesBetween
<1>8. rv.ret = "OK"
  BY <1>2 DEF ResetInv
<1>9. Intact(rb, n)
  <2>1. m # NoMsg
    BY <1>5, MessageParts
  <2>2. \A i \in 0 .. n - 1 : data[Idx(rb + i)] = m
    <3> SUFFICES ASSUME NEW i \in 0 .. n - 1 PROVE data[Idx(rb + i)] = m
      OBVIOUS
    <3>1. rb + i \in rb .. rb + n - 1
      BY <1>2, <1>5
    <3> QED BY <1>5, <3>1
  <2> QED BY <1>4, <1>5, <2>1, <2>2 DEF Intact
<1>10. /\ rpc' = "clean" /\ UNCHANGED <<rb, re>>
       /\ rv' = [rv EXCEPT !.i = rpos, !.m = blk[Idx(rb)].check, !.ret = "OK"]
  <2>1. PICK s \in SizeAt(Idx(rb)) :
          LET k == (Idx(re) + NodeCount - Idx(rb)) % NodeCount
          IN  \/ s # k
              \/ s = k /\ rv.ret # "OK"
              \/ /\ s = k /\ RGoto("clean")
                 /\ rv' = [rv EXCEPT !.i = rpos, !.m = blk[Idx(rb)].check,
                                     !.ret = IF Intact(rb, k) THEN "OK" ELSE "BAD_DATA"]
                 /\ UNCHANGED <<rb, re>>
    BY Zenon DEF TakeBlock
  <2>2. s = n
    BY <1>6
  <2> QED BY <1>7, <1>8, <1>9, <2>1, <2>2 DEF RGoto
<1>11. re # rb
  BY <1>2, <1>3, <1>5
<1> QED BY <1>1, <1>2, <1>3, <1>10, <1>11 DEF MsgAt

\* The block in hand leaves it whole, with the read cursor to be stored.
LEMMA BlocksTakeBlock ==
  ASSUME Steady, TakeBlock
  PROVE  Blocks'
<1>1. /\ WritersSame /\ UNCHANGED <<rpos, head, rb, re, rw>> /\ rpc' = "clean" /\ rpc = "reset"
      /\ rv' = [rv EXCEPT !.i = rpos, !.m = MsgAt(rb), !.ret = "OK"]
      /\ ResetInv /\ re = rb + InHandSize /\ re # rb
  BY TakesWhole
<1>2. rv'.i = rpos /\ rv'.ret = "OK"
  BY <1>1 DEF Steady, TypeOK, ReaderOK, RvType
<1>3. Front' = re /\ Front = re
  BY <1>1, AtFront DEF Front
<1>4. \A w \in Writers : Filling(w) => Front' <= wc[w] /\ SeenWhole(wc[w], Need(op[w].m))'
  BY <1>1, <1>3, AtBlock DEF SeenWhole
<1>5. \A p \in Used : IsPublished(p) => SeenWhole(p, Need(MsgAt(p)))'
  BY <1>1 DEF SeenWhole
<1>6. CleanInv'
  <2>1. rpos \in Nat /\ rb \in Nat /\ re \in Nat /\ rpos <= rb /\ rb <= re
    BY <1>1, Cursors DEF Steady
  <2>2. (\A p \in rpos .. rb - 1 : ~IsPublished(p))' /\ (\A p \in rb .. re - 1 : Clean(p))'
    BY <1>1 DEF ResetInv, IsPublished, Published, Clean
  <2>3. (\A p \in rpos .. rv.i - 1 : Clean(p))'
    BY <1>1, <1>2, <2>1
  <2> QED BY <1>1, <1>2, <2>1, <2>2, <2>3 DEF CleanInv
<1>7. ReaderInv'
  BY <1>1, <1>6 DEF ReaderInv
<1> QED BY <1>1, <1>4, <1>5, <1>7, ReaderMoves

(***************************************************************************)
(* The steps of the reader that give nodes back.                           *)
(***************************************************************************)
\* A node behind the reader's front loses its head, which is part of no block
\* that stays.
LEMMA ReaderFrees ==
  ASSUME Steady, WritersSame, UNCHANGED <<rpos, rpc, rb, rw>>, rv'.seq = rv.seq,
         NEW t \in Used, t < Front, head' = [head EXCEPT ![Idx(t)] = CleanHead],
         Front' = Front,
         \A p \in Used : IsPublished(p) /\ p # t => t < p \/ p + Need(MsgAt(p)) <= t,
         ReaderInv'
  PROVE  Blocks'
<1> USE DEF WritersSame
<1>1. /\ rpos \in Nat /\ wpos \in Nat /\ NodeCount \in Nat /\ wpos <= rpos + NodeCount - 1
      /\ rpos <= t /\ t < wpos /\ t \in Nat
      /\ t \in rpos .. rpos + NodeCount - 1 /\ Front \in Nat
  BY Cursors, AtFront DEF Used, Steady
<1>2. \A p \in rpos .. rpos + NodeCount - 1 :
        head'[Idx(p)] = IF p = t THEN CleanHead ELSE head[Idx(p)]
  <2>1. TypeOK
    BY DEF Steady
  <2>2. t \in rpos .. rpos + NodeCount - 1
    BY <1>1
  <2> QED BY <2>1, <2>2, OneHead
<1>3. Used' = Used /\ \A p \in Used : p \in Nat /\ p \in rpos .. rpos + NodeCount - 1
  BY <1>1 DEF Used
<1>4. ASSUME NEW s, s # 0, NEW p, NEW n, Only(s, p, n) PROVE Only(s, p, n)'
  <2> SUFFICES ASSUME NEW q \in Used, SeqOf(q)' = s PROVE p <= q /\ q < p + n
    BY <1>3, Zenon DEF Only
  <2>1. SeqOf(q) = s
    BY <1>2, <1>3, <1>4 DEF SeqOf, CleanHead
  <2> QED BY <1>4, <2>1 DEF Only
<1>5. /\ \A p, m : Whole(p, m)' = Whole(p, m)
      /\ \A p, n : SeenWhole(p, n)' = SeenWhole(p, n)
      /\ \A p : MsgAt(p)' = MsgAt(p)
  BY Zenon DEF Whole, SeenWhole, MsgAt
<1>6. PublishedInv'
  <2> SUFFICES ASSUME NEW p \in Used, IsPublished(p)' PROVE PublishedBlock(p, MsgAt(p))'
    BY <1>3 DEF PublishedInv
  <2>1. p # t /\ IsPublished(p)
    BY <1>2, <1>3 DEF IsPublished, Published, CleanHead
  <2>2. PICK m, s : m = MsgAt(p) /\ s = SeqOf(p)
    OBVIOUS
  <2>3. /\ PublishedBlock(p, m) /\ p \in Nat /\ Need(m) \in Nat /\ p + Need(m) <= wpos
        /\ (t < p \/ p + Need(m) <= t)
    BY <2>1, <2>2, AtPublished
  <2>4. MsgAt(p)' = m /\ SeqOf(p)' = s /\ s # 0
    BY <1>2, <1>3, <1>5, <2>1, <2>2, <2>3 DEF SeqOf, PublishedBlock
  <2>5. Whole(p, m)' /\ SeenWhole(p, Need(m))' /\ Only(s, p, Need(m))'
    BY <1>4, <1>5, <2>2, <2>3, <2>4 DEF PublishedBlock
  <2>6. Rest(p, Need(m), s)'
    <3> SUFFICES ASSUME NEW q \in p + 1 .. p + Need(m) - 1 PROVE head'[Idx(q)] = NextHead(s)
      BY DEF Rest
    <3>1. q \in rpos .. rpos + NodeCount - 1 /\ q # t
      BY <1>1, <2>3 DEF Used
    <3> QED BY <1>2, <2>2, <2>3, <3>1 DEF PublishedBlock, Rest
  <2>7. rpc' = "reset" /\ p # rb' => s # rv'.seq
    BY <2>2, <2>3 DEF PublishedBlock
  <2> QED BY <2>4, <2>5, <2>6, <2>7 DEF PublishedBlock
<1>7. NumbersInv'
  <2>1. NumbersInv
    BY DEF Steady, Blocks
  <2>2. \A w \in Writers : Filling(w)' = Filling(w) /\ Loading(w)' = Loading(w)
                           /\ Numbered(w)' = Numbered(w)
    BY DEF Filling, Loading, Numbered
  <2>3. ASSUME NEW w \in Writers, Loading(w), NEW p \in Used PROVE SeqOf(p)' # op[w].seq
    BY <1>2, <1>3, <2>1, <2>3 DEF NumbersInv, SeqOf, CleanHead
  <2> QED BY <1>3, <2>1, <2>2, <2>3 DEF NumbersInv
<1>8. FillingInv'
  <2>1. \A w \in Writers : Filling(w)' = Filling(w) /\ Reserved(w)' = Reserved(w)
                           /\ First(w)' = First(w)
    BY DEF Filling, Reserved, First
  <2>2. ASSUME NEW w \in Writers, Filling(w) PROVE Own(w)'
    <3>1. Own(w) /\ wc[w] \in Nat
      BY <2>2, AtBlock
    <3>2. \A q \in Reserved(w) : OwnHead(w, q)'
      <4> SUFFICES ASSUME NEW q \in Reserved(w) PROVE OwnHead(w, q)'
        OBVIOUS
      <4>1. OwnHead(w, q) /\ q \in rpos .. rpos + NodeCount - 1 /\ wc[w] <= q /\ q \in Nat
        BY <2>2, <3>1, OwnInRing DEF Own, Reserved
      <4>2. q # t
        BY <1>1, <3>1, <4>1 DEF Own
      <4>3. head'[Idx(q)] = head[Idx(q)]
        BY <1>2, <4>1, <4>2
      <4> QED BY <4>1, <4>3 DEF OwnHead, Clean
    <3>3. Only(op[w].seq, wc[w], op[w].i)'
      <4>1. op[w].seq # 0 /\ Only(op[w].seq, wc[w], op[w].i)
        BY <2>2, <3>1 DEF Steady, Blocks, NumbersInv, Own
      <4>2. PICK s, p, n : s = op[w].seq /\ p = wc[w] /\ n = op[w].i
        OBVIOUS
      <4>3. Only(s, p, n)'
        BY <1>4, <4>1, <4>2
      <4> QED BY <4>2, <4>3 DEF Only
    <3>4. SeenWhole(wc[w], Need(op[w].m))' = SeenWhole(wc[w], Need(op[w].m))
          /\ Whole(wc[w], op[w].m)' = Whole(wc[w], op[w].m)
      BY Zenon DEF SeenWhole, Whole
    <3> QED BY <2>1, <3>1, <3>2, <3>3, <3>4 DEF Own
  <2> QED BY <2>1, <2>2 DEF FillingInv, Apart, Steady, Blocks
<1>9. FreeInv'
  <2> SUFFICES ASSUME NEW p \in wpos .. rpos + NodeCount - 1 PROVE Clean(p)'
    BY DEF FreeInv
  <2>1. p \in rpos .. rpos + NodeCount - 1 /\ Clean(p)
    BY <1>1 DEF FreeInv, Steady, Blocks
  <2> QED BY <1>2, <2>1 DEF Clean
<1> QED BY <1>6, <1>7, <1>8, <1>9 DEF Blocks

\* The block in hand loses the head of its next node.
LEMMA BlocksResetNode ==
  ASSUME Steady, ResetNode
  PROVE  /\ Blocks' /\ Front' = Front
         /\ rb <= re /\ re < Front /\ re \in Used /\ MsgAt(rb)' = MsgAt(rb)
         /\ \A p \in Used : IsPublished(p) /\ rb < p /\ p < Front => FALSE
         /\ \A p \in rpos .. rpos + NodeCount - 1 :
              head'[Idx(p)] = IF p = re THEN CleanHead ELSE head[Idx(p)]
<1>1. /\ WritersSame /\ UNCHANGED <<rpos, rpc, rb, rw, rv>> /\ rpc = "reset"
      /\ Idx(re) # Idx(rw) /\ SeqOf(re) = rv.seq
      /\ head' = [head EXCEPT ![Idx(re)] = CleanHead] /\ re' = re + 1
  BY DEF ResetNode, ReaderOnly, writerV, WritersSame, SeqOf, Freed
<1>2. /\ ResetInv /\ InHandSize \in Nat /\ InHandSize > 0 /\ Front = rb + InHandSize
      /\ rpos \in Nat /\ rb \in Nat /\ re \in Nat /\ rw \in Nat /\ wpos \in Nat
      /\ rpos <= rb /\ rb <= re /\ re <= rb + InHandSize /\ rb + InHandSize <= rw
      /\ re <= rw /\ rw <= wpos
  BY <1>1, AtFront, Cursors DEF Steady, Blocks, ReaderInv, ResetInv
<1>3. re \in Used /\ re < rb + InHandSize
  <2>1. re # rw
    BY <1>1
  <2>2. re \in Used
    BY <1>2, <2>1 DEF Used
  <2>3. re < rb + InHandSize
    BY <1>1, <1>2, <2>2 DEF ResetInv, Only
  <2> QED BY <2>2, <2>3
<1>4. rb \in Used
  BY <1>2, <1>3 DEF Used
<1>5. InHandSize' = InHandSize /\ Front' = Front /\ MsgAt(rb)' = MsgAt(rb)
  BY <1>1, <1>2 DEF InHandSize, Front, WritersSame, MsgAt
<1>6. ASSUME NEW p \in Used, IsPublished(p), p # re
      PROVE  re < p \/ p + Need(MsgAt(p)) <= re
  <2>1. p # rb
    <3> SUFFICES ASSUME p = rb PROVE FALSE
      OBVIOUS
    <3>1. rb \in rb .. re - 1
      BY <1>2, <1>6
    <3> QED BY <1>2, <1>6, <3>1 DEF ResetInv, Clean, CleanHead, IsPublished, Published
  <2>2. /\ PublishedBlock(p, MsgAt(p)) /\ p \in Nat /\ Need(MsgAt(p)) \in Nat
        /\ SeqOf(p) # rv.seq
    BY <1>1, <1>6, <2>1, AtPublished DEF PublishedBlock
  <2> SUFFICES ASSUME p < re, re < p + Need(MsgAt(p)) PROVE FALSE
    BY <1>2, <1>6, <2>2
  <2>3. re \in p + 1 .. p + Need(MsgAt(p)) - 1
    BY <1>2, <2>2
  <2>4. head[Idx(re)] = NextHead(SeqOf(p))
    BY <2>2, <2>3, Zenon DEF PublishedBlock, Rest
  <2> QED BY <1>1, <2>2, <2>4 DEF SeqOf, NextHead
<1>7. \A p \in rpos .. rpos + NodeCount - 1 :
        head'[Idx(p)] = IF p = re THEN CleanHead ELSE head[Idx(p)]
  <2>1. re \in rpos .. rpos + NodeCount - 1
    BY <1>3, UsedInRing DEF Steady
  <2>2. TypeOK
    BY DEF Steady
  <2>3. head' = [head EXCEPT ![Idx(re)] = CleanHead]
    BY <1>1
  <2> QED BY <2>1, <2>2, <2>3, OneHead
<1>8. \A p \in rpos .. rb + InHandSize - 1 : p \in rpos .. rpos + NodeCount - 1 /\ p \in Nat
  BY <1>2, Cursors DEF Steady
<1>9. ResetInv'
  <2>1. Whole(rb, MsgAt(rb))'
    <3>1. PICK p, m : p = rb /\ m = MsgAt(rb)
      OBVIOUS
    <3>2. Whole(p, m)'
      BY <1>1, <1>2, <3>1 DEF ResetInv, Whole, WritersSame
    <3> QED BY <1>1, <1>5, <3>1, <3>2 DEF Whole
  <2>2. (\A p \in rpos .. rb - 1 : ~IsPublished(p))'
    <3> SUFFICES ASSUME NEW p \in rpos .. rb - 1 PROVE ~IsPublished(p)'
      BY <1>1
    <3>1. p \in rpos .. rpos + NodeCount - 1 /\ p # re /\ ~IsPublished(p)
      BY <1>2, <1>8 DEF ResetInv
    <3> QED BY <1>7, <3>1 DEF IsPublished, Published
  <2>3. (\A p \in rb .. re - 1 : Clean(p))'
    <3> SUFFICES ASSUME NEW p \in rb .. re PROVE Clean(p)'
      BY <1>1, <1>2
    <3>1. p \in rpos .. rpos + NodeCount - 1 /\ (p = re \/ Clean(p))
      BY <1>2, <1>3, <1>8 DEF ResetInv
    <3> QED BY <1>7, <3>1 DEF Clean
  <2>4. (\A p \in re .. rb + InHandSize - 1 : SeqOf(p) = rv.seq)'
    <3> SUFFICES ASSUME NEW p \in re + 1 .. rb + InHandSize - 1 PROVE SeqOf(p)' = rv.seq
      BY <1>1, <1>5
    <3>1. p \in rpos .. rpos + NodeCount - 1 /\ p # re /\ SeqOf(p) = rv.seq
      BY <1>2, <1>8 DEF ResetInv
    <3> QED BY <1>7, <3>1 DEF SeqOf
  <2>5. (\A p \in rb + 1 .. rb + InHandSize - 1 : ~head[Idx(p)].start)'
    <3> SUFFICES ASSUME NEW p \in rb + 1 .. rb + InHandSize - 1 PROVE ~head'[Idx(p)].start
      BY <1>1, <1>5
    <3>1. p \in rpos .. rpos + NodeCount - 1 /\ ~head[Idx(p)].start
      BY <1>2, <1>8 DEF ResetInv
    <3> QED BY <1>7, <3>1 DEF CleanHead
  <2>6. Only(rv.seq, rb, InHandSize)'
    <3> SUFFICES ASSUME NEW q \in Used, SeqOf(q)' = rv.seq
                 PROVE  rb <= q /\ q < rb + InHandSize
      BY <1>1, <1>5 DEF Only, Used, WritersSame
    <3>1. SeqOf(q) = rv.seq
      BY <1>2, <1>7, UsedInRing DEF SeqOf, CleanHead, ResetInv, Steady
    <3> QED BY <1>2, <3>1 DEF ResetInv, Only
  <2>7. re' <= rb' + InHandSize' /\ rb' + InHandSize' <= rw'
    BY <1>1, <1>2, <1>3, <1>5
  <2> QED BY <1>1, <1>2, <2>1, <2>2, <2>3, <2>4, <2>5, <2>6, <2>7 DEF ResetInv
<1>10. ReaderInv'
  BY <1>1, <1>9 DEF ReaderInv
<1>11. re < Front
  BY <1>2, <1>3
<1>12. rv'.seq = rv.seq
  BY <1>1
<1>13. Blocks'
  BY <1>1, <1>3, <1>5, <1>6, <1>10, <1>11, <1>12, ReaderFrees
<1>14. ASSUME NEW p \in Used, IsPublished(p), rb < p, p < Front PROVE FALSE
  <2>1. p \in rb + 1 .. rb + InHandSize - 1
    BY <1>2, <1>14 DEF Used
  <2> QED BY <1>2, <1>14, <2>1 DEF ResetInv, IsPublished, Published
<1> QED BY <1>2, <1>3, <1>5, <1>7, <1>11, <1>13, <1>14

\* A node that was stepped over loses its head.
LEMMA BlocksCleanNode ==
  ASSUME Steady, CleanNode
  PROVE  /\ Blocks' /\ Front' = Front /\ rv'.ret = rv.ret /\ rv'.m = rv.m
         /\ \A p \in Used : IsPublished(p) => rv.i < p
         /\ rv.i \in Used
         /\ \A p \in rpos .. rpos + NodeCount - 1 :
              head'[Idx(p)] = IF p = rv.i THEN CleanHead ELSE head[Idx(p)]
<1>1. /\ WritersSame /\ UNCHANGED <<rpos, rpc, rb, re, rw>> /\ rpc = "clean"
      /\ Idx(rv.i) # Idx(rb) /\ rv' = [rv EXCEPT !.i = rv.i + 1]
      /\ head' = [head EXCEPT ![Idx(rv.i)] = CleanHead]
  BY DEF CleanNode, ReaderOnly, writerV, WritersSame, Freed
<1>2. rv'.seq = rv.seq /\ rv'.i = rv.i + 1 /\ rv'.ret = rv.ret
  BY <1>1 DEF Steady, TypeOK, ReaderOK, RvType
<1>3. /\ CleanInv /\ Front = re /\ rv.i \in Nat /\ rpos \in Nat /\ rb \in Nat /\ re \in Nat
      /\ wpos \in Nat /\ rpos <= rv.i /\ rv.i <= rb /\ rb <= re /\ re <= wpos
  BY <1>1, AtFront, Cursors DEF Steady, Blocks, ReaderInv
<1>4. rv.i < rb /\ rv.i \in Used /\ rv.i < Front
  <2>1. rv.i # rb
    BY <1>1
  <2> QED BY <1>3, <2>1 DEF Used
<1>5. Front' = Front
  BY <1>1, <1>3 DEF Front
<1>6. ASSUME NEW p \in Used, IsPublished(p) PROVE rv.i < p
  <2>1. p \in Nat /\ rpos <= p
    BY <1>3 DEF Used
  <2>2. ~(p < rb)
    BY <1>3, <1>6, <2>1 DEF CleanInv
  <2> QED BY <1>3, <1>4, <2>1, <2>2
<1>7. PICK t : t = rv.i
  OBVIOUS
<1>8. \A p \in rpos .. rpos + NodeCount - 1 :
        head'[Idx(p)] = IF p = t THEN CleanHead ELSE head[Idx(p)]
  <2>1. t \in rpos .. rpos + NodeCount - 1 /\ head' = [head EXCEPT ![Idx(t)] = CleanHead]
    BY <1>1, <1>4, <1>7, UsedInRing DEF Steady
  <2>2. TypeOK
    BY DEF Steady
  <2> QED BY <2>1, <2>2, OneHead
<1>9. \A p \in rpos .. re - 1 : p \in rpos .. rpos + NodeCount - 1 /\ p \in Nat
  BY <1>3, Cursors DEF Steady
<1>10. CleanInv'
  <2>1. (\A p \in rpos .. rb - 1 : ~IsPublished(p))'
    <3> SUFFICES ASSUME NEW p \in rpos .. rb - 1 PROVE ~IsPublished(p)'
      BY <1>1
    <3>1. p \in rpos .. rpos + NodeCount - 1 /\ ~IsPublished(p)
      BY <1>3, <1>9 DEF CleanInv
    <3> QED BY <1>8, <3>1 DEF IsPublished, Published, CleanHead
  <2>2. (\A p \in rpos .. rv.i - 1 : Clean(p))'
    <3> SUFFICES ASSUME NEW p \in rpos .. t PROVE Clean(p)'
      BY <1>1, <1>2, <1>3, <1>7
    <3>1. p \in rpos .. rpos + NodeCount - 1 /\ (p = t \/ Clean(p))
      BY <1>3, <1>4, <1>7, <1>9 DEF CleanInv
    <3> QED BY <1>8, <3>1 DEF Clean
  <2>3. (\A p \in rb .. re - 1 : Clean(p))'
    <3> SUFFICES ASSUME NEW p \in rb .. re - 1 PROVE Clean(p)'
      BY <1>1
    <3>1. p \in rpos .. rpos + NodeCount - 1 /\ Clean(p)
      BY <1>3, <1>9 DEF CleanInv
    <3> QED BY <1>8, <3>1 DEF Clean
  <2>4. rpos' <= rv'.i /\ rv'.i <= rb' /\ rb' <= re'
    BY <1>1, <1>2, <1>3, <1>4
  <2> QED BY <1>1, <1>2, <1>3, <2>1, <2>2, <2>3, <2>4 DEF CleanInv
<1>11. ReaderInv'
  BY <1>1, <1>10 DEF ReaderInv
<1>12. \A p \in Used : IsPublished(p) /\ p # t => t < p \/ p + Need(MsgAt(p)) <= t
  BY <1>6, <1>7
<1>13. Blocks'
  BY <1>1, <1>2, <1>4, <1>5, <1>7, <1>11, <1>12, ReaderFrees
<1>14. rv'.m = rv.m
  BY <1>1 DEF Steady, TypeOK, ReaderOK, RvType
<1> QED BY <1>2, <1>4, <1>5, <1>6, <1>7, <1>8, <1>13, <1>14

\* The read cursor moves over clean nodes only, and so all that is free is clean.
LEMMA BlocksStoreReadCur ==
  ASSUME Steady, StoreReadCur
  PROVE  /\ Blocks' /\ Front' = Front /\ Used' \subseteq Used /\ rpos' = re
         /\ \A p \in Used : IsPublished(p) => p \in Used'
<1>1. /\ WritersSame /\ head' = head /\ rpc = "clean" /\ rpc' = "idle"
      /\ Idx(rv.i) = Idx(rb) /\ rpos' = re
  BY DEF StoreReadCur, RGoto, writerV, WritersSame
<1>2. /\ CleanInv /\ Front = re /\ rv.i \in Nat /\ rpos \in Nat /\ rb \in Nat /\ re \in Nat
      /\ wpos \in Nat /\ rpos <= rv.i /\ rv.i <= rb /\ rb <= re /\ re <= wpos
      /\ wpos <= rpos + NodeCount - 1 /\ NodeCount \in Nat
  BY <1>1, AtFront, Cursors DEF Steady, Blocks, ReaderInv
<1>3. rv.i = rb
  BY <1>1, <1>2, ReaderIdx
<1>4. \A p \in rpos .. re - 1 : Clean(p)
  BY <1>2, <1>3 DEF CleanInv
<1>5. Front' = Front
  BY <1>1, <1>2 DEF Front
<1>6. Used' \subseteq Used
  BY <1>1, <1>2 DEF Used, WritersSame
<1>7. \A s, p, n : Only(s, p, n) => Only(s, p, n)'
  BY <1>1, <1>6 DEF Only, SeqOf
<1>8. /\ \A p, m : Whole(p, m)' = Whole(p, m)
      /\ \A p : IsPublished(p)' = IsPublished(p)
      /\ \A p : MsgAt(p)' = MsgAt(p) /\ SeqOf(p)' = SeqOf(p)
      /\ \A p, n, s : Rest(p, n, s)' = Rest(p, n, s)
      /\ \A w, q : OwnHead(w, q)' = OwnHead(w, q)
  BY <1>1, Zenon DEF Whole, IsPublished, Published, MsgAt, SeqOf, Rest, OwnHead, Clean, WritersSame
<1>9. PublishedInv'
  <2> SUFFICES ASSUME NEW p \in Used', IsPublished(p) PROVE PublishedBlock(p, MsgAt(p))'
    BY <1>8 DEF PublishedInv
  <2>1. PICK m, s : m = MsgAt(p) /\ s = SeqOf(p)
    OBVIOUS
  <2>2. PublishedBlock(p, m)
    BY <1>6, <2>1, AtPublished
  <2>3. MsgAt(p)' = m /\ SeqOf(p)' = s
    BY <1>8, <2>1
  <2>4. Whole(p, m)' /\ Rest(p, Need(m), s)' /\ Only(s, p, Need(m))' /\ s # 0
    BY <1>7, <1>8, <2>1, <2>2 DEF PublishedBlock
  <2>5. SeenWhole(p, Need(m))' /\ (rpc' = "reset" /\ p # rb' => s # rv'.seq)
    BY <1>1 DEF SeenWhole
  <2> QED BY <2>3, <2>4, <2>5 DEF PublishedBlock
<1>10. FillingInv'
  <2>1. \A w \in Writers : Filling(w)' = Filling(w) /\ Reserved(w)' = Reserved(w)
                           /\ First(w)' = First(w)
    BY <1>1 DEF Filling, Reserved, First, WritersSame
  <2>2. ASSUME NEW w \in Writers, Filling(w) PROVE Own(w)'
    <3>1. Own(w)
      BY <2>2, AtBlock
    <3>2. Only(op[w].seq, wc[w], op[w].i)'
      <4>1. PICK s, p, n : s = op[w].seq /\ p = wc[w] /\ n = op[w].i
        OBVIOUS
      <4>2. Only(s, p, n)'
        BY <1>7, <3>1, <4>1 DEF Own
      <4> QED BY <1>1, <4>1, <4>2 DEF Only, WritersSame
    <3>3. SeenWhole(wc[w], Need(op[w].m))'
      BY <1>1 DEF SeenWhole
    <3>4. Whole(wc[w], op[w].m)' = Whole(wc[w], op[w].m)
      BY <1>1, Zenon DEF Whole, WritersSame
    <3> QED BY <1>1, <1>5, <1>8, <2>1, <3>1, <3>2, <3>3, <3>4 DEF Own, WritersSame
  <2> QED BY <1>1, <2>1, <2>2 DEF FillingInv, Apart, Steady, Blocks, WritersSame
<1>11. NumbersInv'
  <2>1. \A w \in Writers : Filling(w)' = Filling(w) /\ Loading(w)' = Loading(w)
                           /\ Numbered(w)' = Numbered(w)
    BY <1>1 DEF Filling, Loading, Numbered, WritersSame
  <2> QED BY <1>1, <1>6, <1>8, <2>1 DEF NumbersInv, WritersSame, Steady, Blocks
<1>12. FreeInv'
  <2> SUFFICES ASSUME NEW p \in wpos .. re + NodeCount - 1 PROVE Clean(p)
    BY <1>1 DEF FreeInv, Clean, WritersSame
  <2>1. CASE p <= rpos + NodeCount - 1
    BY <1>2, <2>1 DEF FreeInv, Steady, Blocks
  <2>2. CASE p > rpos + NodeCount - 1
    <3>1. PICK q \in rpos .. re - 1 : p = q + NodeCount
      <4>1. p - NodeCount \in rpos .. re - 1 /\ p = (p - NodeCount) + NodeCount
        BY <1>2, <2>2
      <4> QED BY <4>1
    <3>2. q \in Nat /\ Idx(p) = Idx(q)
      BY <1>2, <3>1, IdxAgain
    <3> QED BY <1>4, <3>1, <3>2 DEF Clean
  <2> QED BY <1>2, <2>1, <2>2
<1>13. ReaderInv'
  BY <1>1 DEF ReaderInv, StoreReadCur, IdleRv
<1>14. ASSUME NEW p \in Used, IsPublished(p) PROVE p \in Used'
  <2>1. p \in Nat /\ ~(p \in rpos .. re - 1)
    BY <1>2, <1>4, <1>14 DEF Used, Clean, CleanHead, IsPublished, Published
  <2> QED BY <1>1, <1>2, <1>14, <2>1 DEF Used, WritersSame
<1> QED BY <1>1, <1>5, <1>6, <1>9, <1>10, <1>11, <1>12, <1>13, <1>14 DEF Blocks

(***************************************************************************)
(* Every step.                                                             *)
(***************************************************************************)
\* There are no blocks at first.
LEMMA BlocksInit == Init => BlocksInv
<1> SUFFICES ASSUME Init PROVE Blocks
  BY DEF BlocksInv
<1>1. rpos = wpos /\ rpos \in Nat /\ head = [n \in Nodes |-> CleanHead]
      /\ rpc = "idle" /\ \A w \in Writers : pc[w] = "idle"
  BY StartAssumption DEF Init
<1>2. Used = {}
  BY <1>1 DEF Used
<1>3. FreeInv
  <2> SUFFICES ASSUME NEW p \in wpos .. rpos + NodeCount - 1 PROVE Clean(p)
    BY DEF FreeInv
  <2>1. p \in Nat
    BY <1>1, NodeCountAssumption
  <2> QED BY <1>1, <2>1, IdxInNodes DEF Clean
<1>4. PublishedInv
  BY <1>2 DEF PublishedInv
<1>5. FillingInv /\ NumbersInv
  BY <1>1 DEF FillingInv, NumbersInv, Filling, Loading, Writing
<1>6. ReaderInv
  BY <1>1 DEF ReaderInv, Init, IdleRv
<1> QED BY <1>3, <1>4, <1>5, <1>6 DEF Blocks

\* The windows that were hit stay hit.
LEMMA WindowsStay == [Next]_vars => hz \subseteq hz'
<1> SUFFICES ASSUME [Next]_vars PROVE hz \subseteq hz'
  OBVIOUS
<1>1. ASSUME NEW w \in Writers, Send(w) \/ Step(w) \/ CasSpurious(w) \/ Crash(w)
      PROVE  hz \subseteq hz'
  BY <1>1 DEF Send, Step, Begin, LoadReadCur, CasWriteCur, CasLost, MarkFirst, MarkNextConflict,
     MarkNext, StoreSize, Fill, LoadFlag, Publish, FinalCheck, CasSpurious, Crash, Reload,
     HeadOnly, history
<1>2. CASE Recv \/ ReaderStep \/ ReaderCrash \/ Tick \/ UNCHANGED vars
  BY <1>2 DEF Recv, ReaderStep, ScanEnd, ScanSkip, ScanWait, ScanTimeout, ScanBlock, ResetNode,
     TakeBlock, CleanNode, StoreReadCur, ReaderCrash, Tick, ReaderOnly, history, vars
<1> QED BY <1>1, <1>2 DEF Next

\* A window that was not hit after a step was not hit before it.
LEMMA CalmBefore == [Next]_vars /\ Calm' => Calm
BY WindowsStay DEF Calm, Without

\* The blocks are as described after every step, if they were before it.
LEMMA BlocksNext ==
  ASSUME TypeOK, RoomInv, CallsInv, BlocksInv, [Next]_vars
  PROVE  BlocksInv'
<1> SUFFICES ASSUME Calm' PROVE Blocks'
  BY DEF BlocksInv
<1>1. Steady
  BY CalmBefore DEF Steady, BlocksInv
<1>2. TypeOK' /\ RoomInv'
  BY TypeNext, RoomNext
<1>3. ASSUME NEW w \in Writers, Send(w) \/ Step(w) \/ CasSpurious(w) \/ Crash(w)
      PROVE  Blocks'
  BY <1>1, <1>2, <1>3, BlocksSend, BlocksBegin, BlocksLoadReadCur, BlocksCas, BlocksReload,
     BlocksMark, BlocksConflict, BlocksStoreSize, BlocksFill, BlocksLoadFlag, BlocksPublish,
     BlocksCrash
  DEF Step, CasLost, CasSpurious
<1>4. CASE Recv \/ ReaderStep \/ ReaderCrash \/ Tick
  BY <1>1, <1>4, BlocksRecv, BlocksScanEnd, BlocksScanSkip, BlocksScanTimeout, BlocksScanBlock,
     BlocksResetNode, BlocksTakeBlock, BlocksCleanNode, BlocksStoreReadCur, BlocksReaderCrash,
     BlocksTick
  DEF ReaderStep
<1>5. CASE UNCHANGED vars
  <2>1. RingSame /\ WritersSame
    BY <1>5 DEF vars, shared, writerV, readerV, RingSame, WritersSame
  <2> QED BY <1>1, <2>1, BlocksSame
<1> QED BY <1>3, <1>4, <1>5 DEF Next

\* Every call knows its message and how far it is, and no result is of a later
\* call.
THEOREM CallsCorrect == Spec => []CallsInv
<1>1. TypeOK /\ CallsInv /\ [Next]_vars => CallsInv'
  BY CallsNext
<1> QED BY <1>1, CallsInit, TypeCorrect, PTL DEF Spec

\* Every used node of a calm ring is part of a whole published block, of the
\* block of one writer or of the reader's, or a remnant nobody will take for a
\* block, and every free node is clean: in every behaviour, for any number of
\* writers, nodes and messages.
THEOREM BlocksCorrect == Spec => []BlocksInv
<1>1. TypeOK /\ RoomInv /\ CallsInv /\ BlocksInv /\ [Next]_vars => BlocksInv'
  BY BlocksNext
<1> QED BY <1>1, BlocksInit, TypeCorrect, RoomSafe, CallsCorrect, PTL DEF Spec

\* The nodes a writer is filling are its own: between the cursors, not passed by
\* the reader, and no other writer's.
THEOREM NodesExclusive == Spec => []ExclusiveNodes
<1>1. TypeOK /\ RoomInv /\ CallsInv /\ BlocksInv => ExclusiveNodes
  <2> SUFFICES ASSUME TypeOK, RoomInv, CallsInv, BlocksInv, Calm, NEW w \in Writers, Filling(w)
               PROVE  /\ Reserved(w) \subseteq rpos .. wpos - 1
                      /\ \A v \in Writers \ {w} : Filling(v) => Reserved(w) \cap Reserved(v) = {}
    BY DEF ExclusiveNodes, Calm
  <2>1. Steady
    BY DEF Steady, BlocksInv
  <2>2. Reserved(w) \subseteq rpos .. wpos - 1
    BY <2>1, AtBlock DEF Used
  <2>3. ASSUME NEW v \in Writers \ {w}, Filling(v) PROVE Reserved(w) \cap Reserved(v) = {}
    <3>1. /\ wc[w] \in Nat /\ Need(op[w].m) \in Nat /\ wc[v] \in Nat /\ Need(op[v].m) \in Nat
      BY <2>1, <2>3, AtBlock
    <3>2. Apart(w, v)
      BY <2>1, <2>3 DEF Steady, Blocks, FillingInv
    <3> QED BY <3>1, <3>2 DEF Apart, Reserved
  <2> QED BY <2>2, <2>3
<1> QED BY <1>1, TypeCorrect, RoomSafe, CallsCorrect, BlocksCorrect, PTL

\* mem_recv meets no bad block, whatever writers and readers crashed before.
THEOREM NoBlockIsBad == Spec => []NoBadBlock
<1>1. TypeOK /\ RoomInv /\ BlocksInv => NoBadBlock
  <2> SUFFICES ASSUME TypeOK, RoomInv, BlocksInv, Calm
               PROVE  rv.ret \notin {"BAD_BUFF_SIZE", "BAD_NODE_NUM", "BAD_DATA"}
    BY DEF NoBadBlock, Calm
  <2>1. ReaderInv /\ rpc \in {"idle", "scan", "reset", "clean"}
    BY Cursors DEF BlocksInv, Blocks
  <2> QED BY <2>1 DEF ReaderInv, ScanInv, ResetInv, CleanInv
<1> QED BY <1>1, TypeCorrect, RoomSafe, BlocksCorrect, PTL

(***************************************************************************)
(* The messages: what waits in the ring and what the reader has in hand    *)
(* after a step, compared with before.                                     *)
(***************************************************************************)
\* The same writers have something to be read.
WaitsSame ==
  \A p : /\ Waits(p)' <=> Waits(p)
         /\ Waits(p) => MsgAt(p)' = MsgAt(p) /\ SeqOf(p)' = SeqOf(p)
\* The same messages are on their way.
HandSame == \A m : InHand(m)' <=> InHand(m)

\* A message is in the ring when its block waits there.
LEMMA RingHas ==
  /\ \A m : InRing(m) <=> \E p : Waits(p) /\ MsgAt(p) = m
  /\ \A m : InRing(m)' <=> \E p : Waits(p)' /\ MsgAt(p)' = m
<1>1. \A p : Waits(p) <=> p \in rpos .. wpos - 1 /\ head[Idx(p)].start /\ head[Idx(p)].writen
  BY Zenon DEF Waits, Used, IsPublished, Published
<1>2. \A p : Waits(p)' <=> p \in rpos' .. wpos' - 1 /\ head'[Idx(p)].start /\ head'[Idx(p)].writen
  BY Zenon DEF Waits, Used, IsPublished, Published
<1>3. \A p : MsgAt(p) = blk[Idx(p)].check /\ MsgAt(p)' = blk'[Idx(p)].check
  BY Zenon DEF MsgAt
<1>4. \A m : InRing(m) <=> \E p : Waits(p) /\ MsgAt(p) = m
  <2> SUFFICES ASSUME NEW m PROVE InRing(m) <=> \E p : Waits(p) /\ MsgAt(p) = m
    BY Zenon
  <2>1. ASSUME InRing(m) PROVE \E p : Waits(p) /\ MsgAt(p) = m
    <3>1. PICK p \in rpos .. wpos - 1 :
            head[Idx(p)].start /\ head[Idx(p)].writen /\ blk[Idx(p)].check = m
      BY <2>1, Zenon DEF InRing
    <3> QED BY <1>1, <1>3, <3>1, Zenon
  <2>2. ASSUME NEW p, Waits(p), MsgAt(p) = m PROVE InRing(m)
    BY <1>1, <1>3, <2>2, Zenon DEF InRing
  <2> QED BY <2>1, <2>2, Zenon
<1>5. \A m : InRing(m)' <=> \E p : Waits(p)' /\ MsgAt(p)' = m
  <2> SUFFICES ASSUME NEW m PROVE InRing(m)' <=> \E p : Waits(p)' /\ MsgAt(p)' = m
    BY Zenon
  <2>1. ASSUME InRing(m)' PROVE \E p : Waits(p)' /\ MsgAt(p)' = m
    <3>1. PICK p \in rpos' .. wpos' - 1 :
            head'[Idx(p)].start /\ head'[Idx(p)].writen /\ blk'[Idx(p)].check = m
      BY <2>1, Zenon DEF InRing
    <3> QED BY <1>2, <1>3, <3>1, Zenon
  <2>2. ASSUME NEW p, Waits(p)', MsgAt(p)' = m PROVE InRing(m)'
    BY <1>2, <1>3, <2>2, Zenon DEF InRing
  <2> QED BY <2>1, <2>2, Zenon
<1> QED BY <1>4, <1>5

\* Then a message is in the ring as before.
LEMMA RingHasSame == WaitsSame => \A m : InRing(m)' <=> InRing(m)
<1> SUFFICES ASSUME WaitsSame, NEW m PROVE InRing(m)' <=> InRing(m)
  OBVIOUS
<1>1. ASSUME InRing(m) PROVE InRing(m)'
  <2>1. PICK p : Waits(p) /\ MsgAt(p) = m
    BY <1>1, RingHas, Zenon
  <2>2. Waits(p)' /\ MsgAt(p)' = m
    BY <2>1, Zenon DEF WaitsSame
  <2> QED BY <2>2, RingHas, Zenon
<1>2. ASSUME InRing(m)' PROVE InRing(m)
  <2>1. PICK p : Waits(p)' /\ MsgAt(p)' = m
    BY <1>2, RingHas, Zenon
  <2>2. Waits(p) /\ MsgAt(p) = m
    BY <2>1, Zenon DEF WaitsSame
  <2> QED BY <2>2, RingHas, Zenon
<1> QED BY <1>1, <1>2, Zenon

\* What waits is in the ring.
LEMMA WaitingNode ==
  ASSUME Steady, NEW p, Waits(p)
  PROVE  /\ p \in Used /\ IsPublished(p) /\ p \in Nat /\ rpos <= p /\ p < wpos
         /\ p \in rpos .. rpos + NodeCount - 1
<1>1. p \in Used /\ IsPublished(p)
  BY DEF Waits
<1> QED BY <1>1, UsedInRing, Cursors DEF Steady, Used

\* The reader's hands are as they were, if its places and the block are.
LEMMA HandsAsBefore ==
  ASSUME UNCHANGED <<rpc, rb, re>>, rv'.ret = rv.ret, rv'.m = rv.m,
         rpc = "reset" => MsgAt(rb)' = MsgAt(rb)
  PROVE  HandSame
<1>1. ASSUME NEW m PROVE InHand(m)' <=> InHand(m)
  BY DEF InHand, MsgAt
<1> QED BY <1>1, Zenon DEF HandSame

\* A step that leaves the ring as it is.
LEMMA SameWaits ==
  ASSUME RingSame
  PROVE  WaitsSame /\ HandSame /\ Front' = Front
<1>1. UNCHANGED <<rpos, wpos, head, blk, rpc, rb, re, rw, rv>>
  BY DEF RingSame
<1>2. WaitsSame
  BY <1>1, Zenon DEF WaitsSame, Waits, Used, IsPublished, Published, MsgAt, SeqOf
<1>3. MsgAt(rb)' = MsgAt(rb)
  BY <1>1 DEF MsgAt
<1>4. HandSame
  BY <1>1, <1>3, HandsAsBefore
<1> QED BY <1>1, <1>2, <1>4 DEF Front, InHandSize

\* A reservation puts clean nodes in use.
LEMMA CasWaits ==
  ASSUME Steady, Steady', NEW w \in Writers, CasWriteCur(w)
  PROVE  WaitsSame /\ HandSame /\ Front' = Front
<1>1. UNCHANGED <<rpos, head, blk, data, rpc, rb, re, rw, rv>> /\ wpos' = wpos + Need(op[w].m)
  BY DEF CasWriteCur, readerV
<1>2. Need(op[w].m) \in Nat
  <2>1. AtWork(w)
    BY DEF CasWriteCur, AtWork
  <2> QED BY <2>1, Working DEF Steady
<1>3. /\ rpos \in Nat /\ wpos \in Nat /\ rpos <= wpos /\ NodeCount \in Nat
      /\ wpos' <= rpos + NodeCount - 1
  <2>1. rpos \in Nat /\ wpos \in Nat /\ rpos <= wpos /\ NodeCount \in Nat
    BY Cursors DEF Steady
  <2>2. wpos' = rpos \/ wpos' - rpos <= NodeCount - 1 - Protect
    BY <1>1 DEF Steady, RoomInv, CursorSafe, Calm, Without
  <2> QED BY <1>1, <1>2, <2>1, <2>2, NodeCountAssumption, ProtectAssumption
<1>4. ASSUME NEW p, Waits(p)' PROVE Waits(p)
  <2>1. p \in rpos .. wpos' - 1 /\ IsPublished(p)
    BY <1>1, <1>4, Zenon DEF Waits, Used, IsPublished, Published
  <2>2. ASSUME p \notin Used PROVE FALSE
    <3>1. p \in wpos .. rpos + NodeCount - 1
      BY <1>1, <1>2, <1>3, <2>1, <2>2 DEF Used
    <3>2. Clean(p)
      BY <3>1 DEF Steady, Blocks, FreeInv
    <3> QED BY <2>1, <3>2 DEF Clean, CleanHead, IsPublished, Published
  <2> QED BY <2>1, <2>2 DEF Waits
<1>5. ASSUME NEW p, Waits(p)
      PROVE  Waits(p)' /\ MsgAt(p)' = MsgAt(p) /\ SeqOf(p)' = SeqOf(p)
  <2>1. p \in rpos .. wpos' - 1
    BY <1>1, <1>2, <1>3, <1>5 DEF Waits, Used
  <2>2. p \in Used'
    BY <1>1, <2>1 DEF Used
  <2> QED BY <1>1, <1>5, <2>2, Zenon DEF Waits, IsPublished, Published, MsgAt, SeqOf
<1>6. MsgAt(rb)' = MsgAt(rb)
  BY <1>1 DEF MsgAt
<1>7. HandSame
  BY <1>1, <1>6, HandsAsBefore
<1> QED BY <1>1, <1>4, <1>5, <1>7 DEF WaitsSame, Front, InHandSize

\* While a writer is at its own nodes, none of them waits.
LEMMA OwnNodesDoNotWait ==
  ASSUME NEW w \in Writers, Own(w), NEW q \in Reserved(w)
  PROVE  ~IsPublished(q)
<1>1. OwnHead(w, q)
  BY DEF Own
<1> QED BY <1>1 DEF OwnHead, IsPublished, Published, Clean, CleanHead, FirstHead, NextHead

\* A step at a writer's own nodes: the block in hand is not among them.
LEMMA OwnHands ==
  ASSUME Steady, NEW w \in Writers, OwnNodesOnly(w)
  PROVE  HandSame /\ Front' = Front
<1>1. Filling(w) /\ UNCHANGED <<rpos, wpos, rpc, rb, re, rw, rv>>
  BY DEF OwnNodesOnly
<1>2. ASSUME rpc = "reset" PROVE MsgAt(rb)' = MsgAt(rb)
  <2>1. wc[w] \in Nat /\ Need(op[w].m) \in Nat /\ Front <= wc[w]
    BY <1>1, AtBlock
  <2>2. /\ rb \in rpos .. rpos + NodeCount - 1 /\ rb < wc[w]
    BY <1>2, <2>1, AtFront, Cursors DEF Steady
  <2>3. rb \notin Reserved(w)
    BY <2>1, <2>2 DEF Reserved
  <2> QED BY <1>1, <2>2, <2>3 DEF OwnNodesOnly, MsgAt
<1> QED BY <1>1, <1>2, HandsAsBefore, FrontStays

\* Marking and filling publishes nothing and changes no block that waits.
LEMMA OwnWaits ==
  ASSUME Steady, NEW w \in Writers, OwnNodesOnly(w), Filling(w)', Own(w)'
  PROVE  WaitsSame
<1>1. UNCHANGED <<rpos, wpos>> /\ Filling(w) /\ Reserved(w)' = Reserved(w) /\ Used' = Used
  BY DEF OwnNodesOnly, Reserved, Used
<1>2. Own(w)
  BY <1>1, AtBlock
<1>3. ASSUME NEW p \in Used
      PROVE  /\ IsPublished(p)' <=> IsPublished(p)
             /\ IsPublished(p) => MsgAt(p)' = MsgAt(p) /\ SeqOf(p)' = SeqOf(p)
  <2>1. p \in rpos .. rpos + NodeCount - 1
    BY UsedInRing DEF Steady
  <2>2. CASE p \in Reserved(w)
    <3>1. ~IsPublished(p)
      BY <1>2, <2>2, OwnNodesDoNotWait
    <3>2. OwnHead(w, p)'
      BY <1>1, <2>2 DEF Own
    <3>3. ~IsPublished(p)'
      BY <3>2 DEF OwnHead, IsPublished, Published, Clean, CleanHead, FirstHead, NextHead
    <3> QED BY <3>1, <3>3
  <2>3. CASE p \notin Reserved(w)
    BY <2>1, <2>3 DEF OwnNodesOnly, IsPublished, Published, MsgAt, SeqOf
  <2> QED BY <2>2, <2>3
<1> QED BY <1>1, <1>3, Zenon DEF WaitsSame, Waits

\* No step of a writer but the publication of its block changes what waits.
LEMMA WriterWaits ==
  ASSUME Steady, Steady', NEW w \in Writers,
         Send(w) \/ Step(w) \/ CasSpurious(w) \/ Crash(w), ~Publish(w)
  PROVE  WaitsSame /\ HandSame /\ Front' = Front
<1>1. CASE Send(w) \/ LoadReadCur(w) \/ Reload(w) \/ MarkNextConflict(w) \/ FinalCheck(w)
           \/ Crash(w) \/ LoadFlag(w) \/ Begin(w)
  <2>1. RingSame
    BY <1>1 DEF Send, LoadReadCur, Reload, MarkNextConflict, FinalCheck, Crash, LoadFlag, Begin,
       RingSame, shared, readerV
  <2> QED BY <2>1, SameWaits
<1>2. CASE CasWriteCur(w)
  BY <1>2, CasWaits
<1>3. CASE MarkFirst(w) \/ MarkNext(w) \/ StoreSize(w) \/ Fill(w)
  <2>1. OwnNodesOnly(w) /\ Filling(w)' /\ Own(w)'
    BY <1>3, BlocksMark, BlocksStoreSize, BlocksFill
  <2> QED BY <2>1, OwnHands, OwnWaits
<1> QED BY <1>1, <1>2, <1>3 DEF Step, CasLost, CasSpurious

\* They change nothing that is handed out either, and nothing of other writers.
LEMMA WriterFrame ==
  ASSUME Steady, NEW w \in Writers, Send(w) \/ Step(w) \/ CasSpurious(w) \/ Crash(w)
  PROVE  UNCHANGED <<rpc, rb, re, delivered>> /\ OthersSame(w)
<1>1. UNCHANGED <<rpc, rb, re, delivered>>
  BY DEF Send, Step, CasSpurious, Crash, Begin, LoadReadCur, CasWriteCur, CasLost, MarkFirst,
     MarkNextConflict, MarkNext, StoreSize, Fill, LoadFlag, Publish, FinalCheck, Reload,
     HeadOnly, readerV, history
<1>2. OthersSame(w)
  <2>1. CASE Send(w)
    <3>1. \A m, r : Return(w, m, r) => OthersSame(w)
      BY ReturnRoom DEF OthersSame, Steady
    <3>2. PICK n \in Sizes :
          \/ \E r \in {"SUCCESS", "BUFF_LIMIT"} : Return(w, <<w, sent[w] + 1, n>>, r)
          \/ /\ Goto(w, "begin")
             /\ op' = [op EXCEPT ![w].m = <<w, sent[w] + 1, n>>, ![w].tries = Tries]
             /\ UNCHANGED <<wc, rc, returned>>
      BY <2>1, Zenon DEF Send
    <3> QED BY <3>1, <3>2 DEF Goto, OthersSame, Steady, TypeOK, WritersOK
  <2>2. CASE LoadReadCur(w) \/ MarkNextConflict(w) \/ FinalCheck(w)
    BY <2>2, ReturnRoom, ConflictRoom DEF LoadReadCur, MarkNextConflict, FinalCheck, Goto, OthersSame,
       Steady, TypeOK, WritersOK
  <2>3. CASE Begin(w) \/ Reload(w) \/ LoadFlag(w) \/ CasWriteCur(w) \/ Crash(w)
    BY <2>3 DEF Begin, Reload, LoadFlag, CasWriteCur, Crash, Goto, OthersSame, Steady, TypeOK, WritersOK
  <2>4. CASE MarkFirst(w) \/ MarkNext(w) \/ StoreSize(w) \/ Fill(w) \/ Publish(w)
    BY <2>4, BlocksMark, BlocksStoreSize, BlocksFill, BlocksPublish DEF OwnNodesOnly
  <2> QED BY <2>1, <2>2, <2>3, <2>4 DEF Step, CasLost, CasSpurious
<1> QED BY <1>1, <1>2

\* Publishing puts the writer's block where it waits, and no other.
LEMMA PublishWaits ==
  ASSUME Steady, NEW w \in Writers, Publish(w), NEW b, b = wc[w]
  PROVE  /\ \A p : Waits(p)' <=> Waits(p) \/ p = b
         /\ \A p : Waits(p) => MsgAt(p)' = MsgAt(p) /\ SeqOf(p)' = SeqOf(p)
         /\ MsgAt(b)' = op[w].m /\ SeqOf(b)' = op[w].seq /\ ~Waits(b)
         /\ HandSame /\ Front' = Front
<1>1. /\ OwnNodesOnly(w) /\ blk' = blk /\ Whole(wc[w], op[w].m) /\ ~IsPublished(wc[w])
      /\ IsPublished(wc[w])' /\ SeqOf(wc[w])' = op[w].seq
      /\ \A p \in rpos .. rpos + NodeCount - 1 : p # wc[w] => head'[Idx(p)] = head[Idx(p)]
  BY BlocksPublish
<1>2. Filling(w) /\ b \in Used /\ Used' = Used /\ wc'[w] = b
  BY <1>1, AtBlock DEF OwnNodesOnly, Used
<1>3. PICK m : m = op[w].m
  OBVIOUS
<1>4. MsgAt(b)' = m /\ ~IsPublished(b)
  BY <1>1, <1>3 DEF MsgAt, Whole
<1>5. IsPublished(b)' /\ SeqOf(b)' = op[w].seq
  BY <1>1, <1>2 DEF IsPublished, Published, SeqOf
<1>6. ASSUME NEW p \in Used, p # b
      PROVE  (IsPublished(p)' <=> IsPublished(p)) /\ MsgAt(p)' = MsgAt(p) /\ SeqOf(p)' = SeqOf(p)
  <2>1. p \in rpos .. rpos + NodeCount - 1
    BY UsedInRing DEF Steady
  <2> QED BY <1>1, <1>6, <2>1 DEF IsPublished, Published, MsgAt, SeqOf
<1>7. HandSame /\ Front' = Front
  BY <1>1, OwnHands
<1>8. \A p : Waits(p)' <=> Waits(p) \/ p = b
  BY <1>2, <1>4, <1>5, <1>6, Zenon DEF Waits
<1>9. \A p : Waits(p) => MsgAt(p)' = MsgAt(p) /\ SeqOf(p)' = SeqOf(p)
  BY <1>4, <1>6, Zenon DEF Waits
<1> QED BY <1>3, <1>4, <1>5, <1>7, <1>8, <1>9 DEF Waits

\* An earlier message stays one while no call begins.
LEMMA OldStays ==
  ASSUME sent' = sent, \A v \in Writers : OnWay(v)' => OnWay(v)
  PROVE  \A m : Old(m) => Old(m)'
<1> SUFFICES ASSUME NEW m, Old(m) PROVE Old(m)'
  OBVIOUS
<1>1. m[1] \in Writers
  BY MessageParts DEF Old
<1> QED BY <1>1 DEF Old

\* What is out anywhere is of an earlier call.
LEMMA KeptOld == Once => \A m \in AnyMsg : Kept(m) => Old(m)
BY DEF Once, Kept, GoneForGood, OnePlaceEach

\* What such a step does to the histories, if it neither repeats a message nor
\* refuses one that is out.
LEMMA OnceWriter ==
  ASSUME Once, NEW w \in Writers, WaitsSame, HandSame, Front' = Front,
         UNCHANGED <<rpc, rb, re, delivered>>, OthersSame(w), pc'[w] # "check",
         \A m : Old(m) => Old(m)',
         \A m : <<m, "BUFF_LIMIT">> \in returned' => <<m, "BUFF_LIMIT">> \in returned \/ ~Old(m)
  PROVE  Once'
<1>1. \A m : (InRing(m)' <=> InRing(m)) /\ (InHand(m)' <=> InHand(m))
  BY RingHasSame, Zenon DEF HandSame
<1>2. \A m : Kept(m)' <=> Kept(m)
  BY <1>1, Zenon DEF Kept
<1>3. HandedOutOnce'
  BY DEF Once, HandedOutOnce
<1>4. GoneForGood'
  BY <1>1, Zenon DEF Once, GoneForGood
<1>5. OneBlockEach'
  <2> SUFFICES ASSUME NEW p \in Used', NEW q \in Used', Waits(p)', Waits(q)',
                      MsgAt(p)' = MsgAt(q)'
               PROVE  p = q
    BY Zenon DEF OneBlockEach
  <2>1. Waits(p) /\ Waits(q) /\ MsgAt(p) = MsgAt(q)
    BY DEF WaitsSame
  <2> QED BY <2>1 DEF Once, OneBlockEach, Waits
<1>6. OnePlaceEach'
  BY <1>1, Zenon DEF Once, OnePlaceEach
<1>7. NotRefused'
  <2> SUFFICES ASSUME NEW m \in AnyMsg, Kept(m), <<m, "BUFF_LIMIT">> \in returned' PROVE FALSE
    BY <1>2, Zenon DEF NotRefused
  <2> QED BY KeptOld DEF Once, NotRefused
<1>8. Unchecked'
  <2> SUFFICES ASSUME NEW v \in Writers, pc'[v] = "check" PROVE Untouched(v)'
    BY Zenon DEF Unchecked
  <2>1. /\ v # w /\ pc'[v] = pc[v] /\ wc'[v] = wc[v] /\ op'[v] = op[v]
    BY DEF OthersSame
  <2>2. Untouched(v)
    BY <2>1 DEF Once, Unchecked
  <2>3. PICK b : b = wc[v]
    OBVIOUS
  <2>4. Waits(b) /\ SeqOf(b) = op[v].seq
    BY <2>2, <2>3 DEF Untouched
  <2>5. Waits(b)' /\ SeqOf(b)' = op[v].seq
    BY <2>4, Zenon DEF WaitsSame
  <2> QED BY <2>1, <2>2, <2>3, <2>5 DEF Untouched, SeqOf, Waits, IsPublished, Published
<1>9. TakenWaits'
  <2> SUFFICES ASSUME rpc = "reset", re = rb PROVE Waits(rb)'
    BY DEF TakenWaits
  <2>1. PICK b : b = rb
    OBVIOUS
  <2>2. Waits(b)'
    BY <2>1 DEF Once, TakenWaits, WaitsSame
  <2> QED BY <2>1, <2>2 DEF Waits, IsPublished, Published
<1> QED BY <1>3, <1>4, <1>5, <1>6, <1>7, <1>8, <1>9, Zenon DEF Once

\* A call that begins is later than all that is out.
LEMMA SendLater ==
  ASSUME Steady, NEW w \in Writers, Send(w)
  PROVE  /\ \A m : Old(m) => Old(m)'
         /\ \A m : <<m, "BUFF_LIMIT">> \in returned' => <<m, "BUFF_LIMIT">> \in returned \/ ~Old(m)
         /\ pc'[w] # "check"
<1>1. /\ sent' = [sent EXCEPT ![w] = sent[w] + 1] /\ sent \in [Writers -> 0 .. MaxSend]
      /\ pc[w] = "idle"
  BY DEF Send, Steady, TypeOK, WritersOK
<1>2. PICK n \in Sizes :
        \/ \E r \in {"SUCCESS", "BUFF_LIMIT"} : Return(w, <<w, sent[w] + 1, n>>, r)
        \/ Goto(w, "begin") /\ returned' = returned
  BY Zenon DEF Send
<1>3. /\ pc'[w] \in {"idle", "begin"}
      /\ \A m, r : <<m, r>> \in returned' => <<m, r>> \in returned \/ m = <<w, sent[w] + 1, n>>
  BY <1>2 DEF Return, Goto, Steady, TypeOK, WritersOK
<1>4. ASSUME NEW m, Old(m) PROVE Old(m)'
  <2>1. m \in Message /\ m[1] \in Writers /\ m[2] \in Nat /\ m[2] <= sent[m[1]]
        /\ (OnWay(m[1]) => m[2] < sent[m[1]])
    BY <1>4, MessageParts DEF Old
  <2>2. CASE m[1] = w
    BY <1>1, <2>1, <2>2, BoundAssumption DEF Old
  <2>3. CASE m[1] # w
    <3>1. sent'[m[1]] = sent[m[1]]
      BY <1>1, <2>1, <2>3
    <3>2. OthersSame(w)
      BY WriterFrame
    <3>3. OnWay(m[1])' <=> OnWay(m[1])
      BY <2>1, <2>3, <3>2 DEF OthersSame, OnWay, Filling
    <3> QED BY <2>1, <3>1, <3>3 DEF Old
  <2> QED BY <2>2, <2>3
<1>5. ~Old(<<w, sent[w] + 1, n>>)
  <2>1. <<w, sent[w] + 1, n>>[1] = w /\ <<w, sent[w] + 1, n>>[2] = sent[w] + 1
    OBVIOUS
  <2>2. ~(sent[w] + 1 <= sent[w])
    BY <1>1, BoundAssumption
  <2> QED BY <2>1, <2>2 DEF Old
<1> QED BY <1>3, <1>4, <1>5

\* No call in the middle of its marks meets another call's number.
LEMMA NoConflict ==
  ASSUME Steady, NEW w \in Writers
  PROVE  ~MarkNextConflict(w)
<1> SUFFICES ASSUME MarkNextConflict(w) PROVE FALSE
  OBVIOUS
<1>1. pc[w] = "cont" /\ head[Idx(wc[w] + op[w].i)].seq # 0
  BY DEF MarkNextConflict, Node
<1>2. Filling(w) /\ AtWork(w)
  BY <1>1 DEF Filling, Writing, AtWork
<1>3. /\ Own(w) /\ op[w].i \in 1 .. Need(op[w].m) - 1 /\ wc[w] \in Nat /\ Need(op[w].m) \in Nat
  BY <1>1, <1>2, AtBlock, Working DEF Steady
<1>4. wc[w] + op[w].i \in Reserved(w)
  BY <1>3 DEF Reserved
<1>5. OwnHead(w, wc[w] + op[w].i)
  BY <1>3, <1>4 DEF Own
<1> QED BY <1>1, <1>3, <1>5 DEF OwnHead, Clean, CleanHead

\* Neither is the check after the publication ever too late.
LEMMA CheckInTime ==
  ASSUME Once, NEW w \in Writers, FinalCheck(w)
  PROVE  Return(w, op[w].m, "SUCCESS")
<1>1. pc[w] = "check" /\ (StillOurs(w) => Return(w, op[w].m, "SUCCESS"))
  BY DEF FinalCheck
<1>2. SeqOf(wc[w]) = op[w].seq
  BY <1>1 DEF Once, Unchecked, Untouched
<1> QED BY <1>1, <1>2 DEF StillOurs, SeqOf, First

\* A call goes on, ends or dies: what is out stays of an earlier call, and no
\* message that is out is refused.
LEMMA StepLater ==
  ASSUME Steady, Once, NEW w \in Writers, Step(w) \/ CasSpurious(w) \/ Crash(w), ~Publish(w)
  PROVE  /\ \A m : Old(m) => Old(m)'
         /\ \A m : <<m, "BUFF_LIMIT">> \in returned' => <<m, "BUFF_LIMIT">> \in returned \/ ~Old(m)
         /\ pc'[w] # "check"
<1>1. sent' = sent /\ OthersSame(w)
  <2>1. sent' = sent
    BY DEF Step, CasSpurious, Crash, Begin, LoadReadCur, CasWriteCur, CasLost, MarkFirst,
       MarkNextConflict, MarkNext, StoreSize, Fill, LoadFlag, Publish, FinalCheck, Reload, HeadOnly
  <2> QED BY <2>1, WriterFrame
<1>2. /\ OnWay(w)' => OnWay(w)
      /\ \A m : <<m, "BUFF_LIMIT">> \in returned' => <<m, "BUFF_LIMIT">> \in returned \/ ~Old(m)
      /\ pc'[w] # "check"
  <2>0. pc \in [Writers -> WriterPlaces]
    BY DEF Steady, TypeOK, WritersOK
  <2>1. CASE LoadReadCur(w)
    <3>1. OnWay(w) /\ AtWork(w)
      BY <2>1 DEF LoadReadCur, OnWay, AtWork
    <3>2. ~Old(op[w].m)
      <4>1. op[w].m[1] = w /\ op[w].m[2] = sent[w] /\ sent[w] \in Nat
        BY <3>1, BoundAssumption DEF Steady, CallsInv, TypeOK, WritersOK
      <4> QED BY <3>1, <4>1 DEF Old
    <3>3. /\ pc'[w] \in {"idle", "cas"}
          /\ returned' = returned \/ returned' = returned \cup {<<op[w].m, "BUFF_LIMIT">>}
      BY <2>0, <2>1 DEF LoadReadCur, Return, Goto
    <3> QED BY <3>1, <3>2, <3>3
  <2>2. CASE FinalCheck(w)
    <3>1. pc'[w] = "idle" /\ returned' = returned \cup {<<op[w].m, "SUCCESS">>}
      BY <2>0, <2>2, CheckInTime DEF Return, Goto
    <3> QED BY <3>1 DEF OnWay, Filling, Writing
  <2>3. CASE Crash(w)
    BY <2>0, <2>3 DEF Crash, Goto, history, OnWay, Filling, Writing
  <2>4. CASE \/ Begin(w) \/ CasWriteCur(w) \/ Reload(w) \/ MarkFirst(w) \/ MarkNext(w)
             \/ StoreSize(w) \/ Fill(w) \/ LoadFlag(w)
    <3>1. OnWay(w)
      BY <2>4 DEF Begin, CasWriteCur, Reload, MarkFirst, MarkNext, StoreSize, Fill, LoadFlag,
         OnWay, Filling, Writing
    <3>2. returned' = returned
      BY <2>4 DEF Begin, CasWriteCur, Reload, MarkFirst, MarkNext, StoreSize, Fill, LoadFlag,
         HeadOnly, history
    <3>3. pc'[w] \in {"load", "mark", "cont", "size", "fill", "flag", "publish"}
      BY <2>0, <2>4 DEF Begin, CasWriteCur, Reload, MarkFirst, MarkNext, StoreSize, Fill, LoadFlag,
         Goto
    <3> QED BY <3>1, <3>2, <3>3
  <2> QED BY <2>1, <2>2, <2>3, <2>4, NoConflict DEF Step, CasLost, CasSpurious
<1>3. \A v \in Writers : OnWay(v)' => OnWay(v)
  BY <1>1, <1>2 DEF OthersSame, OnWay, Filling
<1> QED BY <1>1, <1>2, <1>3, OldStays

\* The block that is published is the only one with its message, which has been
\* nowhere before.
LEMMA OncePublish ==
  ASSUME Steady, Once, NEW w \in Writers, Publish(w)
  PROVE  Once'
<1>1. PICK b, m, s : b = wc[w] /\ m = op[w].m /\ s = op[w].seq
  OBVIOUS
<1>2. /\ \A p : Waits(p)' <=> Waits(p) \/ p = b
      /\ \A p : Waits(p) => MsgAt(p)' = MsgAt(p) /\ SeqOf(p)' = SeqOf(p)
      /\ MsgAt(b)' = m /\ SeqOf(b)' = s /\ ~Waits(b)
      /\ HandSame /\ Front' = Front
  BY <1>1, PublishWaits
<1>3. /\ pc[w] = "publish" /\ pc'[w] = "check" /\ wc'[w] = b /\ op'[w].seq = s /\ sent' = sent
      /\ returned' = returned /\ UNCHANGED <<rpc, rb, re, delivered>> /\ OthersSame(w)
  <2>1. UNCHANGED <<rpc, rb, re, delivered>> /\ OthersSame(w)
    BY WriterFrame DEF Step
  <2> QED BY <1>1, <2>1 DEF Publish, HeadOnly, Goto, history, Steady, TypeOK, WritersOK
<1>4. /\ m \in Message /\ m[1] = w /\ m[2] = sent[w] /\ sent[w] \in Nat /\ OnWay(w)
      /\ <<m, "BUFF_LIMIT">> \notin returned /\ Front <= b
  <2>1. AtWork(w) /\ Filling(w) /\ OnWay(w)
    BY <1>3 DEF AtWork, Filling, Writing, OnWay
  <2>2. m \in Message /\ m[1] = w /\ m[2] = sent[w] /\ sent[w] \in Nat
    BY <1>1, <2>1, Working, BoundAssumption DEF Steady, CallsInv, TypeOK, WritersOK
  <2>3. <<m, "BUFF_LIMIT">> \notin returned
    BY <2>1, <2>2 DEF Steady, CallsInv
  <2>4. Front <= b
    BY <1>1, <2>1, AtBlock
  <2> QED BY <2>1, <2>2, <2>3, <2>4
<1>5. ~Old(m) /\ ~Kept(m)
  <2>1. ~Old(m)
    BY <1>4 DEF Old
  <2> QED BY <1>4, <2>1, KeptOld DEF AnyMsg
<1>6. \A x : Old(x) => Old(x)'
  <2>1. \A v \in Writers : OnWay(v)' => OnWay(v)
    BY <1>3, <1>4 DEF OthersSame, OnWay, Filling
  <2> QED BY <1>3, <2>1, OldStays
<1>7. Old(m)'
  <2>1. ~OnWay(w)'
    BY <1>3 DEF OnWay, Filling, Writing
  <2> QED BY <1>3, <1>4, <2>1 DEF Old
<1>8. \A x : InRing(x)' <=> InRing(x) \/ x = m
  <2> SUFFICES ASSUME NEW x PROVE InRing(x)' <=> InRing(x) \/ x = m
    OBVIOUS
  <2>1. ASSUME InRing(x)' PROVE InRing(x) \/ x = m
    <3>1. PICK p : Waits(p)' /\ MsgAt(p)' = x
      BY <2>1, RingHas, Zenon
    <3>2. CASE p = b
      BY <1>2, <3>1, <3>2
    <3>3. CASE Waits(p)
      BY <1>2, <3>1, <3>3, RingHas, Zenon
    <3> QED BY <1>2, <3>1, <3>2, <3>3, Zenon
  <2>2. ASSUME InRing(x) PROVE InRing(x)'
    <3>1. PICK p : Waits(p) /\ MsgAt(p) = x
      BY <2>2, RingHas, Zenon
    <3>2. Waits(p)' /\ MsgAt(p)' = x
      BY <1>2, <3>1, Zenon
    <3> QED BY <3>2, RingHas, Zenon
  <2>3. InRing(m)'
    BY <1>2, RingHas, Zenon
  <2> QED BY <2>1, <2>2, <2>3, Zenon
<1>9. \A x : InHand(x)' <=> InHand(x)
  BY <1>2, Zenon DEF HandSame
<1>10. HandedOutOnce'
  BY <1>3 DEF Once, HandedOutOnce
<1>11. ~InRing(m) /\ ~InHand(m) /\ m \notin Elements(delivered)
  BY <1>5 DEF Kept
<1>12. GoneForGood'
  <2> SUFFICES ASSUME NEW x \in Elements(delivered) PROVE (Old(x) /\ ~InRing(x) /\ ~InHand(x))'
    BY <1>3, Zenon DEF GoneForGood, Elements
  <2>1. Old(x) /\ ~InRing(x) /\ ~InHand(x) /\ x # m
    BY <1>11 DEF Once, GoneForGood
  <2> QED BY <1>6, <1>8, <1>9, <2>1
<1>13. OneBlockEach'
  <2> SUFFICES ASSUME NEW p, NEW q, Waits(p)', Waits(q)', MsgAt(p)' = MsgAt(q)'
               PROVE  p = q
    BY Zenon DEF OneBlockEach
  <2>1. \A x : Waits(x) => MsgAt(x) # m
    BY <1>11, RingHas, Zenon
  <2>2. ASSUME Waits(p), Waits(q) PROVE p = q
    BY <1>2, <2>2 DEF Once, OneBlockEach, Waits
  <2> QED BY <1>2, <2>1, <2>2
<1>14. OnePlaceEach'
  <2> SUFFICES ASSUME NEW x \in AnyMsg, InRing(x)' \/ InHand(x)'
               PROVE  Old(x)' /\ ~(InRing(x)' /\ InHand(x)')
    BY Zenon DEF OnePlaceEach
  <2>1. CASE x = m
    BY <1>7, <1>9, <1>11, <2>1
  <2>2. CASE x # m
    BY <1>6, <1>8, <1>9, <2>2 DEF Once, OnePlaceEach
  <2> QED BY <2>1, <2>2
<1>15. NotRefused'
  <2> SUFFICES ASSUME NEW x \in AnyMsg, Kept(x)' PROVE <<x, "BUFF_LIMIT">> \notin returned
    BY <1>3, Zenon DEF NotRefused
  <2>1. Kept(x) \/ x = m
    BY <1>3, <1>8, <1>9 DEF Kept, Elements
  <2> QED BY <1>4, <2>1 DEF Once, NotRefused
<1>16. Unchecked'
  <2> SUFFICES ASSUME NEW v \in Writers, pc'[v] = "check" PROVE Untouched(v)'
    BY Zenon DEF Unchecked
  <2>1. CASE v = w
    <3>1. rpc = "reset" => b # rb
      BY <1>4, AtFront, Cursors DEF Steady
    <3>2. Waits(b)'
      BY <1>2
    <3> QED BY <1>2, <1>3, <1>4, <2>1, <3>1, <3>2 DEF Untouched, SeqOf, Waits, IsPublished, Published
  <2>2. CASE v # w
    <3>1. pc'[v] = pc[v] /\ wc'[v] = wc[v] /\ op'[v] = op[v]
      BY <1>3, <2>2 DEF OthersSame
    <3>2. Untouched(v)
      BY <3>1 DEF Once, Unchecked
    <3>3. PICK c : c = wc[v]
      OBVIOUS
    <3>4. Waits(c)' /\ SeqOf(c)' = op[v].seq
      BY <1>2, <3>2, <3>3 DEF Untouched
    <3> QED BY <1>2, <1>3, <3>1, <3>2, <3>3, <3>4 DEF Untouched, SeqOf, Waits, IsPublished, Published
  <2> QED BY <2>1, <2>2
<1>17. TakenWaits'
  <2> SUFFICES ASSUME rpc = "reset", re = rb PROVE Waits(rb)'
    BY <1>3 DEF TakenWaits
  <2>1. PICK c : c = rb
    OBVIOUS
  <2>2. Waits(c)'
    BY <1>2, <2>1 DEF Once, TakenWaits
  <2> QED BY <1>3, <2>1, <2>2 DEF Waits, IsPublished, Published
<1> QED BY <1>10, <1>12, <1>13, <1>14, <1>15, <1>16, <1>17, Zenon DEF Once

\* The writers' side of the histories is as it was.
CallsSame == UNCHANGED <<pc, wc, op, sent, returned>>

\* A step of the reader that hands nothing out: nothing new waits, and what it
\* takes in hand it takes out of the ring.
LEMMA OnceReader ==
  ASSUME Once, CallsSame, delivered' = delivered,
         \A p : Waits(p)' => Waits(p) /\ MsgAt(p)' = MsgAt(p),
         \A m \in AnyMsg : InHand(m)' => InHand(m) \/ (InRing(m) /\ ~InRing(m)'),
         Unchecked', TakenWaits'
  PROVE  Once'
<1>1. \A m : InRing(m)' => InRing(m)
  <2> SUFFICES ASSUME NEW m, InRing(m)' PROVE InRing(m)
    OBVIOUS
  <2>1. PICK p : Waits(p)' /\ MsgAt(p)' = m
    BY RingHas, Zenon
  <2>2. Waits(p) /\ MsgAt(p) = m
    BY <2>1, Zenon
  <2> QED BY <2>2, RingHas, Zenon
<1>2. \A m : Old(m)' <=> Old(m)
  BY Zenon DEF Old, OnWay, Filling, CallsSame
<1>3. \A m \in AnyMsg : Kept(m)' => Kept(m)
  BY <1>1, Zenon DEF Kept
<1>4. HandedOutOnce'
  BY DEF Once, HandedOutOnce
<1>5. GoneForGood'
  <2> SUFFICES ASSUME NEW m \in Elements(delivered) PROVE (Old(m) /\ ~InRing(m) /\ ~InHand(m))'
    BY Zenon DEF GoneForGood, Elements
  <2>1. Old(m) /\ ~InRing(m) /\ ~InHand(m)
    BY DEF Once, GoneForGood
  <2>2. m \in AnyMsg
    BY <2>1 DEF Old, AnyMsg
  <2> QED BY <1>1, <1>2, <2>1, <2>2
<1>6. OneBlockEach'
  <2> SUFFICES ASSUME NEW p, NEW q, Waits(p)', Waits(q)', MsgAt(p)' = MsgAt(q)' PROVE p = q
    BY Zenon DEF OneBlockEach
  <2>1. Waits(p) /\ Waits(q) /\ MsgAt(p) = MsgAt(q)
    OBVIOUS
  <2> QED BY <2>1 DEF Once, OneBlockEach, Waits
<1>7. OnePlaceEach'
  <2> SUFFICES ASSUME NEW m \in AnyMsg, InRing(m)' \/ InHand(m)'
               PROVE  Old(m)' /\ ~(InRing(m)' /\ InHand(m)')
    BY Zenon DEF OnePlaceEach
  <2> QED BY <1>1, <1>2 DEF Once, OnePlaceEach
<1>8. NotRefused'
  BY <1>3, Zenon DEF Once, NotRefused, CallsSame
<1> QED BY <1>4, <1>5, <1>6, <1>7, <1>8, Zenon DEF Once

\* The steps of the scan, from one node to the next, to the end or to a block.
LEMMA ScanForm ==
  ASSUME Steady, Calm', ScanEnd \/ ScanSkip \/ ScanWait \/ ScanTimeout \/ ScanBlock
  PROVE  /\ rpc = "scan" /\ UNCHANGED <<rpos, wpos, head, blk, delivered>> /\ CallsSame
         /\ \/ rpc' = "clean" /\ re' = rb /\ rb' = rb
            \/ rpc' = "scan" /\ rb' = rb + 1 /\ ~IsPublished(rb)
            \/ /\ rpc' = "reset" /\ re' = rb /\ rb' = rb
               /\ rb \in Used /\ IsPublished(rb) /\ Front' = rb + Need(MsgAt(rb))
<1>1. rpc = "scan" /\ UNCHANGED <<rpos, wpos, head, blk, delivered>> /\ CallsSame
  BY DEF ScanEnd, ScanSkip, ScanWait, ScanTimeout, ScanBlock, AtUnwritten, ReaderOnly, writerV, CallsSame
<1>2. CASE ScanEnd \/ ScanWait
  BY <1>1, <1>2 DEF ScanEnd, ScanWait, LeaveScan, RGoto
<1>3. CASE ScanSkip \/ ScanTimeout
  BY <1>1, <1>3 DEF ScanSkip, ScanTimeout, AtUnwritten, NextNode, RGoto, IsPublished, Published
<1>4. CASE ScanBlock
  BY <1>1, <1>4, BlocksScanBlock
<1> QED BY <1>1, <1>2, <1>3, <1>4

\* What waits stays while no head, no block and no cursor changes.
LEMMA HeadsSameWaits == UNCHANGED <<rpos, wpos, head, blk>> => WaitsSame
<1> SUFFICES ASSUME UNCHANGED <<rpos, wpos, head, blk>> PROVE WaitsSame
  OBVIOUS
<1> QED BY Zenon DEF WaitsSame, Waits, Used, IsPublished, Published, MsgAt, SeqOf

\* A published block is left alone until its writer has checked it: by a step
\* after which the reader's front is not behind it.
LEMMA StillUntouched ==
  ASSUME Once, CallsSame, WaitsSame,
         \A w \in Writers : pc[w] = "check" =>
           IF rpc' = "reset" /\ wc[w] = rb' THEN re' = rb' ELSE Front' <= wc[w]
  PROVE  Unchecked'
<1> SUFFICES ASSUME NEW w \in Writers, pc'[w] = "check" PROVE Untouched(w)'
  BY Zenon DEF Unchecked
<1>1. pc[w] = "check" /\ wc' = wc /\ op' = op
  BY DEF CallsSame
<1>2. PICK b : b = wc[w]
  OBVIOUS
<1>3. Waits(b) /\ SeqOf(b) = op[w].seq
  BY <1>1, <1>2 DEF Once, Unchecked, Untouched
<1>4. Waits(b)' /\ SeqOf(b)' = op[w].seq
  BY <1>3, Zenon DEF WaitsSame
<1> QED BY <1>1, <1>2, <1>4 DEF Untouched, SeqOf, Waits, IsPublished, Published

\* The scan takes nothing away.
LEMMA OnceScan ==
  ASSUME Steady, Calm', Once, ScanEnd \/ ScanSkip \/ ScanWait \/ ScanTimeout \/ ScanBlock
  PROVE  Once'
<1>1. /\ rpc = "scan" /\ UNCHANGED <<rpos, wpos, head, blk, delivered>> /\ CallsSame
      /\ \/ rpc' = "clean" /\ re' = rb /\ rb' = rb
         \/ rpc' = "scan" /\ rb' = rb + 1 /\ ~IsPublished(rb)
         \/ /\ rpc' = "reset" /\ re' = rb /\ rb' = rb
            /\ rb \in Used /\ IsPublished(rb) /\ Front' = rb + Need(MsgAt(rb))
  BY ScanForm
<1>2. WaitsSame
  BY <1>1, HeadsSameWaits
<1>3. \A m : ~InHand(m)'
  BY <1>1, Zenon DEF InHand
<1>4. Front = rb /\ rb \in Nat
  BY <1>1, AtFront, Cursors DEF Steady
<1>5. ASSUME NEW w \in Writers, pc[w] = "check"
      PROVE  IF rpc' = "reset" /\ wc[w] = rb' THEN re' = rb' ELSE Front' <= wc[w]
  <2>1. rb <= wc[w] /\ Waits(wc[w]) /\ wc[w] \in Nat
    BY <1>1, <1>4, <1>5, WaitingNode DEF Once, Unchecked, Untouched
  <2>2. CASE rpc' = "clean" /\ re' = rb
    BY <2>1, <2>2 DEF Front
  <2>3. CASE rpc' = "scan" /\ rb' = rb + 1 /\ ~IsPublished(rb)
    <3>1. rb # wc[w]
      BY <2>1, <2>3 DEF Waits
    <3> QED BY <1>4, <2>1, <2>3, <3>1 DEF Front
  <2>4. CASE /\ rpc' = "reset" /\ re' = rb /\ rb' = rb
             /\ rb \in Used /\ IsPublished(rb) /\ Front' = rb + Need(MsgAt(rb))
    <3>1. CASE wc[w] = rb
      BY <2>4, <3>1
    <3>2. CASE wc[w] # rb
      <4>1. \/ rb + Need(MsgAt(rb)) <= wc[w]
            \/ wc[w] + Need(MsgAt(wc[w])) <= rb
        BY <2>1, <2>4, <3>2, PublishedBlocksApart DEF Waits
      <4>2. Need(MsgAt(wc[w])) \in Nat /\ Need(MsgAt(wc[w])) > 0
        BY <2>1, AtPublished DEF Waits
      <4> QED BY <1>4, <2>1, <2>4, <3>2, <4>1, <4>2
    <3> QED BY <3>1, <3>2
  <2> QED BY <1>1, <2>2, <2>3, <2>4
<1>6. Unchecked'
  BY <1>1, <1>2, <1>5, StillUntouched
<1>7. TakenWaits'
  <2>1. rpc' = "reset" => Waits(rb) /\ rb' = rb
    BY <1>1 DEF Waits
  <2> QED BY <1>1, <2>1 DEF TakenWaits, Waits, Used, IsPublished, Published
<1> QED BY <1>1, <1>2, <1>3, <1>6, <1>7, OnceReader DEF WaitsSame

\* A call of mem_recv begins, or the clock ticks, or nothing happens.
LEMMA OnceIdle ==
  ASSUME Steady, Once, CallsSame, delivered' = delivered, UNCHANGED <<rpos, wpos, head, blk>>,
         \/ UNCHANGED <<rpc, rb, re, rw, rv, data>>
         \/ Recv
         \/ ReaderCrash
  PROVE  Once'
<1>1. WaitsSame
  BY HeadsSameWaits
<1>2. \A m : InHand(m)' => InHand(m)
  <2>1. CASE UNCHANGED <<rpc, rb, re, rw, rv, data>>
    <3>1. MsgAt(rb)' = MsgAt(rb)
      BY <2>1 DEF MsgAt
    <3> QED BY <2>1, <3>1, HandsAsBefore DEF HandSame
  <2>2. CASE Recv \/ ReaderCrash
    <3>1. rpc' \in {"idle", "scan"}
      BY <2>2 DEF Recv, ReaderCrash, RGoto
    <3> QED BY <3>1 DEF InHand
  <2> QED BY <2>1, <2>2
<1>3. ASSUME NEW w \in Writers, pc[w] = "check"
      PROVE  IF rpc' = "reset" /\ wc[w] = rb' THEN re' = rb' ELSE Front' <= wc[w]
  <2>1. (IF rpc = "reset" /\ wc[w] = rb THEN re = rb ELSE Front <= wc[w]) /\ Waits(wc[w])
    BY <1>3 DEF Once, Unchecked, Untouched
  <2>2. rpos <= wc[w]
    BY <2>1, WaitingNode
  <2>3. CASE UNCHANGED <<rpc, rb, re, rw, rv, data>>
    <3>1. Front' = Front
      BY <2>3 DEF Front, InHandSize
    <3> QED BY <2>1, <2>3, <3>1
  <2>4. CASE Recv \/ ReaderCrash
    <3>1. /\ rpc' = "idle" \/ (rpc' = "scan" /\ rb' = rpos)
          /\ rpos' = rpos
      BY <2>4 DEF Recv, ReaderCrash, RGoto
    <3> QED BY <2>2, <3>1 DEF Front
  <2> QED BY <2>3, <2>4
<1>4. Unchecked'
  BY <1>1, <1>3, StillUntouched
<1>5. TakenWaits'
  <2>1. CASE UNCHANGED <<rpc, rb, re, rw, rv, data>>
    <3>1. PICK b : b = rb
      OBVIOUS
    <3>2. rpc = "reset" /\ re = rb => Waits(b)'
      BY <1>1, <3>1 DEF WaitsSame, Once, TakenWaits
    <3> QED BY <2>1, <3>1, <3>2 DEF TakenWaits, Waits, IsPublished, Published
  <2>2. CASE Recv \/ ReaderCrash
    <3>1. rpc' # "reset"
      BY <2>2 DEF Recv, ReaderCrash, RGoto
    <3> QED BY <3>1 DEF TakenWaits
  <2> QED BY <2>1, <2>2
<1> QED BY <1>1, <1>2, <1>4, <1>5, OnceReader DEF WaitsSame

\* The block in hand becomes the result of the call.
LEMMA TakeWaits ==
  ASSUME Steady, TakeBlock
  PROVE  WaitsSame /\ HandSame /\ CallsSame /\ delivered' = delivered
<1>1. /\ WritersSame /\ UNCHANGED <<rpos, head, rb, re, rw>> /\ rpc' = "clean" /\ rpc = "reset"
      /\ rv' = [rv EXCEPT !.i = rpos, !.m = MsgAt(rb), !.ret = "OK"]
      /\ ResetInv
  BY TakesWhole
<1>2. CallsSame /\ delivered' = delivered
  BY DEF TakeBlock, ReaderOnly, writerV, CallsSame
<1>3. WaitsSame
  BY <1>1, HeadsSameWaits DEF WritersSame
<1>4. rv'.m = MsgAt(rb) /\ rv'.ret = "OK" /\ rv.ret = "OK"
  BY <1>1 DEF Steady, TypeOK, ReaderOK, RvType, ResetInv
<1>5. HandSame
  BY <1>1, <1>4, Zenon DEF HandSame, InHand, MsgAt
<1> QED BY <1>2, <1>3, <1>5

\* It has been checked by its writer before.
LEMMA OnceTake ==
  ASSUME Steady, Once, TakeBlock
  PROVE  Once'
<1>1. /\ rpc' = "clean" /\ rpc = "reset" /\ UNCHANGED <<rb, re>>
      /\ re = rb + InHandSize /\ re # rb
  BY TakesWhole
<1>2. WaitsSame /\ HandSame /\ CallsSame /\ delivered' = delivered
  BY TakeWaits
<1>3. Front = re /\ Front' = re
  BY <1>1, AtFront DEF Front
<1>4. ASSUME NEW w \in Writers, pc[w] = "check"
      PROVE  IF rpc' = "reset" /\ wc[w] = rb' THEN re' = rb' ELSE Front' <= wc[w]
  BY <1>1, <1>3, <1>4 DEF Once, Unchecked, Untouched
<1>5. Unchecked'
  BY <1>2, <1>4, StillUntouched
<1>6. TakenWaits'
  BY <1>1 DEF TakenWaits
<1> QED BY <1>2, <1>5, <1>6, OnceReader DEF WaitsSame, HandSame

\* Freeing a head takes at most the block in hand out of the ring.
LEMMA ResetWaits ==
  ASSUME Steady, ResetNode, NEW b, b = rb
  PROVE  /\ \A p : Waits(p)' <=> Waits(p) /\ p # re
         /\ \A p : Waits(p)' => MsgAt(p)' = MsgAt(p) /\ SeqOf(p)' = SeqOf(p)
         /\ Waits(re) => re = rb
         /\ \A m : InHand(m)' <=> m = MsgAt(b)
         /\ rpc = "reset" /\ rpc' = "reset" /\ rb' = rb /\ re' = re + 1 /\ rb <= re
         /\ rb \in Nat /\ re \in Nat /\ re < Front
         /\ Front' = Front /\ CallsSame /\ delivered' = delivered
<1>1. /\ UNCHANGED <<rpos, wpos, blk, rpc, rb, rv, delivered>> /\ CallsSame
      /\ rpc = "reset" /\ re' = re + 1
  BY DEF ResetNode, ReaderOnly, writerV, CallsSame
<1>2. /\ Front' = Front /\ rb <= re /\ re < Front /\ re \in Used /\ MsgAt(rb)' = MsgAt(rb)
      /\ \A p \in Used : IsPublished(p) /\ rb < p /\ p < Front => FALSE
      /\ \A p \in rpos .. rpos + NodeCount - 1 :
              head'[Idx(p)] = IF p = re THEN CleanHead ELSE head[Idx(p)]
  BY BlocksResetNode
<1>3. rb \in Nat /\ re \in Nat /\ rv.ret = "OK"
  BY <1>1, Cursors DEF Steady, Blocks, ReaderInv, ResetInv
<1>4. Used' = Used
  BY <1>1 DEF Used
<1>5. ASSUME NEW p \in Used
      PROVE  /\ IsPublished(p)' <=> IsPublished(p) /\ p # re
             /\ MsgAt(p)' = MsgAt(p)
             /\ p # re => SeqOf(p)' = SeqOf(p)
  <2>1. p \in rpos .. rpos + NodeCount - 1
    BY UsedInRing DEF Steady
  <2>2. head'[Idx(p)] = IF p = re THEN CleanHead ELSE head[Idx(p)]
    BY <1>2, <2>1
  <2> QED BY <1>1, <2>2 DEF IsPublished, Published, MsgAt, SeqOf, CleanHead
<1>6. \A p : Waits(p)' <=> Waits(p) /\ p # re
  BY <1>4, <1>5, Zenon DEF Waits
<1>7. \A p : Waits(p)' => MsgAt(p)' = MsgAt(p) /\ SeqOf(p)' = SeqOf(p)
  BY <1>4, <1>5, <1>6, Zenon DEF Waits
<1>8. Waits(re) => re = rb
  BY <1>2, <1>3 DEF Waits
<1>9. ASSUME NEW m PROVE InHand(m)' <=> m = MsgAt(b)
  <2>1. re' # rb' /\ rpc' = "reset" /\ rv'.ret = "OK" /\ MsgAt(b) = blk'[Idx(rb')].check
    BY <1>1, <1>2, <1>3 DEF MsgAt
  <2> QED BY <2>1 DEF InHand
<1> QED BY <1>1, <1>2, <1>3, <1>6, <1>7, <1>8, <1>9

\* The block is taken in hand with its first node, whose writer has checked it.
LEMMA OnceReset ==
  ASSUME Steady, Once, ResetNode, CalmNoLate'
  PROVE  Once'
<1>1. PICK b : b = rb
  OBVIOUS
<1>2. /\ \A p : Waits(p)' <=> Waits(p) /\ p # re
      /\ \A p : Waits(p)' => MsgAt(p)' = MsgAt(p) /\ SeqOf(p)' = SeqOf(p)
      /\ Waits(re) => re = rb
      /\ \A m : InHand(m)' <=> m = MsgAt(b)
      /\ rpc = "reset" /\ rpc' = "reset" /\ rb' = rb /\ re' = re + 1 /\ rb <= re
      /\ rb \in Nat /\ re \in Nat /\ re < Front
      /\ Front' = Front /\ CallsSame /\ delivered' = delivered
  BY <1>1, ResetWaits
<1>3. rv.ret = "OK"
  BY <1>2 DEF Steady, Blocks, ReaderInv, ResetInv
<1>4. \A w \in Writers : pc[w] = "check" => wc[w] # re
  <2>1. OwnersAt(re, {"check"}) = {}
    BY DEF ResetNode, CalmNoLate, Without
  <2> QED BY <2>1 DEF OwnersAt
<1>5. ASSUME NEW m \in AnyMsg, InHand(m)'
      PROVE  InHand(m) \/ (InRing(m) /\ ~InRing(m)')
  <2>1. m = MsgAt(b)
    BY <1>2, <1>5
  <2>2. CASE re # rb
    BY <1>1, <1>2, <1>3, <2>1, <2>2 DEF InHand, MsgAt
  <2>3. CASE re = rb
    <3>1. Waits(b)
      BY <1>1, <1>2, <2>3 DEF Once, TakenWaits
    <3>2. InRing(m)
      BY <2>1, <3>1, RingHas, Zenon
    <3>3. ASSUME InRing(m)' PROVE FALSE
      <4>1. PICK p : Waits(p)' /\ MsgAt(p)' = m
        BY <3>3, RingHas, Zenon
      <4>2. Waits(p) /\ MsgAt(p) = m /\ p # b
        BY <1>1, <1>2, <2>3, <4>1
      <4> QED BY <2>1, <3>1, <4>2 DEF Once, OneBlockEach, Waits
    <3> QED BY <3>2, <3>3
  <2> QED BY <2>2, <2>3
<1>6. Unchecked'
  <2> SUFFICES ASSUME NEW w \in Writers, pc'[w] = "check" PROVE Untouched(w)'
    BY Zenon DEF Unchecked
  <2>1. pc[w] = "check" /\ wc' = wc /\ op' = op /\ Untouched(w) /\ wc[w] # re
    BY <1>2, <1>4 DEF CallsSame, Once, Unchecked
  <2>2. PICK c : c = wc[w]
    OBVIOUS
  <2>3. Waits(c)' /\ SeqOf(c)' = op[w].seq
    BY <1>2, <2>1, <2>2 DEF Untouched
  <2>4. Front <= wc[w] /\ wc[w] # rb
    <3>1. wc[w] # rb
      BY <1>2, <2>1 DEF Untouched
    <3> QED BY <2>1, <3>1 DEF Untouched
  <2> QED BY <1>2, <2>1, <2>2, <2>3, <2>4 DEF Untouched, SeqOf, Waits, IsPublished, Published
<1>7. TakenWaits'
  BY <1>2 DEF TakenWaits
<1> QED BY <1>2, <1>5, <1>6, <1>7, OnceReader

\* A node that was stepped over holds nothing that waits.
LEMMA CleanWaits ==
  ASSUME Steady, CleanNode
  PROVE  WaitsSame /\ HandSame /\ Front' = Front /\ CallsSame /\ delivered' = delivered
         /\ rpc' = "clean" /\ rpc = "clean"
<1>1. /\ UNCHANGED <<rpos, wpos, blk, rpc, rb, re, delivered>> /\ CallsSame /\ rpc = "clean"
  BY DEF CleanNode, ReaderOnly, writerV, CallsSame
<1>2. /\ Front' = Front /\ rv'.ret = rv.ret /\ rv'.m = rv.m
      /\ \A p \in Used : IsPublished(p) => rv.i < p
      /\ rv.i \in Used
      /\ \A p \in rpos .. rpos + NodeCount - 1 :
           head'[Idx(p)] = IF p = rv.i THEN CleanHead ELSE head[Idx(p)]
  BY BlocksCleanNode
<1>3. rv.i \in Nat
  BY <1>2, UsedInRing DEF Steady
<1>4. ASSUME NEW p \in Used
      PROVE  /\ IsPublished(p)' <=> IsPublished(p)
             /\ IsPublished(p) => MsgAt(p)' = MsgAt(p) /\ SeqOf(p)' = SeqOf(p)
  <2>1. head'[Idx(p)] = IF p = rv.i THEN CleanHead ELSE head[Idx(p)]
    BY <1>2, UsedInRing DEF Steady
  <2>2. p = rv.i => ~IsPublished(p)
    BY <1>2, <1>3
  <2> QED BY <1>1, <2>1, <2>2 DEF IsPublished, Published, MsgAt, SeqOf, CleanHead
<1>5. Used' = Used
  BY <1>1 DEF Used
<1>6. WaitsSame
  BY <1>4, <1>5, Zenon DEF WaitsSame, Waits
<1>7. HandSame
  BY <1>1, <1>2, HandsAsBefore
<1> QED BY <1>1, <1>2, <1>6, <1>7

\* Cleaning loses nothing.
LEMMA OnceClean ==
  ASSUME Steady, Once, CleanNode
  PROVE  Once'
<1>1. WaitsSame /\ HandSame /\ Front' = Front /\ CallsSame /\ delivered' = delivered
      /\ rpc' = "clean" /\ rpc = "clean"
  BY CleanWaits
<1>2. ASSUME NEW w \in Writers, pc[w] = "check"
      PROVE  IF rpc' = "reset" /\ wc[w] = rb' THEN re' = rb' ELSE Front' <= wc[w]
  BY <1>1, <1>2 DEF Once, Unchecked, Untouched
<1>3. Unchecked'
  BY <1>1, <1>2, StillUntouched
<1>4. TakenWaits'
  BY <1>1 DEF TakenWaits
<1> QED BY <1>1, <1>3, <1>4, OnceReader DEF WaitsSame, HandSame

\* The read cursor is published: what is handed out was in hand, and all that
\* waits goes on waiting.
LEMMA StoreWaits ==
  ASSUME Steady, StoreReadCur
  PROVE  /\ WaitsSame /\ CallsSame /\ rpc = "clean" /\ rpc' = "idle" /\ Front' = Front
         /\ \A m : ~InHand(m)'
         /\ \A m : InHand(m) <=> rv.ret = "OK" /\ m = rv.m
         /\ delivered' = IF rv.ret = "OK" THEN Append(delivered, rv.m) ELSE delivered
<1>1. /\ UNCHANGED <<wpos, head, blk>> /\ CallsSame /\ rpc = "clean" /\ rpc' = "idle"
      /\ delivered' = IF rv.ret = "OK" THEN Append(delivered, rv.m) ELSE delivered
  BY DEF StoreReadCur, RGoto, writerV, CallsSame
<1>2. /\ Front' = Front /\ Used' \subseteq Used
      /\ \A p \in Used : IsPublished(p) => p \in Used'
  BY BlocksStoreReadCur
<1>3. \A p : /\ IsPublished(p)' <=> IsPublished(p)
             /\ MsgAt(p)' = MsgAt(p) /\ SeqOf(p)' = SeqOf(p)
  BY <1>1, Zenon DEF IsPublished, Published, MsgAt, SeqOf
<1>4. WaitsSame
  BY <1>2, <1>3 DEF WaitsSame, Waits
<1>5. \A m : ~InHand(m)'
  BY <1>1 DEF InHand
<1>6. rv.ret = "OK" => re # rb
  BY <1>1 DEF Steady, Blocks, ReaderInv, CleanInv
<1>7. \A m : InHand(m) <=> rv.ret = "OK" /\ m = rv.m
  BY <1>1, <1>6 DEF InHand
<1> QED BY <1>1, <1>2, <1>4, <1>5, <1>7

\* A longer list has one element more.
LEMMA OneMore ==
  ASSUME NEW S, NEW s \in Seq(S), NEW x
  PROVE  /\ Elements(Append(s, x)) = Elements(s) \cup {x}
         /\ (\A i, j \in DOMAIN s : s[i] = s[j] => i = j) /\ x \notin Elements(s)
              => \A i, j \in DOMAIN Append(s, x) : Append(s, x)[i] = Append(s, x)[j] => i = j
<1>1. /\ DOMAIN Append(s, x) = DOMAIN s \cup {Len(s) + 1} /\ Append(s, x)[Len(s) + 1] = x
      /\ \A i \in DOMAIN s : Append(s, x)[i] = s[i]
  OBVIOUS
<1>2. Elements(Append(s, x)) = Elements(s) \cup {x}
  BY <1>1 DEF Elements
<1>3. ASSUME \A i, j \in DOMAIN s : s[i] = s[j] => i = j, x \notin Elements(s),
             NEW i \in DOMAIN Append(s, x), NEW j \in DOMAIN Append(s, x),
             Append(s, x)[i] = Append(s, x)[j]
      PROVE  i = j
  <2>1. \A k \in DOMAIN s : s[k] # x
    BY <1>3, Zenon DEF Elements
  <2> QED BY <1>1, <1>3, <2>1
<1> QED BY <1>2, <1>3

\* What is handed out has not been handed out before.
LEMMA OnceStore ==
  ASSUME Steady, Once, StoreReadCur
  PROVE  Once'
<1>1. /\ WaitsSame /\ CallsSame /\ rpc = "clean" /\ rpc' = "idle" /\ Front' = Front
      /\ \A m : ~InHand(m)'
      /\ \A m : InHand(m) <=> rv.ret = "OK" /\ m = rv.m
      /\ delivered' = IF rv.ret = "OK" THEN Append(delivered, rv.m) ELSE delivered
  BY StoreWaits
<1>2. ASSUME NEW w \in Writers, pc[w] = "check"
      PROVE  IF rpc' = "reset" /\ wc[w] = rb' THEN re' = rb' ELSE Front' <= wc[w]
  BY <1>1, <1>2 DEF Once, Unchecked, Untouched
<1>3. Unchecked' /\ TakenWaits'
  BY <1>1, <1>2, StillUntouched DEF TakenWaits
<1>4. CASE rv.ret # "OK"
  BY <1>1, <1>3, <1>4, OnceReader DEF WaitsSame
<1>5. CASE rv.ret = "OK"
  <2>1. PICK x : x = rv.m
    OBVIOUS
  <2>2. x \in AnyMsg /\ InHand(x) /\ delivered' = Append(delivered, x)
    BY <1>1, <1>5, <2>1 DEF Steady, TypeOK, ReaderOK, RvType
  <2>3. Old(x) /\ ~InRing(x) /\ x \notin Elements(delivered)
    BY <2>2 DEF Once, OnePlaceEach, GoneForGood
  <2>4. /\ Elements(delivered') = Elements(delivered) \cup {x}
        /\ HandedOutOnce'
    BY <2>2, <2>3, OneMore DEF Steady, TypeOK, HistoryOK, Once, HandedOutOnce
  <2>5. \A m : (InRing(m)' <=> InRing(m)) /\ (Old(m)' <=> Old(m))
    <3>1. \A m : Old(m)' <=> Old(m)
      BY <1>1, Zenon DEF Old, OnWay, Filling, CallsSame
    <3> QED BY <1>1, <3>1, RingHasSame
  <2>6. Elements(delivered)' = Elements(delivered) \cup {x}
    BY <2>4 DEF Elements
  <2>7. GoneForGood'
    BY <1>1, <2>3, <2>5, <2>6 DEF Once, GoneForGood
  <2>8. OnePlaceEach'
    BY <1>1, <2>5 DEF Once, OnePlaceEach
  <2>9. NotRefused'
    <3> SUFFICES ASSUME NEW m \in AnyMsg, Kept(m)' PROVE <<m, "BUFF_LIMIT">> \notin returned
      BY <1>1, Zenon DEF NotRefused, CallsSame
    <3>1. Kept(m)
      BY <1>1, <2>2, <2>5, <2>6 DEF Kept
    <3> QED BY <3>1 DEF Once, NotRefused
  <2>10. OneBlockEach'
    BY <1>1, Zenon DEF Once, OneBlockEach, WaitsSame, Waits
  <2> QED BY <1>3, <2>4, <2>7, <2>8, <2>9, <2>10, Zenon DEF Once
<1> QED BY <1>4, <1>5

\* The histories start empty, with nobody in a call.
LEMMA OnceInit == Init => OnceInv /\ LossInv
<1> SUFFICES ASSUME Init PROVE Once /\ Safe
  BY DEF OnceInv, LossInv
<1>1. /\ delivered = <<>> /\ returned = {} /\ rpc = "idle" /\ Used = {}
      /\ \A w \in Writers : pc[w] = "idle"
  <2>1. wpos = rpos /\ rpos \in Nat
    BY StartAssumption DEF Init
  <2> QED BY <2>1 DEF Init, Used
<1>2. \A m : ~InRing(m) /\ ~InHand(m)
  BY <1>1 DEF InRing, InHand, Used
<1>3. Elements(delivered) = {}
  BY <1>1 DEF Elements
<1> QED BY <1>1, <1>2, <1>3
    DEF Once, Safe, HandedOutOnce, GoneForGood, OneBlockEach, OnePlaceEach, NotRefused, Unchecked,
        TakenWaits, Accepted

\* Every step keeps every message in one place.
LEMMA OnceNext ==
  ASSUME TypeOK, RoomInv, CallsInv, BlocksInv, OnceInv,
         TypeOK', RoomInv', CallsInv', BlocksInv', [Next]_vars
  PROVE  OnceInv'
<1> SUFFICES ASSUME CalmNoLate' PROVE Once'
  BY DEF OnceInv
<1>1. CalmNoLate /\ Calm /\ Calm'
  BY WindowsStay DEF CalmNoLate, Calm, Without
<1>2. Steady /\ Steady' /\ Once
  BY <1>1 DEF Steady, BlocksInv, OnceInv
<1>3. ASSUME NEW w \in Writers, Send(w) \/ Step(w) \/ CasSpurious(w) \/ Crash(w) PROVE Once'
  <2>1. CASE Publish(w)
    BY <1>2, <2>1, OncePublish
  <2>2. CASE ~Publish(w)
    <3>1. WaitsSame /\ HandSame /\ Front' = Front
      BY <1>2, <1>3, <2>2, WriterWaits
    <3>2. UNCHANGED <<rpc, rb, re, delivered>> /\ OthersSame(w)
      BY <1>2, <1>3, WriterFrame
    <3>3. /\ \A m : Old(m) => Old(m)'
          /\ \A m : <<m, "BUFF_LIMIT">> \in returned' => <<m, "BUFF_LIMIT">> \in returned \/ ~Old(m)
          /\ pc'[w] # "check"
      BY <1>2, <1>3, <2>2, SendLater, StepLater
    <3> QED BY <1>2, <3>1, <3>2, <3>3, OnceWriter
  <2> QED BY <2>1, <2>2
<1>4. CASE ScanEnd \/ ScanSkip \/ ScanWait \/ ScanTimeout \/ ScanBlock
  BY <1>1, <1>2, <1>4, OnceScan
<1>5. CASE Recv \/ ReaderCrash \/ Tick \/ UNCHANGED vars
  <2>1. /\ CallsSame /\ delivered' = delivered /\ UNCHANGED <<rpos, wpos, head, blk>>
        /\ UNCHANGED <<rpc, rb, re, rw, rv, data>> \/ Recv \/ ReaderCrash
    BY <1>5 DEF Recv, ReaderCrash, Tick, vars, shared, writerV, readerV, history, CallsSame
  <2> QED BY <1>2, <2>1, OnceIdle
<1>6. CASE ResetNode \/ TakeBlock \/ CleanNode \/ StoreReadCur
  BY <1>2, <1>6, OnceReset, OnceTake, OnceClean, OnceStore
<1> QED BY <1>3, <1>4, <1>5, <1>6 DEF Next, ReaderStep

\* Without a crash of the reader, what is somewhere stays somewhere.
LEMMA KeptStays ==
  ASSUME Steady, Steady', [Next]_vars, CalmNoCrash'
  PROVE  \A m : Kept(m) => Kept(m)'
<1>1. ASSUME WaitsSame, HandSame, delivered' = delivered PROVE \A m : Kept(m) => Kept(m)'
  BY <1>1, RingHasSame, Zenon DEF Kept, HandSame
<1>2. Calm'
  BY DEF CalmNoCrash, Calm, Without
<1>3. ASSUME NEW w \in Writers, Send(w) \/ Step(w) \/ CasSpurious(w) \/ Crash(w)
      PROVE  \A m : Kept(m) => Kept(m)'
  <2>1. delivered' = delivered
    BY <1>3, WriterFrame
  <2>2. CASE ~Publish(w)
    BY <1>1, <1>3, <2>1, <2>2, WriterWaits
  <2>3. CASE Publish(w)
    <3>1. PICK b : b = wc[w]
      OBVIOUS
    <3>2. /\ \A p : Waits(p) => Waits(p)' /\ MsgAt(p)' = MsgAt(p)
          /\ HandSame
      BY <2>3, <3>1, PublishWaits
    <3>3. \A m : InRing(m) => InRing(m)'
      <4> SUFFICES ASSUME NEW m, InRing(m) PROVE InRing(m)'
        OBVIOUS
      <4>1. PICK p : Waits(p) /\ MsgAt(p) = m
        BY RingHas, Zenon
      <4>2. Waits(p)' /\ MsgAt(p)' = m
        BY <3>2, <4>1, Zenon
      <4> QED BY <4>2, RingHas, Zenon
    <3> QED BY <2>1, <3>2, <3>3, Zenon DEF Kept, HandSame
  <2> QED BY <2>2, <2>3
<1>4. CASE ScanEnd \/ ScanSkip \/ ScanWait \/ ScanTimeout \/ ScanBlock
  <2>1. /\ rpc = "scan" /\ UNCHANGED <<rpos, wpos, head, blk, delivered>>
        /\ rpc' \in {"clean", "scan", "reset"}
    BY <1>2, <1>4, ScanForm
  <2>2. WaitsSame /\ \A m : ~InHand(m)
    BY <2>1, HeadsSameWaits DEF InHand
  <2> QED BY <2>1, <2>2, RingHasSame, Zenon DEF Kept
<1>5. CASE Recv \/ ReaderCrash
  <2>1. UNCHANGED <<rpos, wpos, head, blk, delivered>>
    BY <1>5 DEF Recv, ReaderCrash, shared, history
  <2>2. WaitsSame
    BY <2>1, HeadsSameWaits
  <2>3. re = rb \/ rpc = "idle"
    BY <1>5 DEF Recv, ReaderCrash, CalmNoCrash, Without
  <2>4. \A m : ~InHand(m)
    BY <2>3 DEF InHand
  <2> QED BY <2>1, <2>2, <2>4, RingHasSame, Zenon DEF Kept
<1>6. CASE Tick \/ UNCHANGED vars
  <2>1. RingSame /\ delivered' = delivered
    BY <1>6 DEF Tick, vars, shared, readerV, history, RingSame
  <2> QED BY <1>1, <2>1, SameWaits
<1>7. CASE ResetNode
  <2>1. PICK b : b = rb
    OBVIOUS
  <2>2. /\ \A p : Waits(p)' <=> Waits(p) /\ p # re
        /\ \A p : Waits(p)' => MsgAt(p)' = MsgAt(p) /\ SeqOf(p)' = SeqOf(p)
        /\ Waits(re) => re = b
        /\ \A m : InHand(m)' <=> m = MsgAt(b)
        /\ rpc = "reset" /\ delivered' = delivered
    BY <1>7, <2>1, ResetWaits
  <2>3. \A m : InHand(m) => InHand(m)'
    BY <2>1, <2>2 DEF InHand, MsgAt
  <2>4. \A m : InRing(m) => InRing(m)' \/ InHand(m)'
    <3> SUFFICES ASSUME NEW m, InRing(m), ~InHand(m)' PROVE InRing(m)'
      OBVIOUS
    <3>1. PICK p : Waits(p) /\ MsgAt(p) = m
      BY RingHas, Zenon
    <3>2. Waits(p)' /\ MsgAt(p)' = m
      BY <2>2, <3>1
    <3> QED BY <3>2, RingHas, Zenon
  <2> QED BY <2>2, <2>3, <2>4, Zenon DEF Kept
<1>8. CASE TakeBlock
  BY <1>1, <1>8, TakeWaits
<1>9. CASE CleanNode
  BY <1>1, <1>9, CleanWaits
<1>10. CASE StoreReadCur
  <2>1. /\ WaitsSame
        /\ \A m : InHand(m) <=> rv.ret = "OK" /\ m = rv.m
        /\ delivered' = IF rv.ret = "OK" THEN Append(delivered, rv.m) ELSE delivered
    BY <1>10, StoreWaits
  <2>2. \A m : m \in Elements(delivered) \/ InHand(m) => m \in Elements(delivered')
    <3>1. delivered \in Seq(AnyMsg)
      BY DEF Steady, TypeOK, HistoryOK
    <3> QED BY <2>1, <3>1, OneMore
  <2> QED BY <2>1, <2>2, RingHasSame, Zenon DEF Kept, Elements
<1> QED BY <1>3, <1>4, <1>5, <1>6, <1>7, <1>8, <1>9, <1>10 DEF Next, ReaderStep

\* A call succeeds at its final check only; one without payload, which sends
\* nothing, returns success at once.
LEMMA AcceptedAtCheck ==
  ASSUME Steady, NEW w \in Writers, Send(w) \/ Step(w) \/ CasSpurious(w) \/ Crash(w),
         NEW m \in Message, Need(m) > 0, <<m, "SUCCESS">> \in returned',
         <<m, "SUCCESS">> \notin returned
  PROVE  pc[w] = "check" /\ m = op[w].m
<1>1. CASE Send(w)
  <2>1. PICK n \in Sizes :
        LET x == <<w, sent[w] + 1, n>>
        IN  \/ n = 0 /\ Return(w, x, "SUCCESS")
            \/ Return(w, x, "BUFF_LIMIT")
            \/ returned' = returned
    BY <1>1, Zenon DEF Send
  <2>2. m = <<w, sent[w] + 1, n>> /\ n = 0
    BY <2>1 DEF Return
  <2> QED BY <2>2 DEF Need
<1>2. CASE LoadReadCur(w)
  BY <1>2 DEF LoadReadCur, Return
<1>3. CASE FinalCheck(w)
  BY <1>3 DEF FinalCheck, Conflict, Return
<1>4. CASE ~(Send(w) \/ LoadReadCur(w) \/ FinalCheck(w) \/ MarkNextConflict(w))
  <2>1. returned' = returned
    BY <1>4 DEF Step, CasSpurious, Crash, Begin, CasWriteCur, CasLost, MarkFirst, MarkNext,
       StoreSize, Fill, LoadFlag, Publish, Reload, HeadOnly, history
  <2> QED BY <2>1
<1> QED BY <1>1, <1>2, <1>3, <1>4, NoConflict

\* No step but its publication brings a call to its final check.
LEMMA CheckAfterPublish ==
  ASSUME Steady, NEW w \in Writers, Send(w) \/ Step(w) \/ CasSpurious(w) \/ Crash(w),
         ~Publish(w)
  PROVE  pc'[w] # "check"
<1>0. pc \in [Writers -> WriterPlaces]
  BY DEF Steady, TypeOK, WritersOK
<1>1. CASE Send(w)
  BY <1>1, SendLater
<1>2. CASE LoadReadCur(w) \/ FinalCheck(w)
  BY <1>0, <1>2 DEF LoadReadCur, FinalCheck, Conflict, Return, Goto
<1>3. CASE Begin(w) \/ CasWriteCur(w) \/ Reload(w) \/ MarkFirst(w) \/ MarkNext(w)
           \/ StoreSize(w) \/ Fill(w) \/ LoadFlag(w) \/ Crash(w)
  BY <1>0, <1>3 DEF Begin, CasWriteCur, Reload, MarkFirst, MarkNext, StoreSize, Fill, LoadFlag,
     Crash, Goto
<1> QED BY <1>1, <1>2, <1>3, NoConflict DEF Step, CasLost, CasSpurious

\* What is accepted, or about to be, is somewhere after every step.
LEMMA SafeNext ==
  ASSUME TypeOK, RoomInv, CallsInv, BlocksInv, LossInv,
         TypeOK', RoomInv', CallsInv', BlocksInv', [Next]_vars
  PROVE  LossInv'
<1> SUFFICES ASSUME CalmNoCrash' PROVE Safe'
  BY DEF LossInv
<1>1. CalmNoCrash /\ Calm /\ Calm'
  BY WindowsStay DEF CalmNoCrash, Calm, Without
<1>2. Steady /\ Steady' /\ Safe
  BY <1>1 DEF Steady, BlocksInv, LossInv
<1>3. \A m : Kept(m) => Kept(m)'
  BY <1>2, KeptStays
<1>4. ASSUME NEW w \in Writers, Send(w) \/ Step(w) \/ CasSpurious(w) \/ Crash(w) PROVE Safe'
  <2>1. OthersSame(w)
    BY <1>2, <1>4, WriterFrame
  <2>2. ASSUME NEW m \in Message, Need(m) > 0, <<m, "SUCCESS">> \in returned'
        PROVE  Kept(m)'
    <3>1. CASE <<m, "SUCCESS">> \in returned
      BY <1>2, <1>3, <2>2, <3>1 DEF Safe, Accepted
    <3>2. CASE <<m, "SUCCESS">> \notin returned
      <4>1. pc[w] = "check" /\ m = op[w].m
        BY <1>2, <1>4, <2>2, <3>2, AcceptedAtCheck
      <4> QED BY <1>2, <1>3, <4>1 DEF Safe
    <3> QED BY <3>1, <3>2
  <2>3. ASSUME NEW v \in Writers, pc'[v] = "check" PROVE Kept(op[v].m)'
    <3>1. PICK x : x = op[v].m
      OBVIOUS
    <3>2. CASE v = w /\ Publish(w)
      <4>1. PICK b : b = wc[w]
        OBVIOUS
      <4>2. Waits(b)' /\ MsgAt(b)' = x
        BY <1>2, <3>1, <3>2, <4>1, PublishWaits
      <4>3. InRing(x)'
        BY <4>2, RingHas, Zenon
      <4>4. op'[v] = op[v]
        BY <3>2 DEF Publish
      <4>5. Kept(x)'
        BY <4>3 DEF Kept
      <4> QED BY <3>1, <4>4, <4>5 DEF Kept, InRing, InHand
    <3>3. CASE ~(v = w /\ Publish(w))
      <4>1. v # w
        BY <1>2, <1>4, <2>3, <3>3, CheckAfterPublish
      <4>2. pc[v] = "check" /\ op'[v] = op[v]
        BY <2>1, <2>3, <4>1 DEF OthersSame
      <4>3. Kept(x)'
        BY <1>2, <1>3, <3>1, <4>2 DEF Safe
      <4> QED BY <3>1, <4>2, <4>3 DEF Kept, InRing, InHand
    <3> QED BY <3>2, <3>3
  <2> QED BY <2>2, <2>3 DEF Safe, Accepted
<1>5. ASSUME CallsSame PROVE Safe'
  <2>1. Accepted' = Accepted
    BY <1>5 DEF CallsSame, Accepted
  <2>2. ASSUME NEW v \in Writers, pc'[v] = "check" PROVE Kept(op[v].m)'
    <3>1. PICK x : x = op[v].m
      OBVIOUS
    <3>2. pc[v] = "check" /\ op' = op
      BY <1>5, <2>2 DEF CallsSame
    <3>3. Kept(x)'
      BY <1>2, <1>3, <3>1, <3>2 DEF Safe
    <3> QED BY <3>1, <3>2, <3>3 DEF Kept, InRing, InHand
  <2> QED BY <1>2, <1>3, <2>1, <2>2 DEF Safe
<1>6. CASE Recv \/ ReaderStep \/ ReaderCrash \/ Tick \/ UNCHANGED vars
  <2>1. CallsSame
    BY <1>6 DEF Recv, ReaderStep, ReaderCrash, Tick, vars, shared, writerV, readerV, history,
       ScanEnd, ScanSkip, ScanWait, ScanTimeout, ScanBlock, ResetNode, TakeBlock, CleanNode,
       StoreReadCur, AtUnwritten, ReaderOnly, CallsSame
  <2> QED BY <1>5, <2>1
<1> QED BY <1>4, <1>6 DEF Next

\* While no final check comes too late every message is in one place, in the ring,
\* in the reader's hand or handed out, and stays handed out once.
THEOREM OnceCorrect == Spec => []OnceInv
<1>1. /\ TypeOK /\ RoomInv /\ CallsInv /\ BlocksInv /\ OnceInv
      /\ TypeOK' /\ RoomInv' /\ CallsInv' /\ BlocksInv' /\ [Next]_vars
      => OnceInv'
  BY OnceNext
<1>2. Init => OnceInv
  BY OnceInit
<1> QED BY <1>1, <1>2, TypeCorrect, RoomSafe, CallsCorrect, BlocksCorrect, PTL DEF Spec

\* While no final check comes too late, mem_recv hands a message out at most
\* once, and none whose call was refused: for any number of writers, nodes and
\* messages, and with crashes of writers and of the reader at any place.
THEOREM HandsOutOnce == Spec => []DeliveredOnce
<1>1. TypeOK /\ OnceInv => DeliveredOnce
  <2> SUFFICES ASSUME TypeOK, Once
               PROVE  /\ \A i, j \in DOMAIN delivered : delivered[i] = delivered[j] => i = j
                      /\ \A m \in Elements(delivered) : <<m, "BUFF_LIMIT">> \notin returned
    BY DEF OnceInv, CalmNoLate, DeliveredOnce
  <2>1. \A m \in Elements(delivered) : m \in AnyMsg /\ Kept(m)
    BY DEF Once, GoneForGood, Old, AnyMsg, Kept
  <2> QED BY <2>1 DEF Once, HandedOutOnce, NotRefused
<1> QED BY <1>1, TypeCorrect, OnceCorrect, PTL

\* A message whose mem_send returned success has been handed out, waits in the
\* ring or is being taken, also when the writer's final check came too late.
THEOREM NothingIsLost == Spec => []NoSilentLoss
<1>1. /\ TypeOK /\ RoomInv /\ CallsInv /\ BlocksInv /\ LossInv
      /\ TypeOK' /\ RoomInv' /\ CallsInv' /\ BlocksInv' /\ [Next]_vars
      => LossInv'
  BY SafeNext
<1>2. LossInv => NoSilentLoss
  BY DEF LossInv, CalmNoCrash, NoSilentLoss, Safe
<1>3. Init => LossInv
  BY OnceInit
<1> QED BY <1>1, <1>2, <1>3, TypeCorrect, RoomSafe, CallsCorrect, BlocksCorrect, PTL DEF Spec

(***************************************************************************)
(* The places: every block ever reserved is dead, at work, or returned.    *)
(***************************************************************************)
\* What a step of the writer w does to its call and its place.
Begins(w) ==
  /\ pc[w] = "idle" /\ pc'[w] \in {"idle", "begin"} /\ order' = order
  /\ sent' = [sent EXCEPT ![w] = sent[w] + 1]
  /\ \E n \in Sizes :
       \/ returned' = returned
       \/ /\ n = 0 /\ pc'[w] = "idle"
          /\ returned' = returned \cup {<<<<w, sent[w] + 1, n>>, "SUCCESS">>}
       \/ /\ n > 0 /\ pc'[w] = "idle"
          /\ returned' = returned \cup {<<<<w, sent[w] + 1, n>>, "BUFF_LIMIT">>}
Loads(w) == pc[w] \in {"begin", "load", "cas"}
Looks(w) ==
  /\ Loads(w) /\ pc'[w] \in {"load", "cas"} /\ UNCHANGED <<order, sent, returned>>
IsRefused(w) ==
  /\ Loads(w) /\ pc'[w] = "idle" /\ UNCHANGED <<order, sent>>
  /\ returned' = returned \cup {<<op[w].m, "BUFF_LIMIT">>}
Reserves(w) ==
  /\ Loads(w) /\ pc'[w] = "mark" /\ UNCHANGED <<sent, returned>>
  /\ op'[w].m = op[w].m /\ wc'[w] = wpos /\ wpos' = wpos + Need(op[w].m)
  /\ order' = Append(order, Place(op[w].m, wpos))
Fills(w) ==
  /\ HoldsPlace(w) /\ HoldsPlace(w)' /\ UNCHANGED <<order, sent, returned>>
  /\ op'[w].m = op[w].m /\ wc'[w] = wc[w]
Finishes(w) ==
  /\ pc[w] = "check" /\ pc'[w] = "idle" /\ UNCHANGED <<order, sent>>
  /\ returned' = returned \cup {<<op[w].m, "SUCCESS">>}
Dies(w) ==
  /\ AtWork(w) /\ pc'[w] = "dead" /\ UNCHANGED <<order, sent, returned>>
Does(w) ==
  \/ Begins(w) \/ Looks(w) \/ IsRefused(w) \/ Reserves(w)
  \/ Fills(w) \/ Finishes(w) \/ Dies(w)

\* A step of a writer is one of these.
LEMMA WriterDoes ==
  ASSUME Steady, Once, NEW w \in Writers, Send(w) \/ Step(w) \/ CasSpurious(w) \/ Crash(w)
  PROVE  Does(w) /\ rpos' = rpos /\ (wpos' = wpos \/ Reserves(w))
<1>0. pc \in [Writers -> WriterPlaces] /\ op \in [Writers -> OpType] /\ wc \in [Writers -> Nat]
  BY DEF Steady, TypeOK, WritersOK, Positions
<1>1. CASE Send(w)
  <2>1. PICK n \in Sizes :
          LET m == <<w, sent[w] + 1, n>>
          IN  \/ n = 0 /\ Return(w, m, "SUCCESS")
              \/ n > 0 /\ n >= NodeCount - Protect /\ Return(w, m, "BUFF_LIMIT")
              \/ /\ n > 0 /\ n < NodeCount - Protect
                 /\ Goto(w, "begin")
                 /\ op' = [op EXCEPT ![w].m = m, ![w].tries = Tries]
                 /\ UNCHANGED <<wc, rc, returned>>
    BY <1>1, Zenon DEF Send
  <2>2. /\ pc[w] = "idle" /\ sent' = [sent EXCEPT ![w] = sent[w] + 1]
        /\ order' = order /\ rpos' = rpos /\ wpos' = wpos
    BY <1>1 DEF Send, shared
  <2>3. \/ returned' = returned /\ pc'[w] = "begin"
        \/ /\ n = 0 /\ pc'[w] = "idle"
           /\ returned' = returned \cup {<<<<w, sent[w] + 1, n>>, "SUCCESS">>}
        \/ /\ n > 0 /\ pc'[w] = "idle"
           /\ returned' = returned \cup {<<<<w, sent[w] + 1, n>>, "BUFF_LIMIT">>}
    BY <1>0, <2>1 DEF Return, Goto
  <2>4. Begins(w)
    BY <2>2, <2>3 DEF Begins
  <2> QED BY <2>2, <2>4 DEF Does
<1>2. CASE LoadReadCur(w)
  <2>1. /\ pc[w] = "load" /\ UNCHANGED <<order, sent, rpos, wpos>>
        /\ \/ pc'[w] = "idle" /\ returned' = returned \cup {<<op[w].m, "BUFF_LIMIT">>}
           \/ pc'[w] = "cas" /\ returned' = returned
    BY <1>0, <1>2 DEF LoadReadCur, Return, Goto, shared
  <2> QED BY <2>1 DEF Does, Looks, IsRefused, Loads
<1>3. CASE FinalCheck(w)
  <2>1. /\ pc[w] = "check" /\ UNCHANGED <<order, sent, rpos, wpos>>
    BY <1>3 DEF FinalCheck, shared
  <2>2. pc'[w] = "idle" /\ returned' = returned \cup {<<op[w].m, "SUCCESS">>}
    BY <1>0, <1>3, CheckInTime DEF Return, Goto
  <2> QED BY <2>1, <2>2 DEF Does, Finishes
<1>4. CASE Crash(w)
  <2>1. AtWork(w) /\ pc'[w] = "dead" /\ UNCHANGED <<order, sent, returned, rpos, wpos>>
    BY <1>0, <1>4 DEF Crash, Goto, shared, history, AtWork
  <2> QED BY <2>1 DEF Does, Dies
<1>5. CASE CasWriteCur(w)
  <2>1. /\ pc[w] = "cas" /\ pc'[w] = "mark" /\ UNCHANGED <<sent, returned, rpos>> /\ op' = op
        /\ wc'[w] = wpos /\ wpos' = wpos + Need(op[w].m)
        /\ order' = Append(order, Place(op[w].m, wpos))
    BY <1>0, <1>5 DEF CasWriteCur, Goto, Place
  <2> QED BY <2>1 DEF Does, Reserves, Loads
<1>6. CASE Begin(w) \/ Reload(w)
  <2>1. /\ pc[w] \in {"begin", "cas"} /\ pc'[w] = "load"
        /\ UNCHANGED <<order, sent, returned, rpos, wpos>>
    BY <1>0, <1>6 DEF Begin, Reload, Goto, shared, history
  <2> QED BY <2>1 DEF Does, Looks, Loads
<1>7. CASE MarkFirst(w) \/ MarkNext(w) \/ StoreSize(w) \/ Fill(w) \/ LoadFlag(w) \/ Publish(w)
  <2>1. /\ pc[w] \in {"mark", "cont", "size", "fill", "flag", "publish"}
        /\ pc'[w] \in {"cont", "size", "fill", "flag", "publish", "check"}
        /\ UNCHANGED <<order, sent, returned, rpos, wpos>>
    BY <1>0, <1>7 DEF MarkFirst, MarkNext, StoreSize, Fill, LoadFlag, Publish, Goto, HeadOnly,
       shared, history
  <2>2. op'[w].m = op[w].m /\ wc'[w] = wc[w]
    BY <1>0, <1>7 DEF MarkFirst, MarkNext, StoreSize, Fill, LoadFlag, Publish, HeadOnly, OpType
  <2> QED BY <2>1, <2>2 DEF Does, Fills, HoldsPlace, Writing
<1> QED BY <1>1, <1>2, <1>3, <1>4, <1>5, <1>6, <1>7, NoConflict DEF Step, CasLost, CasSpurious

\* The messages and the positions of the places.
LEMMA PlaceTypes ==
  ASSUME Steady
  PROVE  /\ \A i \in Places : /\ order[i].m \in Message /\ order[i].p \in Nat
                              /\ order[i] = Place(order[i].m, order[i].p)
         /\ Places = 1 .. Len(order) /\ Len(order) \in Nat
<1>1. order \in Seq(OrderType)
  BY DEF Steady, TypeOK, HistoryOK
<1>2. \A i \in Places : order[i] \in OrderType
  BY <1>1 DEF Places
<1>3. \A r \in OrderType : r.m \in Message /\ r.p \in Nat /\ r = Place(r.m, r.p)
  BY DEF OrderType, Place, Positions
<1> QED BY <1>1, <1>2, <1>3 DEF Places

\* A message is one call's.
LEMMA OneCall ==
  ASSUME Steady, NEW w \in Writers, AtWork(w)
  PROVE  /\ op[w].m \in Message /\ op[w].m[1] = w /\ op[w].m[2] = sent[w]
         /\ \A r : <<op[w].m, r>> \notin returned
<1>1. op[w].m \in Message /\ op[w].m[1] = w /\ op[w].m[2] = sent[w] /\ sent[w] \in Nat
  BY BoundAssumption DEF Steady, TypeOK, WritersOK, CallsInv, AtWork
<1>2. ASSUME NEW r, <<op[w].m, r>> \in returned PROVE FALSE
  <2>1. op[w].m[2] < sent[w]
    BY <1>1, <1>2 DEF Steady, CallsInv
  <2> QED BY <1>1, <2>1
<1> QED BY <1>1, <1>2

\* No call that has returned died.
LEMMA DiedOpenNext == TypeOK /\ CallsInv /\ DiedOpen /\ [Next]_vars => DiedOpen'
<1> SUFFICES ASSUME TypeOK, CallsInv, DiedOpen, [Next]_vars PROVE DiedOpen'
  OBVIOUS
<1>0. /\ pc \in [Writers -> WriterPlaces] /\ sent \in [Writers -> Nat]
      /\ returned \subseteq Message \X {"SUCCESS", "BUFF_LIMIT"}
  BY BoundAssumption DEF TypeOK, WritersOK, HistoryOK
<1>1. ASSUME NEW w \in Writers,
             \A r \in returned' : r \in returned \/ (r[1][1] = w /\ pc'[w] # "dead"),
             \A v \in Writers \ {w} : pc'[v] = pc[v] /\ sent'[v] = sent[v],
             pc'[w] = "dead" => AtWork(w) /\ sent'[w] = sent[w]
      PROVE  DiedOpen'
  <2> SUFFICES ASSUME NEW r \in returned', Died(r[1])' PROVE FALSE
    BY DEF DiedOpen
  <2>1. r \in returned
    BY <1>1 DEF Died
  <2>2. r[1] \in Message /\ r[1][1] \in Writers /\ ~Died(r[1])
    BY <1>0, <2>1, MessageParts DEF DiedOpen
  <2>3. r[1][1] = w /\ AtWork(w) /\ sent'[w] = sent[w]
    BY <1>1, <2>2 DEF Died
  <2>4. r[1][2] < sent[w] /\ r[1][2] = sent[w] /\ sent[w] \in Nat
    BY <1>0, <2>1, <2>3 DEF CallsInv, Died
  <2> QED BY <2>4
<1>2. ASSUME NEW w \in Writers, Send(w) PROVE DiedOpen'
  <2>1. /\ pc[w] = "idle" /\ sent' = [sent EXCEPT ![w] = sent[w] + 1]
    BY <1>2 DEF Send
  <2>2. PICK n \in Sizes :
        \/ \E r \in {"SUCCESS", "BUFF_LIMIT"} : Return(w, <<w, sent[w] + 1, n>>, r)
        \/ Goto(w, "begin") /\ returned' = returned
    BY <1>2, Zenon DEF Send
  <2>3. /\ \A v \in Writers \ {w} : pc'[v] = pc[v] /\ sent'[v] = sent[v]
        /\ pc'[w] \in {"idle", "begin"}
    BY <1>0, <2>1, <2>2 DEF Return, Goto
  <2>4. \A r \in returned' : r \in returned \/ r[1][1] = w
    BY <2>2 DEF Return
  <2> QED BY <1>1, <2>3, <2>4
<1>3. ASSUME NEW w \in Writers, Step(w) \/ CasSpurious(w) \/ Crash(w) PROVE DiedOpen'
  <2>1. AtWork(w) /\ sent' = sent
    BY <1>3 DEF Step, Begin, LoadReadCur, CasWriteCur, CasLost, MarkFirst, MarkNextConflict,
       MarkNext, StoreSize, Fill, LoadFlag, Publish, FinalCheck, CasSpurious, Crash, Reload, AtWork,
       HeadOnly
  <2>2. op[w].m[1] = w
    BY <2>1 DEF CallsInv
  <2>3. \/ pc'[w] = "idle" /\ \E r : returned' = returned \cup {<<op[w].m, r>>}
        \/ returned' = returned
    BY <1>0, <1>3 DEF Step, Begin, LoadReadCur, CasWriteCur, CasLost, MarkFirst, MarkNextConflict,
       MarkNext, StoreSize, Fill, LoadFlag, Publish, FinalCheck, CasSpurious, Crash, Reload,
       HeadOnly, Return, Conflict, Goto, history
  <2>4. \A v \in Writers \ {w} : pc'[v] = pc[v]
    BY <1>0, <1>3 DEF Step, Begin, LoadReadCur, CasWriteCur, CasLost, MarkFirst, MarkNextConflict,
       MarkNext, StoreSize, Fill, LoadFlag, Publish, FinalCheck, CasSpurious, Crash, Reload,
       Return, Conflict, Goto
  <2>5. \A r \in returned' : r \in returned \/ (r[1][1] = w /\ pc'[w] # "dead")
    BY <2>2, <2>3
  <2> QED BY <1>1, <2>1, <2>4, <2>5
<1>4. CASE Recv \/ ReaderStep \/ ReaderCrash \/ Tick \/ UNCHANGED vars
  <2>1. UNCHANGED <<pc, sent, returned>>
    BY <1>4 DEF Recv, ReaderStep, ScanEnd, ScanSkip, ScanWait, ScanTimeout, ScanBlock, ResetNode,
       TakeBlock, CleanNode, StoreReadCur, ReaderCrash, Tick, ReaderOnly, writerV, history, vars,
       shared, readerV
  <2> QED BY <2>1 DEF DiedOpen, Died
<1> QED BY <1>2, <1>3, <1>4 DEF Next

\* What a step of a writer does to what waits and what is in hand.
LEMMA WriterRing ==
  ASSUME Steady, Steady', NEW w \in Writers,
         Send(w) \/ Step(w) \/ CasSpurious(w) \/ Crash(w)
  PROVE  /\ UNCHANGED <<rpc, rb, re>> /\ OthersSame(w) /\ HandSame
         /\ Front' = Front /\ Untaken' = Untaken
         /\ \A p : Waits(p) => Waits(p)' /\ MsgAt(p)' = MsgAt(p)
         /\ \A p : Waits(p)' =>
              Waits(p) \/ (HoldsPlace(w) /\ p = wc[w] /\ MsgAt(p)' = op[w].m)
<1>1. UNCHANGED <<rpc, rb, re>> /\ OthersSame(w)
  BY WriterFrame
<1>2. CASE ~Publish(w)
  BY <1>1, <1>2, WriterWaits DEF WaitsSame, Untaken
<1>3. CASE Publish(w)
  <2>1. PICK b : b = wc[w]
    OBVIOUS
  <2>2. HoldsPlace(w)
    BY <1>3 DEF Publish, HoldsPlace, Writing
  <2> QED BY <1>1, <1>3, <2>1, <2>2, PublishWaits DEF Untaken
<1> QED BY <1>2, <1>3

\* One more place is behind the others.
LEMMA OnePlaceMore ==
  ASSUME Steady, NEW w \in Writers, Reserves(w)
  PROVE  /\ Places' = Places \cup {Len(order) + 1}
         /\ \A i \in Places : order'[i] = order[i] /\ i <= Len(order)
         /\ order'[Len(order) + 1] = Place(op[w].m, wpos)
         /\ AtWork(w) /\ op[w].m \in Message /\ Need(op[w].m) \in Nat /\ Need(op[w].m) > 0
<1>1. order \in Seq(OrderType) /\ order' = Append(order, Place(op[w].m, wpos))
  BY DEF Steady, TypeOK, HistoryOK, Reserves
<1>2. AtWork(w)
  BY DEF Reserves, Loads, AtWork
<1>3. op[w].m \in Message /\ Need(op[w].m) \in Nat /\ Need(op[w].m) > 0
  BY <1>2, Working DEF Steady
<1> QED BY <1>1, <1>2, <1>3 DEF Places

\* A place stays a place.
LEMMA HasStays ==
  ASSUME Steady, NEW w \in Writers, Does(w), NEW m, NEW p, Has(m, p)
  PROVE  Has(m, p)'
<1>1. CASE Reserves(w)
  <2>1. PICK i \in Places : order[i] = Place(m, p)
    BY DEF Has
  <2>2. i \in Places' /\ order'[i] = Place(m, p)
    BY <1>1, <2>1, OnePlaceMore
  <2> QED BY <2>2 DEF Has, Place
<1>2. CASE order' = order
  BY <1>2 DEF Has, Places, Place
<1> QED BY <1>1, <1>2 DEF Does, Begins, Looks, IsRefused, Fills, Finishes, Dies

\* What a step of a writer does to the calls.
LEMMA CallsGoOn ==
  ASSUME Steady, NEW w \in Writers, Does(w), OthersSame(w)
  PROVE  /\ \A m \in Message : Died(m) => Died(m)'
         /\ \A m \in Message : Finished(m) => Finished(m)'
         /\ \A m \in Message : Finished(m)' /\ ~Finished(m) =>
              Need(m) = 0 \/ (Finishes(w) /\ m = op[w].m)
<1>1. sent \in [Writers -> Nat]
  BY BoundAssumption DEF Steady, TypeOK, WritersOK
<1>2. /\ pc[w] # "dead" /\ returned \subseteq returned'
      /\ \A v \in Writers \ {w} : pc'[v] = pc[v] /\ sent'[v] = sent[v]
  BY <1>1 DEF Does, Begins, Looks, IsRefused, Reserves, Fills, Finishes, Dies, OthersSame, Loads,
     HoldsPlace, Writing, AtWork
<1>3. \A m \in Message : Died(m) => Died(m)'
  BY <1>2, MessageParts DEF Died
<1>4. \A m \in Message : Finished(m)' /\ ~Finished(m) =>
        Need(m) = 0 \/ (Finishes(w) /\ m = op[w].m)
  BY DEF Does, Begins, Looks, IsRefused, Reserves, Fills, Finishes, Dies, Finished, Need
<1> QED BY <1>2, <1>3, <1>4 DEF Finished

\* The calls and their places go on to agree.
LEMMA PlacesWriter ==
  ASSUME Steady, Steady', Once, AllPlaces, NEW w \in Writers,
         Send(w) \/ Step(w) \/ CasSpurious(w) \/ Crash(w)
  PROVE  AllPlaces'
<1>1. Does(w) /\ rpos' = rpos /\ (wpos' = wpos \/ Reserves(w))
  BY WriterDoes
<1>2. /\ UNCHANGED <<rpc, rb, re>> /\ OthersSame(w) /\ HandSame
      /\ Front' = Front /\ Untaken' = Untaken
      /\ \A p : Waits(p) => Waits(p)' /\ MsgAt(p)' = MsgAt(p)
      /\ \A p : Waits(p)' =>
           Waits(p) \/ (HoldsPlace(w) /\ p = wc[w] /\ MsgAt(p)' = op[w].m)
  BY WriterRing
<1>3. /\ \A m \in Message : Died(m) => Died(m)'
      /\ \A m \in Message : Finished(m) => Finished(m)'
      /\ \A m \in Message : Finished(m)' /\ ~Finished(m) =>
           Need(m) = 0 \/ (Finishes(w) /\ m = op[w].m)
  BY <1>1, <1>2, CallsGoOn
<1>4. /\ \A i \in Places : /\ order[i].m \in Message /\ order[i].p \in Nat
                           /\ order[i] = Place(order[i].m, order[i].p)
      /\ Places = 1 .. Len(order) /\ Len(order) \in Nat
  BY PlaceTypes
<1>5. rpos \in Nat /\ wpos \in Nat /\ rb \in Nat /\ re \in Nat /\ (rpc # "idle" => rb <= wpos)
  <2>1. /\ rpos \in Nat /\ wpos \in Nat /\ rb \in Nat /\ re \in Nat /\ rw \in Nat
        /\ rpc = "scan"  => rpos <= rb /\ rb <= rw /\ rw <= wpos
        /\ rpc = "reset" => rpos <= rb /\ rb < rw /\ rb <= re /\ re <= rw /\ rw <= wpos
        /\ rpc = "clean" => rpos <= re /\ re <= wpos
        /\ rpc \in {"idle", "scan", "reset", "clean"}
    BY Cursors DEF Steady
  <2>2. rpc = "clean" => rb <= re
    BY AtFront
  <2> QED BY <2>1, <2>2
<1>6. ASSUME NEW i \in Places
      PROVE  i \in Places' /\ order'[i] = order[i]
  <2>1. CASE Reserves(w)
    BY <2>1, OnePlaceMore
  <2>2. CASE order' = order
    BY <2>2 DEF Places
  <2> QED BY <1>1, <2>1, <2>2 DEF Does, Begins, Looks, IsRefused, Fills, Finishes, Dies
<1>7. ASSUME NEW i \in Places', i \notin Places
      PROVE  /\ Reserves(w) /\ i = Len(order) + 1 /\ order'[i] = Place(op[w].m, wpos)
  <2>1. order' # order
    BY <1>7 DEF Places
  <2>2. Reserves(w)
    BY <1>1, <2>1 DEF Does, Begins, Looks, IsRefused, Fills, Finishes, Dies
  <2> QED BY <1>7, <2>2, OnePlaceMore
<1>8. ASSUME NEW i \in Places', i \notin Places
      PROVE  /\ order'[i].m = op[w].m /\ order'[i].p = wpos /\ wpos' = wpos + Need(op[w].m)
             /\ op[w].m \in Message /\ Need(op[w].m) \in Nat /\ Need(op[w].m) > 0
             /\ AtWork(w)
  BY <1>7, <1>8, OnePlaceMore DEF Reserves, Place
<1>10. InTurn'
  <2>1. \A i \in Places : Need(order[i].m) \in Nat
    BY <1>4, MessageParts
  <2>2. wpos' \in Nat /\ wpos <= wpos'
    BY <1>1, <1>5, OnePlaceMore DEF Reserves
  <2>3. \A i \in Places' : Need(order'[i].m) > 0 /\ order'[i].p + Need(order'[i].m) <= wpos'
    <3> SUFFICES ASSUME NEW i \in Places'
        PROVE  Need(order'[i].m) > 0 /\ order'[i].p + Need(order'[i].m) <= wpos'
      OBVIOUS
    <3>1. CASE i \in Places
      <4>1. Need(order[i].m) > 0 /\ order[i].p + Need(order[i].m) <= wpos
        BY <3>1 DEF AllPlaces, InTurn
      <4> QED BY <1>4, <1>5, <1>6, <2>1, <2>2, <3>1, <4>1
    <3>2. CASE i \notin Places
      BY <1>5, <1>8, <3>2
    <3> QED BY <3>1, <3>2
  <2>4. ASSUME NEW i \in Places', NEW j \in Places', i < j
        PROVE  order'[i].p + Need(order'[i].m) <= order'[j].p
    <3>1. i \in Places
      BY <1>4, <1>7, <2>4 DEF Places
    <3>2. CASE j \in Places
      BY <1>6, <2>4, <3>1, <3>2 DEF AllPlaces, InTurn
    <3>3. CASE j \notin Places
      BY <1>6, <1>8, <3>1, <3>3 DEF AllPlaces, InTurn
    <3> QED BY <3>2, <3>3
  <2> QED BY <2>3, <2>4 DEF InTurn
<1>11. Fates'
  <2> SUFFICES ASSUME NEW i \in Places'
      PROVE  Died(order[i].m)' \/ AtPlace(order[i])' \/ Finished(order[i].m)'
    BY DEF Fates
  <2>1. CASE i \notin Places
    <3>1. op[w].m[1] = w
      BY <1>8, <2>1, OneCall
    <3>2. pc'[w] = "mark" /\ op'[w].m = op[w].m /\ wc'[w] = wpos
      BY <1>7, <2>1 DEF Reserves
    <3>3. AtPlace(order[i])'
      BY <1>7, <1>8, <2>1, <3>1, <3>2 DEF AtPlace, HoldsPlace, Writing, Place
    <3> QED BY <3>3
  <2>2. CASE i \in Places
    <3>1. order'[i] = order[i] /\ order[i].m \in Message /\ order[i].m[1] \in Writers
      BY <1>4, <1>6, <2>2, MessageParts
    <3>2. CASE Died(order[i].m)
      BY <1>3, <3>1, <3>2
    <3>3. CASE Finished(order[i].m)
      BY <1>3, <3>1, <3>3
    <3>4. CASE AtPlace(order[i]) /\ order[i].m[1] # w
      BY <1>2, <3>1, <3>4 DEF AtPlace, OthersSame, HoldsPlace, Place
    <3>5. CASE AtPlace(order[i]) /\ order[i].m[1] = w
      <4>1. HoldsPlace(w) /\ order[i] = Place(op[w].m, wc[w]) /\ order[i].m = op[w].m
        BY <3>5 DEF AtPlace, Place
      <4>2. AtWork(w) /\ op[w].m[2] = sent[w]
        BY <4>1, OneCall DEF HoldsPlace, Writing, AtWork
      <4>3. Fills(w) \/ Finishes(w) \/ Dies(w)
        BY <1>1, <4>1 DEF Does, Begins, Looks, IsRefused, Reserves, Loads, HoldsPlace, Writing
      <4>4. CASE Fills(w)
        BY <3>1, <3>5, <4>1, <4>4 DEF Fills, AtPlace, Place
      <4>5. CASE Finishes(w)
        BY <3>1, <4>1, <4>5 DEF Finishes, Finished
      <4>6. CASE Dies(w)
        BY <3>1, <3>5, <4>1, <4>2, <4>6 DEF Dies, Died
      <4> QED BY <4>3, <4>4, <4>5, <4>6
    <3>6. Died(order[i].m) \/ AtPlace(order[i]) \/ Finished(order[i].m)
      BY <2>2 DEF AllPlaces, Fates
    <3> QED BY <3>2, <3>3, <3>4, <3>5, <3>6
  <2> QED BY <2>1, <2>2
<1>12. Begun'
  <2> SUFFICES ASSUME NEW v \in Writers, HoldsPlace(v)' PROVE Has(op[v].m, wc[v])'
    BY DEF Begun
  <2>0. PICK m, p : m = op'[v].m /\ p = wc'[v]
    OBVIOUS
  <2> SUFFICES Has(m, p)'
    BY <2>0 DEF Has, Place, Places
  <2>1. CASE v # w
    <3>1. HoldsPlace(v) /\ op'[v] = op[v] /\ wc'[v] = wc[v]
      BY <1>2, <2>1 DEF OthersSame, HoldsPlace
    <3>2. Has(m, p)
      BY <2>0, <3>1 DEF AllPlaces, Begun
    <3> QED BY <1>1, <3>2, HasStays
  <2>2. CASE v = w /\ Fills(w)
    <3>1. op'[w].m = op[w].m /\ wc'[w] = wc[w] /\ HoldsPlace(w)
      BY <2>2 DEF Fills
    <3>2. Has(m, p)
      BY <2>0, <2>2, <3>1 DEF AllPlaces, Begun
    <3> QED BY <1>1, <3>2, HasStays
  <2>3. CASE v = w /\ Reserves(w)
    <3>1. op'[w].m = op[w].m /\ wc'[w] = wpos
      BY <2>3 DEF Reserves
    <3>2. Len(order) + 1 \in Places' /\ order'[Len(order) + 1] = Place(op[w].m, wpos)
      BY <2>3, OnePlaceMore
    <3> QED BY <2>0, <2>3, <3>1, <3>2 DEF Has, Place
  <2> QED BY <1>1, <2>1, <2>2, <2>3
       DEF Does, Begins, Looks, IsRefused, Finishes, Dies, HoldsPlace, Writing
<1>13. Named'
  <2> SUFFICES ASSUME NEW p, Waits(p)' PROVE Has(MsgAt(p), p)'
    BY DEF Named
  <2>0. PICK m : m = MsgAt(p)'
    OBVIOUS
  <2> SUFFICES Has(m, p)'
    BY <2>0 DEF Has, Place, Places
  <2>1. CASE Waits(p)
    <3>1. Has(MsgAt(p), p) /\ m = MsgAt(p)
      BY <1>2, <2>0, <2>1 DEF AllPlaces, Named, Waits
    <3> QED BY <1>1, <3>1, HasStays
  <2>2. CASE HoldsPlace(w) /\ p = wc[w] /\ MsgAt(p)' = op[w].m
    <3>1. Has(m, p)
      BY <2>0, <2>2 DEF AllPlaces, Begun
    <3> QED BY <1>1, <3>1, HasStays
  <2> QED BY <1>2, <2>1, <2>2
<1>14. NotTaken'
  <2> SUFFICES ASSUME NEW i \in Places', Finished(order[i].m)', Untaken' <= order'[i].p
      PROVE  Waits(order[i].p)'
    BY DEF NotTaken
  <2>1. i \in Places
    <3> SUFFICES ASSUME i \notin Places PROVE FALSE
      OBVIOUS
    <3>1. Reserves(w) /\ order'[i].m = op[w].m /\ AtWork(w)
      BY <1>7, <1>8
    <3>2. Finished(op[w].m)
      BY <3>1 DEF Finished, Reserves
    <3> QED BY <3>1, <3>2, OneCall DEF Finished
  <2>2. /\ order'[i] = order[i] /\ order[i].m \in Message /\ order[i].m[1] \in Writers
        /\ Need(order[i].m) > 0
    BY <1>4, <1>6, <2>1, MessageParts DEF AllPlaces, InTurn
  <2>3. CASE Finished(order[i].m)
    <3>1. Waits(order[i].p)
      BY <1>2, <2>1, <2>2, <2>3 DEF AllPlaces, NotTaken
    <3> QED BY <1>2, <2>2, <3>1
  <2>4. CASE ~Finished(order[i].m)
    <3>1. Finishes(w) /\ order[i].m = op[w].m
      BY <1>3, <2>2, <2>4
    <3>2. pc[w] = "check" /\ AtWork(w) /\ op[w].m[1] = w
      BY <3>1, OneCall DEF Finishes, AtWork
    <3>3. AtPlace(order[i])
      BY <2>1, <2>4, <3>1, <3>2 DEF AllPlaces, Fates, Died
    <3>4. order[i].p = wc[w]
      BY <3>1, <3>2, <3>3 DEF AtPlace, Place
    <3>5. Waits(wc[w])
      BY <3>2 DEF Once, Unchecked, Untouched
    <3>6. PICK b : b = wc[w]
      OBVIOUS
    <3> QED BY <1>2, <2>2, <3>4, <3>5, <3>6
  <2> QED BY <2>3, <2>4
<1>15. Passed'
  <2> SUFFICES ASSUME NEW i \in Places', rpc' # "idle", rpos' <= order'[i].p, order'[i].p < rb'
      PROVE  Died(order[i].m)'
    BY DEF Passed
  <2>1. i \in Places
    BY <1>2, <1>5, <1>8
  <2>2. order'[i] = order[i] /\ order[i].m \in Message
    BY <1>4, <1>6, <2>1
  <2>3. Died(order[i].m)
    BY <1>1, <1>2, <2>1, <2>2 DEF AllPlaces, Passed
  <2> QED BY <1>3, <2>2, <2>3
<1>16. Held'
  <2> SUFFICES ASSUME NEW m \in Message, InHand(m)'
      PROVE  Has(m, rb)' /\ (Died(m)' \/ Finished(m)') /\ Front' = rb' + Need(m)
    BY DEF Held
  <2>0. PICK p : p = rb
    OBVIOUS
  <2>1. InHand(m)
    BY <1>2 DEF HandSame
  <2>2. Has(m, rb) /\ (Died(m) \/ Finished(m)) /\ Front = rb + Need(m)
    BY <2>1 DEF AllPlaces, Held
  <2>3. Has(m, p)'
    BY <1>1, <2>0, <2>2, HasStays
  <2>4. Has(m, rb)'
    BY <1>2, <2>0, <2>3 DEF Has, Place, Places
  <2> QED BY <1>2, <1>3, <2>2, <2>4
<1> QED BY <1>10, <1>11, <1>12, <1>13, <1>14, <1>15, <1>16 DEF AllPlaces

\* A step of the reader keeps the calls; it makes nothing wait, and what it
\* passes, takes and holds is as it should be.
LEMMA PlacesReader ==
  ASSUME AllPlaces, CallsSame, UNCHANGED <<order, wpos>>,
         \A p : Waits(p)' => Waits(p) /\ MsgAt(p)' = MsgAt(p),
         NotTaken', Passed', Held'
  PROVE  AllPlaces'
<1>1. /\ \A m : Died(m)' <=> Died(m)
      /\ \A m : Finished(m)' <=> Finished(m)
      /\ \A m, p : Has(m, p)' <=> Has(m, p)
      /\ \A r : AtPlace(r)' <=> AtPlace(r)
      /\ \A w : HoldsPlace(w)' <=> HoldsPlace(w)
      /\ Places' = Places
  BY DEF CallsSame, Died, Finished, Has, AtPlace, HoldsPlace, Places, Place
<1>2. InTurn'
  BY <1>1 DEF AllPlaces, InTurn
<1>3. Fates'
  BY <1>1 DEF AllPlaces, Fates
<1>4. Begun'
  <2> SUFFICES ASSUME NEW w \in Writers, HoldsPlace(w)' PROVE Has(op[w].m, wc[w])'
    BY DEF Begun
  <2>1. Has(op[w].m, wc[w]) /\ op' = op /\ wc' = wc
    BY <1>1 DEF AllPlaces, Begun, CallsSame
  <2> QED BY <1>1, <2>1 DEF Has, Place
<1>5. Named'
  <2> SUFFICES ASSUME NEW p, Waits(p)' PROVE Has(MsgAt(p), p)'
    BY DEF Named
  <2>1. Has(MsgAt(p), p) /\ MsgAt(p)' = MsgAt(p)
    BY DEF AllPlaces, Named, Waits
  <2> QED BY <1>1, <2>1 DEF Has, Place
<1> QED BY <1>2, <1>3, <1>4, <1>5 DEF AllPlaces

\* It takes nothing, moves on and keeps what waits behind it.
LEMMA NotTakenOn ==
  ASSUME Steady, AllPlaces, CallsSame, order' = order, Untaken <= Untaken',
         Untaken \in Nat, Untaken' \in Nat,
         \A p \in Nat : Untaken' <= p /\ Waits(p) => Waits(p)'
  PROVE  NotTaken'
<1> SUFFICES ASSUME NEW i \in Places', Finished(order[i].m)', Untaken' <= order'[i].p
    PROVE  Waits(order[i].p)'
  BY DEF NotTaken
<1>1. i \in Places /\ order'[i] = order[i] /\ order[i].p \in Nat
  BY PlaceTypes DEF Places
<1>2. Finished(order[i].m)
  BY <1>1 DEF Finished, CallsSame
<1>3. Waits(order[i].p)
  BY <1>1, <1>2 DEF AllPlaces, NotTaken
<1> QED BY <1>1, <1>3

\* Nothing is in hand after the step.
LEMMA HeldNothing == (\A m : ~InHand(m)') => Held'
BY DEF Held

\* Nothing more is passed.
LEMMA PassedSame ==
  ASSUME AllPlaces, CallsSame, UNCHANGED <<order, rpos, rb>>, rpc # "idle"
  PROVE  Passed'
<1>1. \A m : Died(m)' <=> Died(m)
  BY DEF CallsSame, Died
<1> QED BY <1>1 DEF AllPlaces, Passed, Places

\* The same is in hand.
LEMMA HeldSame ==
  ASSUME AllPlaces, CallsSame, UNCHANGED <<order, rb>>, HandSame, Front' = Front
  PROVE  Held'
<1>1. /\ \A m : Died(m)' <=> Died(m)
      /\ \A m : Finished(m)' <=> Finished(m)
      /\ \A m, p : Has(m, p)' <=> Has(m, p)
  BY DEF CallsSame, Died, Finished, Has, Places, Place
<1> SUFFICES ASSUME NEW m \in Message, InHand(m)'
    PROVE  Has(m, rb)' /\ (Died(m)' \/ Finished(m)') /\ Front' = rb' + Need(m)
  BY DEF Held
<1>2. InHand(m)
  BY DEF HandSame
<1>3. Has(m, rb) /\ (Died(m) \/ Finished(m)) /\ Front = rb + Need(m)
  BY <1>2 DEF AllPlaces, Held
<1> QED BY <1>1, <1>3 DEF Has, Place

\* Where the reader is.
LEMMA AtUntaken ==
  ASSUME Steady
  PROVE  /\ Untaken \in Nat /\ rb \in Nat /\ re \in Nat /\ rpos \in Nat /\ wpos \in Nat
         /\ Untaken <= Front /\ Front \in Nat
         /\ rpc \in {"scan", "reset"} => rpos <= rb
         /\ rpc = "idle" => Untaken = rpos
         /\ rpc = "scan" => Untaken = rb /\ re = rb
         /\ rpc # "idle" /\ re = rb => Untaken = rb
         /\ rpc = "clean" => Untaken = re /\ Front = re
         /\ rpc = "reset" => /\ Front = rb + InHandSize /\ InHandSize > 0 /\ InHandSize \in Nat
                             /\ Whole(rb, MsgAt(rb)) /\ InHandSize = Need(MsgAt(rb))
                             /\ MsgAt(rb) \in Message /\ rv.ret = "OK" /\ rb <= re
<1>1. /\ Front \in Nat /\ rpos <= Front
      /\ rpc = "reset" => /\ InHandSize \in Nat /\ InHandSize > 0 /\ Front = rb + InHandSize
      /\ rpc = "scan" => Front = rb /\ re = rb
      /\ rpc = "clean" => Front = re
      /\ rpc = "idle" => Front = rpos
  BY AtFront
<1>2. /\ rb \in Nat /\ re \in Nat /\ rpos \in Nat /\ wpos \in Nat
      /\ rpc \in {"scan", "reset"} => rpos <= rb
      /\ rpc = "reset" => rb <= re
      /\ rpc \in {"idle", "scan", "reset", "clean"}
  BY Cursors DEF Steady
<1>3. rpc = "reset" => /\ Whole(rb, MsgAt(rb)) /\ InHandSize = Need(MsgAt(rb))
                       /\ MsgAt(rb) \in Message /\ rv.ret = "OK"
  BY DEF Steady, Blocks, ReaderInv, ResetInv, Whole, InHandSize
<1> QED BY <1>1, <1>2, <1>3 DEF Untaken

\* The scan passes only what has died.
LEMMA PlacesScan ==
  ASSUME Steady, Steady', hz' = {}, Once, AllPlaces, DiedOpen,
         ScanEnd \/ ScanSkip \/ ScanWait \/ ScanTimeout \/ ScanBlock
  PROVE  AllPlaces'
<1>0. Calm'
  BY DEF Calm, Without
<1>1. /\ rpc = "scan" /\ UNCHANGED <<rpos, wpos, head, blk, delivered>> /\ CallsSame
      /\ \/ rpc' = "clean" /\ re' = rb /\ rb' = rb
         \/ rpc' = "scan" /\ rb' = rb + 1 /\ ~IsPublished(rb)
         \/ /\ rpc' = "reset" /\ re' = rb /\ rb' = rb
            /\ rb \in Used /\ IsPublished(rb) /\ Front' = rb + Need(MsgAt(rb))
  BY <1>0, ScanForm
<1>2. order' = order
  BY DEF ScanEnd, ScanSkip, ScanWait, ScanTimeout, ScanBlock, ReaderOnly
<1>3. WaitsSame
  BY <1>1, HeadsSameWaits
<1>4. \A m : ~InHand(m)'
  BY <1>1, AtUntaken DEF InHand
<1>5. NotTaken'
  <2>1. Untaken = rb /\ rb \in Nat /\ Untaken' = rb'
    BY <1>1, AtUntaken DEF Untaken, Front
  <2> QED BY <1>1, <1>2, <1>3, <2>1, NotTakenOn DEF WaitsSame
<1>6. Passed'
  <2>1. CASE rb' = rb
    BY <1>1, <1>2, <2>1, PassedSame
  <2>2. CASE rpc' = "scan" /\ rb' = rb + 1 /\ ~IsPublished(rb)
    <3> SUFFICES ASSUME NEW i \in Places', rpos' <= order'[i].p, order'[i].p < rb'
        PROVE  Died(order[i].m)'
      BY DEF Passed
    <3>1. /\ i \in Places /\ order'[i] = order[i] /\ order[i].p \in Nat /\ order[i].m \in Message
          /\ order[i].m[1] \in Writers /\ order[i] = Place(order[i].m, order[i].p)
      BY <1>2, PlaceTypes, MessageParts DEF Places
    <3>2. Died(order[i].m)' <=> Died(order[i].m)
      BY <1>1, <1>2 DEF CallsSame, Died
    <3>3. CASE order[i].p < rb
      BY <1>1, <3>1, <3>2, <3>3 DEF AllPlaces, Passed
    <3>4. CASE order[i].p = rb
      <4>1. ~Waits(order[i].p)
        BY <2>2, <3>4 DEF Waits
      <4>2. ~Finished(order[i].m)
        <5>1. Untaken <= order[i].p
          BY <1>1, <3>4, AtUntaken
        <5> QED BY <3>1, <4>1, <5>1 DEF AllPlaces, NotTaken
      <4>3. ~AtPlace(order[i])
        <5> SUFFICES ASSUME NEW w \in Writers, HoldsPlace(w), wc[w] = rb PROVE FALSE
          BY <3>1, <3>4 DEF AtPlace, Place
        <5>1. pc[w] # "check"
          BY <3>4, <4>1 DEF Once, Unchecked, Untouched
        <5>2. Filling(w)'
          BY <1>1, <5>1 DEF HoldsPlace, Filling, CallsSame
        <5>3. Front' <= wc'[w] /\ Front' = rb + 1
          BY <2>2, <5>2 DEF Steady, Blocks, FillingInv, Own, Front
        <5>4. wc'[w] = rb /\ rb \in Nat
          BY <1>1, AtUntaken DEF CallsSame
        <5> QED BY <5>3, <5>4
      <4> QED BY <3>1, <3>2, <4>2, <4>3 DEF AllPlaces, Fates
    <3> QED BY <2>2, <3>1, <3>3, <3>4, AtUntaken
  <2> QED BY <1>1, <2>1, <2>2
<1> QED BY <1>1, <1>2, <1>3, <1>4, <1>5, <1>6, HeldNothing, PlacesReader DEF WaitsSame

\* Nothing was passed or is in hand when the reader begins, crashes without
\* having freed anything, or time passes.
LEMMA PlacesIdle ==
  ASSUME Steady, Steady', hz' = {}, Once, AllPlaces, DiedOpen,
         Recv \/ ReaderCrash \/ Tick \/ UNCHANGED vars
  PROVE  AllPlaces'
<1>1. CallsSame /\ UNCHANGED <<order, rpos, wpos, head, blk>>
  BY DEF Recv, ReaderCrash, Tick, vars, shared, writerV, readerV, history, CallsSame
<1>2. WaitsSame
  BY <1>1, HeadsSameWaits
<1>3. CASE Recv
  <2>1. rpc = "idle" /\ rpc' = "scan" /\ rb' = rpos /\ re' = rpos
    BY <1>3 DEF Recv, RGoto
  <2>2. NotTaken'
    <3>1. Untaken = rpos /\ rpos \in Nat /\ Untaken' = rpos
      BY <2>1, AtUntaken DEF Untaken, Front
    <3> QED BY <1>1, <1>2, <3>1, NotTakenOn DEF WaitsSame
  <2>3. Passed'
    <3> SUFFICES ASSUME NEW i \in Places', rpos' <= order'[i].p, order'[i].p < rb' PROVE FALSE
      BY DEF Passed
    <3>1. order'[i].p \in Nat /\ rpos \in Nat
      BY <1>1, PlaceTypes, AtUntaken DEF Places
    <3> QED BY <1>1, <2>1, <3>1
  <2>4. \A m : ~InHand(m)'
    BY <2>1 DEF InHand
  <2> QED BY <1>1, <1>2, <2>2, <2>3, <2>4, HeldNothing, PlacesReader DEF WaitsSame
<1>4. CASE ReaderCrash
  <2>1. rpc # "idle" /\ rpc' = "idle" /\ re = rb
    BY <1>4 DEF ReaderCrash, RGoto
  <2>2. NotTaken'
    <3> SUFFICES ASSUME NEW i \in Places', Finished(order[i].m)', Untaken' <= order'[i].p
        PROVE  Waits(order[i].p)'
      BY DEF NotTaken
    <3>1. i \in Places /\ order'[i] = order[i] /\ order[i].p \in Nat /\ order[i].m \in Message
      BY <1>1, PlaceTypes DEF Places
    <3>2. Finished(order[i].m)
      BY <1>1, <3>1 DEF Finished, CallsSame
    <3>3. ~Died(order[i].m)
      <4>1. \A m : Finished(m) => ~Died(m)
        <5> TAKE m
        <5>1. <<m, "SUCCESS">>[1] = m
          OBVIOUS
        <5> QED BY <5>1 DEF DiedOpen, Finished
      <4> QED BY <3>2, <4>1
    <3>4. rpos <= order[i].p
      <4>1. Untaken' = rpos'
        BY <2>1 DEF Untaken, Front
      <4> QED BY <1>1, <3>1, <4>1
    <3>5. ~(order[i].p < rb)
      BY <2>1, <3>1, <3>3, <3>4 DEF AllPlaces, Passed
    <3>6. Untaken <= order[i].p
      BY <2>1, <3>1, <3>5, AtUntaken
    <3>7. Waits(order[i].p)
      BY <3>1, <3>2, <3>6 DEF AllPlaces, NotTaken
    <3> QED BY <1>2, <3>1, <3>7 DEF WaitsSame
  <2>3. Passed'
    BY <2>1 DEF Passed
  <2>4. \A m : ~InHand(m)'
    BY <2>1 DEF InHand
  <2> QED BY <1>1, <1>2, <2>2, <2>3, <2>4, HeldNothing, PlacesReader DEF WaitsSame
<1>5. CASE Tick \/ UNCHANGED vars
  <2>1. RingSame
    BY <1>5 DEF Tick, vars, shared, readerV, history, RingSame
  <2>2. HandSame /\ Front' = Front /\ UNCHANGED <<rpc, rb, re, rpos>>
    BY <2>1, SameWaits DEF RingSame
  <2>3. NotTaken'
    <3>1. Untaken' = Untaken /\ Untaken \in Nat
      BY <2>2, AtUntaken DEF Untaken
    <3> QED BY <1>1, <1>2, <3>1, NotTakenOn DEF WaitsSame
  <2>4. Passed'
    <3>1. \A m : Died(m)' <=> Died(m)
      BY <1>1 DEF CallsSame, Died
    <3> QED BY <1>1, <2>2, <3>1 DEF AllPlaces, Passed, Places
  <2>5. Held'
    BY <1>1, <2>2, HeldSame
  <2> QED BY <1>1, <1>2, <2>3, <2>4, <2>5, PlacesReader DEF WaitsSame
<1> QED BY <1>3, <1>4, <1>5

\* The block the reader begins to free is the one at its place, and its call
\* has returned or died.
LEMMA PlacesReset ==
  ASSUME Steady, Steady', hz' = {}, Once, AllPlaces, ResetNode
  PROVE  AllPlaces'
<1>1. PICK b : b = rb
  OBVIOUS
<1>2. /\ \A p : Waits(p)' <=> Waits(p) /\ p # re
      /\ \A p : Waits(p)' => MsgAt(p)' = MsgAt(p)
      /\ \A m : InHand(m)' <=> m = MsgAt(b)
      /\ rpc = "reset" /\ rpc' = "reset" /\ rb' = rb /\ re' = re + 1 /\ rb <= re
      /\ rb \in Nat /\ re \in Nat /\ re < Front
      /\ Front' = Front /\ CallsSame
  BY <1>1, ResetWaits
<1>3. UNCHANGED <<order, wpos, rpos>> /\ OwnersAt(re, {"check"}) = {}
  BY DEF ResetNode, ReaderOnly
<1>4. /\ Untaken \in Nat /\ Untaken <= Front /\ Front \in Nat /\ rpos <= rb
      /\ Front = rb + Need(MsgAt(rb)) /\ Need(MsgAt(rb)) > 0 /\ Need(MsgAt(rb)) \in Nat
      /\ MsgAt(rb) \in Message /\ rv.ret = "OK"
  BY <1>2, AtUntaken
<1>5. NotTaken'
  <2>1. Untaken' = Front
    BY <1>2 DEF Untaken
  <2>2. \A p \in Nat : Untaken' <= p /\ Waits(p) => Waits(p)'
    BY <1>2, <1>4, <2>1
  <2> QED BY <1>2, <1>3, <1>4, <2>1, <2>2, NotTakenOn
<1>6. Passed'
  BY <1>2, <1>3, PassedSame
<1>7. Held'
  <2>1. PICK m : m = MsgAt(b)
    OBVIOUS
  <2>2. Has(m, b) /\ (Died(m) \/ Finished(m))
    <3>1. CASE re = rb
      <4>1. Waits(b)
        BY <1>1, <1>2, <3>1 DEF Once, TakenWaits
      <4>2. Has(m, b)
        BY <2>1, <4>1 DEF AllPlaces, Named, Waits
      <4>3. PICK i \in Places : order[i] = Place(m, b)
        BY <4>2 DEF Has
      <4>4. order[i].m = m /\ order[i].p = b /\ m \in Message /\ m[1] \in Writers
        BY <1>1, <1>4, <2>1, <4>3, MessageParts DEF Place
      <4>5. ~AtPlace(order[i])
        <5> SUFFICES ASSUME NEW w \in Writers, HoldsPlace(w), wc[w] = rb PROVE FALSE
          BY <1>1, <4>3, <4>4 DEF AtPlace, Place
        <5>1. pc[w] # "check"
          BY <1>3, <3>1 DEF OwnersAt
        <5>2. Filling(w)
          BY <5>1 DEF HoldsPlace, Filling
        <5>3. Front <= wc[w]
          BY <5>2, AtBlock
        <5> QED BY <1>2, <1>4, <3>1, <5>3
      <4> QED BY <4>2, <4>3, <4>4, <4>5 DEF AllPlaces, Fates
    <3>2. CASE re # rb
      <4>1. InHand(m)
        BY <1>1, <1>2, <1>4, <2>1, <3>2 DEF InHand, MsgAt
      <4> QED BY <1>1, <1>4, <2>1, <4>1 DEF AllPlaces, Held
    <3> QED BY <3>1, <3>2
  <2>3. Has(m, b)' /\ (Died(m)' \/ Finished(m)')
    BY <1>2, <1>3, <2>2 DEF CallsSame, Died, Finished, Has, Places, Place
  <2> SUFFICES ASSUME NEW n \in Message, InHand(n)'
      PROVE  Has(n, rb)' /\ (Died(n)' \/ Finished(n)') /\ Front' = rb' + Need(n)
    BY DEF Held
  <2>4. n = m
    BY <1>2, <2>1
  <2>5. Has(n, rb)'
    BY <1>1, <1>2, <2>3, <2>4 DEF Has, Place, Places
  <2> QED BY <1>1, <1>2, <1>4, <2>1, <2>3, <2>4, <2>5
<1> QED BY <1>2, <1>3, <1>5, <1>6, <1>7, PlacesReader

\* Taking the block, cleaning and publishing the cursor.
LEMMA PlacesTake ==
  ASSUME Steady, Steady', AllPlaces, TakeBlock \/ CleanNode
  PROVE  AllPlaces'
<1>1. UNCHANGED <<order, wpos, rpos>>
  BY DEF TakeBlock, CleanNode, ReaderOnly
<1>2. WaitsSame /\ HandSame /\ CallsSame
  BY TakeWaits, CleanWaits
<1>3. /\ rb' = rb /\ Front' = Front /\ rpc' = "clean" /\ rpc # "idle"
  <2>1. CASE TakeBlock
    <3>1. UNCHANGED <<rb, re>> /\ rpc' = "clean" /\ rpc = "reset" /\ re = rb + InHandSize
      BY <2>1, TakesWhole
    <3> QED BY <3>1 DEF Front
  <2>2. CASE CleanNode
    <3>1. Front' = Front /\ rpc' = "clean" /\ rpc = "clean"
      BY <2>2, CleanWaits
    <3> QED BY <2>2, <3>1 DEF CleanNode
  <2> QED BY <2>1, <2>2
<1>4. NotTaken'
  <2>1. Untaken' = Front /\ Untaken \in Nat /\ Untaken <= Front /\ Front \in Nat
    BY <1>3, AtUntaken DEF Untaken
  <2> QED BY <1>1, <1>2, <2>1, NotTakenOn DEF WaitsSame
<1>5. Passed'
  BY <1>1, <1>2, <1>3, PassedSame
<1>6. Held'
  BY <1>1, <1>2, <1>3, HeldSame
<1> QED BY <1>1, <1>2, <1>4, <1>5, <1>6, PlacesReader DEF WaitsSame

\* When the reader publishes its cursor it has nothing in hand any more.
LEMMA PlacesStore ==
  ASSUME Steady, Steady', AllPlaces, StoreReadCur
  PROVE  AllPlaces'
<1>1. UNCHANGED <<order, wpos>>
  BY DEF StoreReadCur
<1>2. /\ WaitsSame /\ CallsSame /\ rpc = "clean" /\ rpc' = "idle" /\ Front' = Front
      /\ \A m : ~InHand(m)'
  BY StoreWaits
<1>3. NotTaken'
  <2>1. Untaken' = Front /\ Untaken \in Nat /\ Untaken = Front
    BY <1>2, AtUntaken DEF Untaken
  <2> QED BY <1>1, <1>2, <2>1, NotTakenOn DEF WaitsSame
<1>4. Passed'
  BY <1>2 DEF Passed
<1> QED BY <1>1, <1>2, <1>3, <1>4, HeldNothing, PlacesReader DEF WaitsSame

\* An empty ring has no places.
LEMMA PlacesInit == Init => PlacesInv
<1> SUFFICES ASSUME Init PROVE PlacesInv
  OBVIOUS
<1>1. /\ order = <<>> /\ returned = {} /\ rpc = "idle" /\ Places = {}
      /\ \A w \in Writers : ~HoldsPlace(w)
  BY DEF Init, Places, HoldsPlace, Writing
<1>2. \A p : ~Waits(p)
  <2>1. wpos = rpos /\ rpos \in Nat
    BY StartAssumption DEF Init
  <2>2. Used = {}
    BY <2>1 DEF Used
  <2> QED BY <2>2 DEF Waits
<1>3. \A m : ~InHand(m)
  BY <1>1 DEF InHand
<1>4. AllPlaces
  BY <1>1, <1>2, <1>3 DEF AllPlaces, InTurn, Fates, Begun, Named, NotTaken, Passed, Held
<1>5. DiedOpen
  BY <1>1 DEF DiedOpen
<1> QED BY <1>4, <1>5 DEF PlacesInv

\* Every step keeps the places as long as it hits no race window.
LEMMA PlacesNext ==
  ASSUME TypeOK, RoomInv, CallsInv, BlocksInv, OnceInv, PlacesInv,
         TypeOK', RoomInv', CallsInv', BlocksInv', [Next]_vars
  PROVE  PlacesInv'
<1>0. DiedOpen /\ DiedOpen'
  BY DiedOpenNext DEF PlacesInv
<1> SUFFICES ASSUME hz' = {} PROVE AllPlaces'
  BY <1>0 DEF PlacesInv
<1>1. hz = {}
  BY WindowsStay
<1>2. Calm /\ Calm' /\ CalmNoLate
  BY <1>1 DEF Calm, CalmNoLate, Without
<1>3. Steady /\ Steady' /\ Once /\ AllPlaces
  BY <1>1, <1>2 DEF Steady, BlocksInv, OnceInv, PlacesInv
<1>4. CASE \E w \in Writers : Send(w) \/ Step(w) \/ CasSpurious(w) \/ Crash(w)
  BY <1>3, <1>4, PlacesWriter
<1>5. CASE ScanEnd \/ ScanSkip \/ ScanWait \/ ScanTimeout \/ ScanBlock
  BY <1>0, <1>3, <1>5, PlacesScan
<1>6. CASE Recv \/ ReaderCrash \/ Tick \/ UNCHANGED vars
  BY <1>0, <1>3, <1>6, PlacesIdle
<1>7. CASE ResetNode \/ TakeBlock \/ CleanNode \/ StoreReadCur
  BY <1>3, <1>7, PlacesReset, PlacesTake, PlacesStore
<1> QED BY <1>4, <1>5, <1>6, <1>7 DEF Next, ReaderStep

\* Until a race window is hit, every block ever reserved is dead, being filled
\* or returned; what returned waits in the ring until it is taken; and the reader
\* passes over nothing but the blocks of calls that died.
THEOREM PlacesCorrect == Spec => []PlacesInv
<1>1. Init => PlacesInv
  BY PlacesInit
<1>2. /\ TypeOK /\ RoomInv /\ CallsInv /\ BlocksInv /\ OnceInv /\ PlacesInv
      /\ TypeOK' /\ RoomInv' /\ CallsInv' /\ BlocksInv' /\ [Next]_vars
      => PlacesInv'
  BY PlacesNext
<1> QED BY <1>1, <1>2, TypeCorrect, RoomSafe, CallsCorrect, BlocksCorrect, OnceCorrect, PTL DEF Spec

(***************************************************************************)
(* The queue its users see.                                                *)
(***************************************************************************)
\* Every set of natural numbers has a least one.
LEMMA LeastElement ==
  ASSUME NEW T, T \subseteq Nat, T # {}
  PROVE  \E x \in T : \A y \in T : x <= y
<1> DEFINE R == OpToRel(<, Nat)
<1>1. \E x \in T : \A y \in T : ~ (<<y, x>> \in R)
  <2>1. IsWellFoundedOn(R, Nat)
    BY NatLessThanWellFounded
  <2> HIDE DEF R
  <2> QED BY <2>1, WFMin
<1>2. \A x, y \in Nat : <<y, x>> \in R <=> y < x
  BY DEF OpToRel
<1> HIDE DEF R
<1>3. PICK x \in T : \A y \in T : ~ (<<y, x>> \in R)
  BY <1>1
<1>4. x \in Nat /\ \A y \in T : y \in Nat /\ ~(y < x)
  BY <1>2, <1>3, Zenon
<1>5. \A y \in T : x <= y
  BY <1>4
<1> QED BY <1>5

\* Counting up from 0 reaches every number.
LEMMA Upwards ==
  ASSUME NEW S, S \subseteq Nat, 0 \in S, \A n \in S : n + 1 \in S
  PROVE  S = Nat
<1> SUFFICES ASSUME Nat \ S # {} PROVE FALSE
  OBVIOUS
<1>1. PICK x \in Nat \ S : \A y \in Nat \ S : x <= y
  BY LeastElement
<1>2. x - 1 \in S
  BY <1>1
<1> QED BY <1>1, <1>2

\* g[i] is the sum of the first i of the n numbers d.
Sums(g, d, n) == g \in [0 .. n -> Nat] /\ g[0] = 0 /\ \A i \in 1 .. n : g[i] = g[i - 1] + d[i]

\* There is one.
LEMMA SumExists ==
  ASSUME NEW n \in Nat, NEW d, \A i \in 1 .. n : d[i] \in Nat
  PROVE  \E g : Sums(g, d, n)
<1> DEFINE S == {k \in Nat : k <= n => \E g : Sums(g, d, k)}
<1>1. 0 \in S
  <2> DEFINE g == [i \in 0 .. 0 |-> 0]
  <2>1. Sums(g, d, 0)
    BY DEF Sums
  <2> QED BY <2>1
<1>2. ASSUME NEW k \in S, k + 1 <= n PROVE \E g : Sums(g, d, k + 1)
  <2>1. k \in Nat /\ k <= n
    BY <1>2
  <2>2. PICK g : Sums(g, d, k)
    BY <2>1
  <2> DEFINE h == [i \in 0 .. k + 1 |-> IF i = k + 1 THEN g[k] + d[k + 1] ELSE g[i]]
  <2>3. k + 1 \in 1 .. n /\ d[k + 1] \in Nat /\ g[k] \in Nat
    BY <1>2, <2>1, <2>2 DEF Sums
  <2>4. h \in [0 .. k + 1 -> Nat]
    BY <2>1, <2>2, <2>3 DEF Sums
  <2>5. h[0] = 0
    BY <2>1, <2>2 DEF Sums
  <2>6. ASSUME NEW i \in 1 .. k + 1 PROVE h[i] = h[i - 1] + d[i]
    <3>1. CASE i = k + 1
      BY <2>1, <3>1
    <3>2. CASE i \in 1 .. k
      BY <2>1, <2>2, <3>2 DEF Sums
    <3> QED BY <2>1, <3>1, <3>2
  <2> HIDE DEF h
  <2>7. Sums(h, d, k + 1)
    BY <2>4, <2>5, <2>6 DEF Sums
  <2> QED BY <2>7
<1>3. S = Nat
  <2>1. S \subseteq Nat
    OBVIOUS
  <2>2. ASSUME NEW k \in S PROVE k + 1 \in S
    <3>1. k + 1 \in Nat
      BY <2>1
    <3>2. k + 1 <= n => \E g : Sums(g, d, k + 1)
      BY <1>2
    <3> QED BY <3>1, <3>2
  <2> HIDE DEF S
  <2> QED BY <1>1, <2>1, <2>2, Upwards
<1> QED BY <1>3

\* What grows as fast stays above it.
LEMMA SumBelow ==
  ASSUME NEW n \in Nat, NEW d, NEW g, NEW e, \A i \in 1 .. n : d[i] \in Nat,
         g[0] = 0, \A i \in 1 .. n : g[i] = g[i - 1] + d[i],
         \A i \in 0 .. n : e[i] \in Nat, \A i \in 1 .. n : e[i - 1] + d[i] <= e[i]
  PROVE  g[n] \in Nat /\ g[n] <= e[n]
<1> DEFINE S == {k \in Nat : k <= n => g[k] \in Nat /\ g[k] <= e[k]}
<1>1. 0 \in S
  OBVIOUS
<1>2. ASSUME NEW k \in S PROVE k + 1 \in S
  <2> SUFFICES ASSUME k + 1 <= n PROVE g[k + 1] \in Nat /\ g[k + 1] <= e[k + 1]
    OBVIOUS
  <2>1. /\ k \in Nat /\ k + 1 \in 1 .. n /\ (k + 1) - 1 = k /\ k \in 0 .. n /\ k + 1 \in 0 .. n
        /\ g[k] \in Nat /\ g[k] <= e[k]
    OBVIOUS
  <2>2. g[k + 1] = g[k] + d[k + 1] /\ e[k] + d[k + 1] <= e[k + 1] /\ d[k + 1] \in Nat
    BY <2>1
  <2>3. e[k] \in Nat /\ e[k + 1] \in Nat
    BY <2>1
  <2> QED BY <2>1, <2>2, <2>3
<1>3. S = Nat
  <2>1. S \subseteq Nat
    OBVIOUS
  <2> HIDE DEF S
  <2> QED BY <1>1, <1>2, <2>1, Upwards
<1> QED BY <1>3

\* The size of a queue, if its messages have their places one behind the other:
\* the i-th one ends at e[i].
LEMMA SizeBelow ==
  ASSUME NEW q \in Seq(Message), NEW e, \A i \in 0 .. Len(q) : e[i] \in Nat,
         \A i \in 1 .. Len(q) : e[i - 1] + Need(q[i]) <= e[i]
  PROVE  Queue!Size(q) \in Nat /\ Queue!Size(q) <= e[Len(q)]
<1> DEFINE n == Len(q)
           d == [i \in 1 .. n |-> Needs[q[i]]]
<1>1. n \in Nat /\ \A i \in 1 .. n : d[i] \in Nat /\ d[i] = Needs[q[i]] /\ d[i] = Need(q[i])
  <2>1. \A i \in 1 .. n : q[i] \in Message /\ Needs[q[i]] = Need(q[i])
    BY DEF Needs
  <2> QED BY <2>1, NeedInNat
<1> HIDE DEF d
<1>2. PICK k : Sums(k, d, n)
  BY <1>1, SumExists
<1>3. k = [i \in 0 .. Len(q) |-> IF i = 0 THEN 0 ELSE k[i - 1] + Needs[q[i]]]
  BY <1>1, <1>2 DEF Sums
<1> DEFINE g == CHOOSE f : f = [i \in 0 .. Len(q) |-> IF i = 0 THEN 0 ELSE f[i - 1] + Needs[q[i]]]
<1>4. g = [i \in 0 .. Len(q) |-> IF i = 0 THEN 0 ELSE g[i - 1] + Needs[q[i]]]
  BY <1>3
<1>5. Queue!Size(q) = g[Len(q)]
  BY DEF Queue!Size
<1> HIDE DEF g
<1>6. g[0] = 0 /\ \A i \in 1 .. n : g[i] = g[i - 1] + d[i]
  <2>1. \A i \in 0 .. n : g[i] = IF i = 0 THEN 0 ELSE g[i - 1] + Needs[q[i]]
    BY <1>4
  <2>2. 0 \in 0 .. n /\ \A i \in 1 .. n : i \in 0 .. n /\ i # 0
    BY <1>1
  <2>3. g[0] = 0
    BY <2>1, <2>2
  <2>4. ASSUME NEW i \in 1 .. n PROVE g[i] = g[i - 1] + d[i]
    BY <1>1, <2>1, <2>2
  <2> QED BY <2>3, <2>4
<1>7. \A i \in 1 .. n : e[i - 1] + d[i] <= e[i]
  BY <1>1
<1>8. g[n] \in Nat /\ g[n] <= e[n]
  BY <1>1, <1>6, <1>7, SumBelow
<1> QED BY <1>5, <1>8

\* The places that begin before a position come before the others.
LEMMA FirstBehind ==
  ASSUME Steady, InTurn, NEW x \in Nat
  PROVE  \E k \in 0 .. Len(order) : \A i \in Places : order[i].p < x <=> i <= k
<1> DEFINE T == {i \in Places : ~(order[i].p < x)}
<1>1. /\ \A i \in Places : /\ order[i].p \in Nat /\ Need(order[i].m) \in Nat
                           /\ Need(order[i].m) > 0
      /\ Places = 1 .. Len(order) /\ Len(order) \in Nat
  BY PlaceTypes, NeedInNat DEF InTurn
<1>2. \A i, j \in Places : i < j => order[i].p < order[j].p
  <2> SUFFICES ASSUME NEW i \in Places, NEW j \in Places, i < j PROVE order[i].p < order[j].p
    OBVIOUS
  <2>1. order[i].p + Need(order[i].m) <= order[j].p
    BY DEF InTurn
  <2> QED BY <1>1, <2>1
<1>3. CASE T = {}
  <2>1. \A i \in Places : order[i].p < x /\ i <= Len(order)
    BY <1>1, <1>3
  <2> QED BY <1>1, <2>1
<1>4. CASE T # {}
  <2>1. T \subseteq Nat
    BY <1>1
  <2> HIDE DEF T
  <2>2. PICK f \in T : \A j \in T : f <= j
    BY <1>4, <2>1, LeastElement
  <2>3. f \in Places /\ f \in Nat /\ ~(order[f].p < x) /\ \A j \in Places : j < f => order[j].p < x
    BY <1>1, <2>2 DEF T
  <2>4. \A i \in Places : order[i].p < x <=> i <= f - 1
    <3> SUFFICES ASSUME NEW i \in Places PROVE order[i].p < x <=> i <= f - 1
      OBVIOUS
    <3>1. i \in Nat /\ order[i].p \in Nat /\ order[f].p \in Nat
      BY <1>1, <2>3
    <3>2. CASE i < f
      BY <2>3, <3>1, <3>2
    <3>3. CASE i = f
      BY <2>3, <3>1, <3>3
    <3>4. CASE f < i
      <4>1. order[f].p < order[i].p
        BY <1>2, <2>3, <3>4
      <4> QED BY <2>3, <3>1, <3>4, <4>1
    <3> QED BY <2>3, <3>1, <3>2, <3>3, <3>4
  <2>5. f - 1 \in 0 .. Len(order)
    BY <1>1, <2>3
  <2> QED BY <2>4, <2>5
<1> QED BY <1>3, <1>4

\* What is pending when the first k of the places o begin before the position x.
LEMMA AfterTheFirst ==
  ASSUME NEW o \in Seq(OrderType), NEW x \in Nat, NEW k \in 0 .. Len(o),
         \A i \in DOMAIN o : o[i].p < x <=> i <= k
  PROVE  LET b == CHOOSE c \in 0 .. Len(o) : \A i \in DOMAIN o : o[i].p < x <=> i <= c
             q == [i \in 1 .. Len(o) - b |-> o[i + b].m]
         IN  q \in Seq(Message) /\ Len(q) = Len(o) - k
             /\ \A i \in 1 .. Len(o) - k : q[i] = o[i + k].m
<1>1. DOMAIN o = 1 .. Len(o) /\ Len(o) \in Nat /\ \A i \in 1 .. Len(o) : o[i].m \in Message
  <2>1. DOMAIN o = 1 .. Len(o) /\ Len(o) \in Nat /\ \A i \in 1 .. Len(o) : o[i] \in OrderType
    OBVIOUS
  <2>2. \A r \in OrderType : r.m \in Message
    BY DEF OrderType
  <2> QED BY <2>1, <2>2
<1>2. ASSUME NEW c \in 0 .. Len(o), \A i \in DOMAIN o : o[i].p < x <=> i <= c PROVE c = k
  <2>1. ~(c < k)
    BY <1>1, <1>2
  <2>2. ~(k < c)
    BY <1>1, <1>2
  <2> QED BY <1>1, <2>1, <2>2
<1>3. (CHOOSE c \in 0 .. Len(o) : \A i \in DOMAIN o : o[i].p < x <=> i <= c) = k
  BY <1>2
<1> DEFINE q == [i \in 1 .. Len(o) - k |-> o[i + k].m]
<1>4. Len(o) - k \in Nat /\ \A i \in 1 .. Len(o) - k : i + k \in 1 .. Len(o)
  BY <1>1
<1>5. q \in [1 .. Len(o) - k -> Message]
  BY <1>1, <1>4
<1>6. q \in Seq(Message) /\ Len(q) = Len(o) - k
  <2> HIDE DEF q
  <2> QED BY <1>4, <1>5
<1> QED BY <1>3, <1>6

\* The first k places are behind the read cursor.
Cut(k) == k \in 0 .. Len(order) /\ \A i \in Places : order[i].p < rpos <=> i <= k
Pended(k) == /\ Pending \in Seq(Message) /\ Len(Pending) = Len(order) - k
             /\ \A i \in 1 .. Len(order) - k : Pending[i] = order[i + k].m

\* What is pending, before a step and after it.
LEMMA PendingNow ==
  ASSUME NEW k
  PROVE  /\ TypeOK /\ Cut(k) => Pended(k)
         /\ TypeOK' /\ Cut(k)' => Pended(k)'
<1>1. ASSUME TypeOK, Cut(k) PROVE Pended(k)
  <2>1. order \in Seq(OrderType) /\ rpos \in Nat
    BY <1>1 DEF TypeOK, HistoryOK, CursorsOK, Positions
  <2> QED BY <1>1, <2>1, AfterTheFirst DEF Cut, Pended, Pending, Behind, Places
<1>2. ASSUME TypeOK', Cut(k)' PROVE Pended(k)'
  <2>1. order' \in Seq(OrderType) /\ rpos' \in Nat
    BY <1>2 DEF TypeOK, HistoryOK, CursorsOK, Positions
  <2>2. PICK o, x : o = order' /\ x = rpos'
    OBVIOUS
  <2> QED BY <1>2, <2>1, <2>2, AfterTheFirst DEF Cut, Pended, Pending, Behind, Places
<1> QED BY <1>1, <1>2

\* The messages of the places at or after the read cursor are pending.
LEMMA IsPending ==
  ASSUME Steady, NEW k, Cut(k), NEW m
  PROVE  m \in Queue!Range(Pending) <=> \E i \in Places : order[i].m = m /\ rpos <= order[i].p
<1>1. Pended(k)
  BY PendingNow DEF Steady
<1>2. /\ Places = 1 .. Len(order) /\ Len(order) \in Nat /\ rpos \in Nat
      /\ \A i \in Places : order[i].p \in Nat
  BY PlaceTypes, Cursors DEF Steady
<1>3. k \in Nat /\ k <= Len(order)
  BY <1>2 DEF Cut
<1>4. ASSUME NEW i \in 1 .. Len(Pending)
      PROVE  i + k \in Places /\ order[i + k].m = Pending[i] /\ rpos <= order[i + k].p
  BY <1>1, <1>2, <1>3 DEF Cut, Pended
<1>5. ASSUME NEW i \in Places, rpos <= order[i].p
      PROVE  i - k \in 1 .. Len(Pending) /\ Pending[i - k] = order[i].m
  <2>1. ~(i <= k)
    BY <1>2, <1>5 DEF Cut
  <2>2. i - k \in 1 .. Len(order) - k /\ (i - k) + k = i
    BY <1>2, <1>3, <2>1
  <2> QED BY <1>1, <2>2 DEF Pended
<1> QED BY <1>4, <1>5 DEF Queue!Range

\* A message is an orphan when its call died, done when it returned success.
LEMMA CallsInQueue ==
  ASSUME NEW m \in Message
  PROVE  /\ Queue!Orphan(m) <=> Died(m)
         /\ m \in Succeeded <=> Finished(m)
         /\ m \in Refused <=> <<m, "BUFF_LIMIT">> \in returned
<1>1. m[1] \in Writers
  BY MessageParts
<1>2. Queue!Orphan(m) <=> \E v \in Writers : pc[v] = "dead" /\ m[1] = v /\ m[2] = sent[v]
  BY DEF Queue!Orphan, Orphans
<1> QED BY <1>1, <1>2 DEF Died, Succeeded, Refused, Finished

\* New to the queue.
New(m) == Queue!Fresh(m) /\ m \notin Queue!Range(Pending)

\* A call that has no place and has not returned is new.
LEMMA NewToQueue ==
  ASSUME Steady, AllPlaces, NEW k, Cut(k), NEW m \in Message, ~Died(m), ~HoldsPlace(m[1]),
         \A r : <<m, r>> \notin returned
  PROVE  New(m)
<1>1. Queue!Fresh(m)
  BY CallsInQueue DEF Queue!Fresh, Finished
<1>2. ASSUME NEW i \in Places, order[i].m = m PROVE FALSE
  BY <1>2 DEF AllPlaces, Fates, AtPlace, Finished
<1> QED BY <1>1, <1>2, IsPending DEF New

\* What a step of the queue is made of.
LEMMA QueueSteps ==
  /\ \A m \in Message : Queue!Reserve(m) \/ Queue!Commit(m) \/ Queue!Refuse(m) => Queue!Next
  /\ Queue!Die \/ Queue!Receive \/ hz' # {} => Queue!Next
<1>1. DOMAIN Needs = Message
  BY DEF Needs
<1> QED BY <1>1 DEF Queue!Next

\* A step its users do not see.
LEMMA QueueSame ==
  ASSUME hz = {}, hz' = {}, UNCHANGED <<order, rpos, returned, delivered>>, Orphans' = Orphans
  PROVE  UNCHANGED Queue!vars
<1>1. Pending' = Pending
  BY DEF Pending, Behind
<1>2. Succeeded' = Succeeded /\ Refused' = Refused
  BY DEF Succeeded, Refused
<1> QED BY <1>1, <1>2 DEF Queue!vars

\* Nobody dies, and who is dead begins no call.
LEMMA OrphansSame ==
  ASSUME \A w \in Writers : /\ pc'[w] = "dead" <=> pc[w] = "dead"
                            /\ pc[w] = "dead" => sent'[w] = sent[w]
  PROVE  Orphans' = Orphans
BY DEF Orphans

\* The message of a step of the writer's does not die by it.
LEMMA OrphansKept ==
  ASSUME Steady, NEW w \in Writers, Does(w), OthersSame(w), ~Dies(w)
  PROVE  Orphans' = Orphans
<1>1. sent \in [Writers -> 0 .. MaxSend]
  BY DEF Steady, TypeOK, WritersOK
<1>2. /\ pc[w] # "dead" /\ pc'[w] # "dead"
      /\ \A v \in Writers \ {w} : pc'[v] = pc[v] /\ sent'[v] = sent[v]
  BY <1>1 DEF Does, Begins, Looks, IsRefused, Reserves, Fills, Finishes, OthersSame, Loads,
     HoldsPlace, Writing
<1> QED BY <1>2, OrphansSame

\* The reader's cursor cuts the places in two.
LEMMA CutExists ==
  ASSUME Steady, AllPlaces
  PROVE  \E k : Cut(k)
<1>1. rpos \in Nat
  BY Cursors DEF Steady
<1> QED BY <1>1, FirstBehind DEF AllPlaces, Cut

\* The places that wait for the reader fit between the cursors.
LEMMA PendingFits ==
  ASSUME Steady, AllPlaces, NEW k, Cut(k)
  PROVE  Queue!Size(Pending) \in Nat /\ Queue!Size(Pending) <= wpos - rpos
<1> DEFINE n == Len(Pending)
           end(i) == order[i + k].p + Need(order[i + k].m)
           e == [i \in 0 .. n |-> IF i = 0 THEN 0 ELSE end(i) - rpos]
<1>1. Pended(k)
  BY PendingNow DEF Steady
<1>2. /\ Places = 1 .. Len(order) /\ Len(order) \in Nat /\ rpos \in Nat /\ wpos \in Nat
      /\ rpos <= wpos /\ k \in Nat /\ k <= Len(order)
      /\ \A i \in Places : order[i].p \in Nat /\ Need(order[i].m) \in Nat
  BY PlaceTypes, Cursors, NeedInNat DEF Steady, Cut
<1>3. n \in Nat /\ n = Len(order) - k /\ Pending \in Seq(Message)
  BY <1>1, <1>2 DEF Pended
<1> HIDE DEF n
<1>4. ASSUME NEW i \in 1 .. n
      PROVE  /\ i + k \in Places /\ rpos <= order[i + k].p /\ Pending[i] = order[i + k].m
             /\ order[i + k].p \in Nat /\ Need(order[i + k].m) \in Nat
  <2>1. i + k \in Places /\ ~(i + k <= k)
    BY <1>2, <1>3
  <2> QED BY <1>1, <1>2, <1>3, <2>1 DEF Cut, Pended
<1>5. ASSUME NEW i \in 1 .. n
      PROVE  /\ end(i) \in Nat /\ end(i) <= wpos /\ Need(Pending[i]) \in Nat
             /\ rpos + Need(Pending[i]) <= end(i)
  BY <1>2, <1>4 DEF AllPlaces, InTurn
<1>6. ASSUME NEW i \in 1 .. n, i - 1 \in 1 .. n
      PROVE  end(i - 1) + Need(Pending[i]) <= end(i)
  <2>1. (i - 1) + k \in Places /\ i + k \in Places /\ (i - 1) + k < i + k
    BY <1>2, <1>4, <1>6
  <2>2. end(i - 1) <= order[i + k].p
    BY <2>1 DEF AllPlaces, InTurn
  <2>3. end(i - 1) \in Nat
    BY <1>5, <1>6
  <2> HIDE DEF end
  <2>4. end(i) = order[i + k].p + Need(Pending[i])
    BY <1>4 DEF end
  <2> QED BY <1>4, <2>2, <2>3, <2>4
<1> HIDE DEF end
<1>7. \A i \in 0 .. n : e[i] = IF i = 0 THEN 0 ELSE end(i) - rpos
  OBVIOUS
<1> HIDE DEF e
<1>8. \A i \in 0 .. n : e[i] \in Nat /\ e[i] <= wpos - rpos
  <2> SUFFICES ASSUME NEW i \in 0 .. n PROVE e[i] \in Nat /\ e[i] <= wpos - rpos
    OBVIOUS
  <2>1. CASE i = 0
    BY <1>2, <1>7, <2>1
  <2>2. CASE i \in 1 .. n
    <3>1. e[i] = end(i) - rpos
      BY <1>3, <1>7, <2>2
    <3>2. /\ end(i) \in Nat /\ end(i) <= wpos /\ Need(Pending[i]) \in Nat
          /\ rpos + Need(Pending[i]) <= end(i)
      BY <1>5, <2>2
    <3> QED BY <1>2, <3>1, <3>2
  <2> QED BY <1>3, <2>1, <2>2
<1>9. \A i \in 1 .. n : e[i - 1] + Need(Pending[i]) <= e[i]
  <2> SUFFICES ASSUME NEW i \in 1 .. n PROVE e[i - 1] + Need(Pending[i]) <= e[i]
    OBVIOUS
  <2>1. /\ e[i] = end(i) - rpos /\ end(i) \in Nat /\ Need(Pending[i]) \in Nat
        /\ rpos + Need(Pending[i]) <= end(i)
    BY <1>3, <1>5, <1>7
  <2>2. CASE i = 1
    <3>1. e[i - 1] = 0
      BY <1>3, <1>7, <2>2
    <3> QED BY <1>2, <2>1, <3>1
  <2>3. CASE i - 1 \in 1 .. n
    <3>1. e[i - 1] = end(i - 1) - rpos /\ end(i - 1) \in Nat
      BY <1>3, <1>5, <1>7, <2>3
    <3>2. end(i - 1) + Need(Pending[i]) <= end(i)
      BY <1>6, <2>3
    <3> QED BY <1>2, <2>1, <3>1, <3>2
  <2> QED BY <1>3, <2>2, <2>3
<1>10. Queue!Size(Pending) \in Nat /\ Queue!Size(Pending) <= e[Len(Pending)]
  BY <1>3, <1>8, <1>9, SizeBelow DEF n
<1>11. e[Len(Pending)] \in Nat /\ e[Len(Pending)] <= wpos - rpos
  BY <1>3, <1>8 DEF n
<1> QED BY <1>2, <1>10, <1>11

\* The message of a call about to begin, or not yet in its place, is new.
LEMMA UnplacedIsNew ==
  ASSUME Steady, AllPlaces, NEW k, Cut(k), NEW w \in Writers, Loads(w)
  PROVE  New(op[w].m) /\ op[w].m \in Message
<1>1. AtWork(w) /\ pc[w] # "dead" /\ ~HoldsPlace(w)
  BY DEF Loads, AtWork, HoldsPlace, Writing
<1>2. /\ op[w].m \in Message /\ op[w].m[1] = w
      /\ \A r : <<op[w].m, r>> \notin returned
  BY <1>1, OneCall
<1> QED BY <1>1, <1>2, NewToQueue DEF Died

\* So is the message of the next call.
LEMMA NextIsNew ==
  ASSUME Steady, AllPlaces, NEW k, Cut(k), NEW w \in Writers, pc[w] = "idle",
         NEW m \in Message, m[1] = w, m[2] = sent[w] + 1
  PROVE  New(m)
<1>1. sent[w] \in Nat
  BY BoundAssumption DEF Steady, TypeOK, WritersOK
<1>2. ASSUME NEW r, <<m, r>> \in returned PROVE FALSE
  <2>1. m[2] <= sent[w]
    BY <1>2 DEF Steady, CallsInv
  <2> QED BY <1>1, <2>1
<1> QED BY <1>2, NewToQueue DEF Died, HoldsPlace, Writing

\* Begin and refusal.
LEMMA QueueBegins ==
  ASSUME Steady, Steady', AllPlaces, hz = {}, hz' = {}, NEW w \in Writers, Begins(w),
         OthersSame(w), rpos' = rpos, delivered' = delivered
  PROVE  [Queue!Next]_Queue!vars
<1>1. PICK k : Cut(k)
  BY CutExists
<1>2. Orphans' = Orphans
  BY OrphansKept DEF Does, Begins, Dies
<1>3. PICK n \in Sizes :
       \/ returned' = returned
       \/ /\ n = 0 /\ pc'[w] = "idle"
          /\ returned' = returned \cup {<<<<w, sent[w] + 1, n>>, "SUCCESS">>}
       \/ /\ n > 0 /\ pc'[w] = "idle"
          /\ returned' = returned \cup {<<<<w, sent[w] + 1, n>>, "BUFF_LIMIT">>}
  BY Zenon DEF Begins
<1>4. Pending' = Pending
  BY DEF Pending, Behind, Begins
<1>5. CASE returned' = returned
  BY <1>2, <1>5, QueueSame DEF Begins
<1>6. ASSUME NEW m, NEW r, m = <<w, sent[w] + 1, n>>, returned' = returned \cup {<<m, r>>}
      PROVE  m \in Message /\ New(m) /\ Need(m) = n
  <2>1. sent' \in [Writers -> 0 .. MaxSend] /\ sent \in [Writers -> 0 .. MaxSend]
    BY DEF Steady, TypeOK, WritersOK
  <2>2. sent[w] + 1 \in 1 .. MaxSend
    BY <2>1, BoundAssumption DEF Begins
  <2>3. m \in Message /\ m[1] = w /\ m[2] = sent[w] + 1 /\ Need(m) = n
    BY <1>6, <2>2 DEF Message, Need
  <2> QED BY <1>1, <2>3, NextIsNew DEF Begins
<1>7. PICK m : m = <<w, sent[w] + 1, n>>
  OBVIOUS
<1>8. CASE n = 0 /\ returned' = returned \cup {<<m, "SUCCESS">>}
  <2>1. m \in Message /\ New(m) /\ Need(m) = 0
    BY <1>6, <1>7, <1>8
  <2>2. Succeeded' = Succeeded \cup {m} /\ Refused' = Refused
    BY <1>8, <2>1 DEF Succeeded, Refused
  <2>3. Queue!Commit(m)
    BY <1>2, <1>4, <2>1, <2>2 DEF Queue!Commit, New, Needs
  <2> QED BY <2>1, <2>3, QueueSteps
<1>9. CASE n > 0 /\ returned' = returned \cup {<<m, "BUFF_LIMIT">>}
  <2>1. m \in Message /\ New(m)
    BY <1>6, <1>7, <1>9
  <2>2. Succeeded' = Succeeded /\ Refused' = Refused \cup {m}
    BY <1>9, <2>1 DEF Succeeded, Refused
  <2>3. Queue!Refuse(m)
    BY <1>2, <1>4, <2>1, <2>2 DEF Queue!Refuse, New
  <2> QED BY <2>1, <2>3, QueueSteps
<1> QED BY <1>3, <1>5, <1>7, <1>8, <1>9

\* A call finds no room: its message was never in the queue.
LEMMA QueueRefuses ==
  ASSUME Steady, AllPlaces, hz = {}, hz' = {}, NEW w \in Writers, IsRefused(w),
         OthersSame(w), rpos' = rpos, delivered' = delivered
  PROVE  Queue!Next
<1>1. PICK k : Cut(k)
  BY CutExists
<1>2. PICK m : m = op[w].m
  OBVIOUS
<1>3. m \in Message /\ New(m)
  BY <1>1, <1>2, UnplacedIsNew DEF IsRefused
<1>4. Orphans' = Orphans
  BY OrphansKept DEF Does, IsRefused, Dies
<1>5. Pending' = Pending
  BY DEF Pending, Behind, IsRefused
<1>6. Succeeded' = Succeeded /\ Refused' = Refused \cup {m}
  BY <1>2, <1>3 DEF Succeeded, Refused, IsRefused
<1>7. Queue!Refuse(m)
  BY <1>3, <1>4, <1>5, <1>6 DEF Queue!Refuse, New
<1> QED BY <1>3, <1>7, QueueSteps

\* A place is reserved: the message is the last of the queue.
LEMMA QueueReserves ==
  ASSUME Steady, Steady', Once, AllPlaces, hz = {}, hz' = {}, NEW w \in Writers, Reserves(w),
         OthersSame(w), rpos' = rpos, delivered' = delivered
  PROVE  Queue!Next
<1>1. PICK k : Cut(k)
  BY CutExists
<1>2. PICK m : m = op[w].m
  OBVIOUS
<1>3. m \in Message /\ New(m)
  BY <1>1, <1>2, UnplacedIsNew DEF Reserves
<1>4. Orphans' = Orphans
  BY OrphansKept DEF Does, Reserves, Dies, Loads
<1>5. Succeeded' = Succeeded /\ Refused' = Refused
  BY DEF Succeeded, Refused, Reserves
<1>6. /\ Places' = Places \cup {Len(order) + 1}
      /\ \A i \in Places : order'[i] = order[i] /\ i <= Len(order)
      /\ order'[Len(order) + 1].m = m /\ order'[Len(order) + 1].p = wpos
      /\ Need(m) \in Nat /\ Need(m) > 0
  <2>1. /\ Places' = Places \cup {Len(order) + 1}
        /\ \A i \in Places : order'[i] = order[i] /\ i <= Len(order)
        /\ order'[Len(order) + 1] = Place(op[w].m, wpos)
        /\ Need(op[w].m) \in Nat /\ Need(op[w].m) > 0
    BY OnePlaceMore
  <2>2. Place(op[w].m, wpos).m = m /\ Place(op[w].m, wpos).p = wpos
    BY <1>2 DEF Place
  <2> QED BY <1>2, <2>1, <2>2
<1>7. /\ Places = 1 .. Len(order) /\ Len(order) \in Nat /\ Len(order') = Len(order) + 1
      /\ rpos \in Nat /\ wpos \in Nat /\ rpos <= wpos /\ wpos' = wpos + Need(m)
  <2>1. order \in Seq(OrderType) /\ order' = Append(order, Place(m, wpos))
    BY <1>2 DEF Steady, TypeOK, HistoryOK, Reserves
  <2> QED BY <1>2, <2>1, PlaceTypes, Cursors DEF Steady, Reserves
<1>8. Cut(k)'
  BY <1>1, <1>6, <1>7 DEF Cut
<1>9. Pended(k) /\ Pended(k)'
  BY <1>1, <1>8, PendingNow DEF Steady
<1>10. Pending' = Append(Pending, m)
  <2>1. k \in Nat /\ k <= Len(order)
    BY <1>1, <1>7 DEF Cut
  <2>2. /\ Pending \in Seq(Message) /\ Len(Pending) = Len(order) - k
        /\ Pending' \in Seq(Message) /\ Len(Pending') = Len(Pending) + 1
    BY <1>7, <1>9, <2>1 DEF Pended
  <2>3. ASSUME NEW i \in 1 .. Len(Pending) PROVE Pending'[i] = Pending[i]
    <3>1. /\ i \in 1 .. Len(order) - k /\ i \in 1 .. Len(order') - k
          /\ i + k \in Places
      BY <1>7, <2>1, <2>2
    <3> QED BY <1>6, <1>9, <3>1 DEF Pended
  <2>4. Pending'[Len(Pending) + 1] = m
    <3>1. /\ Len(Pending) + 1 \in 1 .. Len(order') - k
          /\ (Len(Pending) + 1) + k = Len(order) + 1
      BY <1>7, <2>1, <2>2
    <3> QED BY <1>6, <1>9, <3>1 DEF Pended
  <2>5. PICK q, s : q = Pending' /\ s = Append(Pending, m)
    OBVIOUS
  <2>6. s \in Seq(Message) /\ Len(s) = Len(q) /\ q \in Seq(Message)
    BY <1>3, <2>2, <2>5, AppendProperties
  <2>7. \A i \in 1 .. Len(q) : q[i] = s[i]
    BY <1>3, <2>2, <2>3, <2>4, <2>5, AppendProperties
  <2>8. q = s
    BY <2>6, <2>7, SeqEqual
  <2> QED BY <2>5, <2>8
<1>11. Queue!Size(Pending) + Needs[m] <= NodeCount - 1 - Protect
  <2>1. Queue!Size(Pending) \in Nat /\ Queue!Size(Pending) <= wpos - rpos
    BY <1>1, PendingFits
  <2>2. wpos' = rpos' \/ wpos' - rpos' <= NodeCount - 1 - Protect
    BY DEF Steady, RoomInv, CursorSafe, Without
  <2>3. Needs[m] = Need(m) /\ NodeCount \in Nat /\ Protect \in Int
    BY <1>3, NodeCountAssumption, ProtectAssumption DEF Needs
  <2> QED BY <1>6, <1>7, <2>1, <2>2, <2>3
<1>12. m \notin Queue!Range(delivered)
  <2> SUFFICES ASSUME NEW i \in DOMAIN delivered, delivered[i] = m PROVE FALSE
    BY DEF Queue!Range
  <2>1. m \in Elements(delivered)
    <3>1. delivered \in Seq(AnyMsg)
      BY DEF Steady, TypeOK, HistoryOK
    <3> QED BY <3>1 DEF Elements
  <2>2. AtWork(w) /\ OnWay(w)
    BY DEF Reserves, Loads, AtWork, OnWay
  <2>3. m[1] = w /\ m[2] = sent[w]
    BY <1>2, <2>2, OneCall
  <2>4. m[2] < sent[w] /\ sent[w] \in Nat
    BY <2>1, <2>2, <2>3, BoundAssumption DEF Once, GoneForGood, Old, Steady, TypeOK, WritersOK
  <2> QED BY <2>3, <2>4
<1>13. Queue!Reserve(m)
  BY <1>3, <1>4, <1>5, <1>10, <1>11, <1>12 DEF Queue!Reserve, New
<1> QED BY <1>3, <1>13, QueueSteps

\* A call returns: its message is in the queue.
LEMMA QueueCommits ==
  ASSUME Steady, Once, AllPlaces, hz = {}, hz' = {}, NEW w \in Writers, Finishes(w),
         OthersSame(w), rpos' = rpos, delivered' = delivered
  PROVE  Queue!Next
<1>1. PICK k : Cut(k)
  BY CutExists
<1>2. PICK m : m = op[w].m
  OBVIOUS
<1>3. /\ pc[w] = "check" /\ AtWork(w) /\ HoldsPlace(w)
  BY DEF Finishes, AtWork, HoldsPlace, Writing
<1>4. m \in Message /\ m[1] = w /\ \A r : <<m, r>> \notin returned
  BY <1>2, <1>3, OneCall
<1>5. Queue!Fresh(m)
  BY <1>3, <1>4, CallsInQueue DEF Queue!Fresh, Finished, Died
<1>6. m \in Queue!Range(Pending)
  <2>1. PICK i \in Places : order[i] = Place(m, wc[w])
    BY <1>2, <1>3 DEF AllPlaces, Begun, Has
  <2>2. wc[w] \in Used
    BY <1>3 DEF Once, Unchecked, Untouched, Waits
  <2>3. order[i].m = m /\ rpos <= order[i].p
    BY <2>1, <2>2, Cursors DEF Place, Used, Steady
  <2> QED BY <1>1, <2>3, IsPending
<1>7. Orphans' = Orphans
  BY OrphansKept DEF Does, Finishes, Dies
<1>8. Pending' = Pending
  BY DEF Pending, Behind, Finishes
<1>9. Succeeded' = Succeeded \cup {m} /\ Refused' = Refused
  BY <1>2, <1>4 DEF Succeeded, Refused, Finishes
<1>10. Queue!Commit(m)
  BY <1>5, <1>6, <1>7, <1>8, <1>9 DEF Queue!Commit
<1> QED BY <1>4, <1>10, QueueSteps

\* A sender dies.
LEMMA QueueDies ==
  ASSUME Steady, hz = {}, hz' = {}, NEW w \in Writers, Dies(w), OthersSame(w), rpos' = rpos,
         delivered' = delivered
  PROVE  Queue!Next
<1>1. PICK o : o = <<w, sent[w]>>
  OBVIOUS
<1>2. /\ pc[w] # "dead" /\ pc'[w] = "dead" /\ sent' = sent
      /\ \A v \in Writers \ {w} : pc'[v] = pc[v]
  BY DEF Dies, AtWork, OthersSame
<1>3. o \notin Orphans
  BY <1>1, <1>2 DEF Orphans
<1>4. Orphans' = Orphans \cup {o}
  BY <1>1, <1>2 DEF Orphans
<1>5. Pending' = Pending /\ Succeeded' = Succeeded /\ Refused' = Refused
  BY DEF Pending, Behind, Succeeded, Refused, Dies
<1>6. Queue!Die
  BY <1>3, <1>4, <1>5 DEF Queue!Die
<1> QED BY <1>6, QueueSteps

\* Every step of a writer is one of the queue's.
LEMMA QueueWriter ==
  ASSUME Steady, Steady', Once, AllPlaces, hz = {}, hz' = {}, NEW w \in Writers,
         Send(w) \/ Step(w) \/ CasSpurious(w) \/ Crash(w)
  PROVE  [Queue!Next]_Queue!vars
<1>1. Does(w) /\ rpos' = rpos
  BY WriterDoes
<1>2. OthersSame(w)
  BY WriterFrame
<1>3. delivered' = delivered
  BY DEF Send, Step, Begin, LoadReadCur, CasWriteCur, CasLost, MarkFirst, MarkNextConflict,
     MarkNext, StoreSize, Fill, LoadFlag, Publish, FinalCheck, CasSpurious, Crash, Reload,
     HeadOnly, history
<1>4. CASE Looks(w) \/ Fills(w)
  <2>1. ~Dies(w) /\ UNCHANGED <<order, returned>>
    BY <1>4 DEF Looks, Fills, Dies, HoldsPlace, Writing
  <2> QED BY <1>1, <1>2, <1>3, <2>1, OrphansKept, QueueSame
<1> QED BY <1>1, <1>2, <1>3, <1>4, QueueBegins, QueueRefuses, QueueReserves, QueueCommits, QueueDies
     DEF Does

\* The receiver takes what is pending from the first place at or after the new
\* cursor: it steps over messages of senders that died, and may take one.
LEMMA QueueReceives ==
  ASSUME Steady, Steady', Once, Once', AllPlaces, hz = {}, hz' = {}, StoreReadCur
  PROVE  Queue!Next
<1>1. PICK a : Cut(a)
  BY CutExists
<1>2. /\ rpc = "clean" /\ rpos' = re /\ UNCHANGED <<order, pc, sent, returned>>
      /\ delivered' = IF rv.ret = "OK" THEN Append(delivered, rv.m) ELSE delivered
      /\ InHand(rv.m) <=> rv.ret = "OK"
  BY StoreWaits DEF StoreReadCur, CallsSame, writerV
<1>3. /\ rpos \in Nat /\ rb \in Nat /\ re \in Nat /\ rpos <= rb /\ rb <= re /\ Front = re
  BY <1>2, AtFront, Cursors DEF Steady
<1>4. PICK b \in 0 .. Len(order) : \A i \in Places : order[i].p < rb <=> i <= b
  BY <1>3, FirstBehind DEF AllPlaces
<1>5. /\ Places = 1 .. Len(order) /\ Len(order) \in Nat
      /\ \A i \in Places : /\ order[i].m \in Message /\ order[i].p \in Nat
                           /\ Need(order[i].m) \in Nat
      /\ a \in Nat /\ a <= Len(order) /\ b \in Nat /\ b <= Len(order)
  BY <1>1, <1>4, PlaceTypes, NeedInNat DEF Cut
<1>6. a <= b
  <2> SUFFICES ASSUME b < a PROVE FALSE
    BY <1>5
  <2>1. a \in Places /\ order[a].p < rpos
    BY <1>1, <1>5 DEF Cut
  <2> QED BY <1>3, <1>4, <1>5, <2>1
<1>7. /\ Pending \in Seq(Message) /\ Len(Pending) = Len(order) - a
      /\ \A i \in 1 .. Len(order) - a : Pending[i] = order[i + a].m
  BY <1>1, PendingNow DEF Pended, Steady
<1> DEFINE k == b - a
<1>8. k \in 0 .. Len(Pending)
  BY <1>5, <1>6, <1>7
<1>9. \A i \in 1 .. k : Queue!Orphan(Pending[i])
  <2> SUFFICES ASSUME NEW i \in 1 .. k PROVE Queue!Orphan(Pending[i])
    OBVIOUS
  <2>1. /\ i + a \in Places /\ i + a <= b /\ ~(i + a <= a) /\ i \in 1 .. Len(order) - a
    BY <1>5, <1>6
  <2>2. rpos <= order[i + a].p /\ order[i + a].p < rb
    BY <1>1, <1>3, <1>4, <1>5, <2>1 DEF Cut
  <2>3. Died(order[i + a].m)
    BY <1>2, <2>1, <2>2 DEF AllPlaces, Passed
  <2> QED BY <1>5, <1>7, <2>1, <2>3, CallsInQueue
<1>10. UNCHANGED <<Succeeded, Refused, Orphans>>
  BY <1>2 DEF Succeeded, Refused, Orphans
<1>11. ASSUME NEW c \in b .. Len(order), Cut(c)'
       PROVE  Pending' = SubSeq(Pending, c - a + 1, Len(Pending))
  <2>1. /\ Pending' \in Seq(Message) /\ Len(Pending') = Len(order) - c
        /\ \A i \in 1 .. Len(order) - c : Pending'[i] = order[i + c].m
    BY <1>2, <1>11, PendingNow DEF Pended, Steady
  <2>2. PICK q, s, n : q = Pending' /\ s = SubSeq(Pending, c - a + 1, Len(Pending)) /\ n = c - a + 1
    OBVIOUS
  <2>3. n \in Nat /\ n >= 1 /\ Len(Pending) \in Nat /\ n <= Len(Pending) + 1
    BY <1>5, <1>6, <1>7, <2>2
  <2>4. \A i \in n .. Len(Pending) : Pending[i] \in Message
    BY <1>7, <2>3
  <2>5. /\ s \in Seq(Message) /\ Len(s) = IF n <= Len(Pending) THEN Len(Pending) - n + 1 ELSE 0
        /\ \A i \in 1 .. Len(Pending) - n + 1 : s[i] = Pending[n + i - 1]
    BY <2>2, <2>3, <2>4, SubSeqProperties
  <2>6. Len(s) = Len(order) - c
    BY <1>5, <1>6, <1>7, <2>2, <2>3, <2>5
  <2>7. ASSUME NEW i \in 1 .. Len(order) - c PROVE s[i] = q[i]
    <3>1. /\ i \in 1 .. Len(Pending) - n + 1 /\ n + i - 1 \in 1 .. Len(order) - a
          /\ (n + i - 1) + a = i + c
      BY <1>5, <1>6, <1>7, <2>2
    <3>2. s[i] = Pending[n + i - 1] /\ Pending[n + i - 1] = order[(n + i - 1) + a].m
      BY <1>7, <2>5, <3>1
    <3> QED BY <2>1, <2>2, <3>1, <3>2
  <2>8. s = q
    BY <2>1, <2>2, <2>5, <2>6, <2>7, SeqEqual
  <2> QED BY <2>2, <2>8
<1>12. CASE rv.ret # "OK"
  <2>1. re = rb
    BY <1>2, <1>12 DEF Steady, Blocks, ReaderInv, CleanInv
  <2>2. Cut(b)'
    BY <1>2, <1>4, <2>1 DEF Cut, Places
  <2>3. Pending' = SubSeq(Pending, k + 1, Len(Pending)) /\ delivered' = delivered
    BY <1>2, <1>5, <1>11, <1>12, <2>2
  <2>4. Queue!Receive
    BY <1>8, <1>9, <1>10, <2>3 DEF Queue!Receive
  <2> QED BY <2>4, QueueSteps
<1>13. CASE rv.ret = "OK"
  <2>1. PICK m : m = rv.m
    OBVIOUS
  <2>2. m \in Message
    <3>1. m \in AnyMsg /\ InHand(m)
      BY <1>2, <1>13, <2>1 DEF Steady, TypeOK, ReaderOK, RvType
    <3> QED BY <3>1 DEF Once, OnePlaceEach, Old
  <2>3. Has(m, rb) /\ (Died(m) \/ Finished(m)) /\ Front = rb + Need(m)
    BY <1>2, <1>13, <2>1, <2>2 DEF AllPlaces, Held
  <2>4. PICK j \in Places : order[j] = Place(m, rb)
    BY <2>3 DEF Has
  <2>5. order[j].m = m /\ order[j].p = rb
    BY <2>4 DEF Place
  <2>6. j = b + 1 /\ j \in Nat
    <3>1. ~(j <= b) /\ j \in Nat
      BY <1>3, <1>4, <1>5, <2>5
    <3> SUFFICES ASSUME b + 1 < j PROVE FALSE
      BY <1>5, <3>1
    <3>2. b + 1 \in Places
      BY <1>5, <3>1
    <3>3. /\ order[b + 1].p + Need(order[b + 1].m) <= rb /\ Need(order[b + 1].m) > 0
          /\ order[b + 1].p \in Nat /\ Need(order[b + 1].m) \in Nat
      BY <1>5, <2>5, <3>2 DEF AllPlaces, InTurn
    <3>4. b + 1 <= b
      BY <1>3, <1>4, <3>2, <3>3
    <3> QED BY <1>5, <3>4
  <2>7. Cut(j)'
    <3> SUFFICES ASSUME NEW i \in Places PROVE order[i].p < re <=> i <= j
      <4>1. j \in 0 .. Len(order) /\ rpos' = re /\ order' = order
        BY <1>2, <1>5, <2>4
      <4> QED BY <4>1 DEF Cut, Places
    <3>1. i \in Nat /\ order[i].p \in Nat /\ Need(m) \in Nat /\ Need(m) > 0 /\ re = rb + Need(m)
      BY <1>3, <1>5, <2>3, <2>4, <2>5 DEF AllPlaces, InTurn
    <3>2. CASE i < j
      BY <1>3, <1>4, <2>6, <3>1, <3>2
    <3>3. CASE i = j
      BY <1>3, <2>5, <3>1, <3>3
    <3>4. CASE j < i
      <4>1. rb + Need(m) <= order[i].p
        BY <2>4, <2>5, <3>4 DEF AllPlaces, InTurn
      <4> QED BY <1>3, <2>6, <3>1, <3>4, <4>1
    <3> QED BY <2>6, <3>1, <3>2, <3>3, <3>4
  <2>8. k < Len(Pending) /\ Pending[k + 1] = m
    <3>1. k + 1 \in 1 .. Len(order) - a /\ (k + 1) + a = j
      BY <1>5, <1>6, <2>4, <2>6
    <3> QED BY <1>5, <1>7, <2>5, <3>1
  <2>9. Pending' = SubSeq(Pending, k + 2, Len(Pending))
    <3>1. j \in b .. Len(order) /\ j - a + 1 = k + 2
      BY <1>5, <2>4, <2>6
    <3> QED BY <1>11, <2>7, <3>1
  <2>10. delivered' = Append(delivered, Pending[k + 1])
    BY <1>2, <1>13, <2>1, <2>8
  <2>11. Pending[k + 1] \in Succeeded \/ Queue!Orphan(Pending[k + 1])
    BY <2>2, <2>3, <2>8, CallsInQueue
  <2> HIDE DEF k
  <2>12. Queue!Receive
    BY <1>8, <1>9, <1>10, <2>8, <2>9, <2>10, <2>11 DEF Queue!Receive
  <2> QED BY <2>12, QueueSteps
<1> QED BY <1>12, <1>13

\* The rest of what the reader does its users do not see.
LEMMA QueueReader ==
  ASSUME Steady, Steady', Once, Once', AllPlaces, hz = {}, hz' = {},
         Recv \/ ReaderStep \/ ReaderCrash \/ Tick \/ UNCHANGED vars
  PROVE  [Queue!Next]_Queue!vars
<1>1. CASE StoreReadCur
  BY <1>1, QueueReceives
<1>2. CASE ~StoreReadCur
  <2>1. UNCHANGED <<order, rpos, returned, delivered, pc, sent>>
    BY <1>2 DEF Recv, ReaderStep, ScanEnd, ScanSkip, ScanWait, ScanTimeout, ScanBlock, ResetNode,
       TakeBlock, CleanNode, ReaderCrash, Tick, ReaderOnly, writerV, history, vars, shared, readerV
  <2> QED BY <2>1, OrphansSame, QueueSame
<1> QED BY <1>1, <1>2

\* The queue is empty at first.
LEMMA QueueInit == Init => Queue!Init
<1> SUFFICES ASSUME Init PROVE Queue!Init
  OBVIOUS
<1>1. TypeOK
  BY TypeInit
<1>2. order = <<>> /\ returned = {} /\ delivered = <<>> /\ hz = {} /\ \A w \in Writers : pc[w] = "idle"
  BY DEF Init
<1>3. Cut(0)
  BY <1>2 DEF Cut, Places
<1>4. Pending \in Seq(Message) /\ Len(Pending) = 0
  BY <1>1, <1>2, <1>3, PendingNow DEF Pended
<1>5. Pending = <<>>
  BY <1>4
<1> QED BY <1>2, <1>5 DEF Queue!Init, Succeeded, Refused, Orphans

\* Every step is one of the queue's, or hits a race window and ends its promise.
LEMMA QueueNext ==
  ASSUME TypeOK, RoomInv, CallsInv, BlocksInv, OnceInv, PlacesInv,
         TypeOK', RoomInv', CallsInv', BlocksInv', OnceInv', [Next]_vars
  PROVE  [Queue!Next]_Queue!vars
<1>1. CASE hz' # {}
  BY <1>1, QueueSteps
<1>2. CASE hz' = {}
  <2>1. hz = {}
    BY <1>2, WindowsStay
  <2>2. Calm /\ Calm' /\ CalmNoLate /\ CalmNoLate'
    BY <1>2, <2>1 DEF Calm, CalmNoLate, Without
  <2>3. Steady /\ Steady' /\ Once /\ Once' /\ AllPlaces
    BY <2>1, <2>2 DEF Steady, BlocksInv, OnceInv, PlacesInv
  <2>4. CASE \E w \in Writers : Send(w) \/ Step(w) \/ CasSpurious(w) \/ Crash(w)
    BY <1>2, <2>1, <2>3, <2>4, QueueWriter
  <2>5. CASE Recv \/ ReaderStep \/ ReaderCrash \/ Tick \/ UNCHANGED vars
    BY <1>2, <2>1, <2>3, <2>5, QueueReader
  <2> QED BY <2>4, <2>5 DEF Next
<1> QED BY <1>1, <1>2

\* Until a race window is hit, the ring is a bounded first-in first-out queue:
\* messages come out in the order in which mem_send reserved their nodes, none that
\* returned success is passed over, and none is refused that has a place.
THEOREM QueueKept == Spec => QueueSpec
<1>1. Init => Queue!Init
  BY QueueInit
<1>2. /\ TypeOK /\ RoomInv /\ CallsInv /\ BlocksInv /\ OnceInv /\ PlacesInv
      /\ TypeOK' /\ RoomInv' /\ CallsInv' /\ BlocksInv' /\ OnceInv' /\ [Next]_vars
      => [Queue!Next]_Queue!vars
  BY QueueNext
<1> QED BY <1>1, <1>2, TypeCorrect, RoomSafe, CallsCorrect, BlocksCorrect, OnceCorrect,
       PlacesCorrect, PTL DEF Spec, QueueSpec, Queue!Spec

=============================================================================
