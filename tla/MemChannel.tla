----------------------------- MODULE MemChannel -----------------------------
(***************************************************************************)
(* The shared-memory ring of src/channel_mem.cpp: many writers in mem_send, *)
(* one reader in mem_recv, no lock.                                         *)
(*                                                                         *)
(* Cursors are kept as positions that never wrap; Idx maps a position to   *)
(* the node index the code stores, and every comparison the code makes on  *)
(* indexes is made here on Idx.  Lengths are counted in nodes.  A step is  *)
(* one access to shared memory; the plain (non-atomic) `flag |= x` is a    *)
(* load and a store, so that a reset by the other side may fall between.   *)
(* Memory is sequentially consistent.                                      *)
(***************************************************************************)
EXTENDS Integers, Sequences, FiniteSets

CONSTANTS
  Writers,      \* sending threads or processes
  NodeCount,    \* channel->node_count
  Protect,      \* conf.protect_node_count
  Sizes,        \* message lengths in nodes a caller sends, 0 for an empty one
  RecvCaps,     \* receive buffers, in nodes, the reader's caller brings
  Tries,        \* conf.write_retry_times
  SeqMod,       \* 2^32 in the code: operation_seq wraps here
  StartPos,     \* positions at which an empty, clean ring may be found
  StartSeq,     \* operation numbers such a ring may have reached
  MaxSend,      \* bound: calls of mem_send per writer
  MaxElapsed,   \* bound: the reader's clock saturates here
  Mortal,       \* writers that may crash in the middle of a call
  MaxReaderCrash \* bound: crashes of the reader

ASSUME NodeCountAssumption == NodeCount \in Nat \ {0}
ASSUME ProtectAssumption == Protect \in 0 .. NodeCount
ASSUME SizesAssumption == Sizes \subseteq Nat
ASSUME StartAssumption == StartPos \subseteq Nat /\ StartSeq \subseteq 0 .. SeqMod - 1
ASSUME BoundAssumption ==
  /\ RecvCaps \subseteq Nat
  /\ SeqMod \in Nat \ {0, 1, 2}
  /\ Tries \in Nat \ {0} /\ MaxSend \in Nat /\ MaxElapsed \in Nat
  /\ MaxReaderCrash \in Nat
  /\ Mortal \subseteq Writers

VARIABLES
  rpos, wpos,   \* atomic_read_cur, atomic_write_cur (as positions)
  opseq,        \* atomic_operation_seq
  head,         \* node heads: start and writen flags, operation_seq
  blk,          \* block heads: buffer_size and fast_check
  data,         \* what the payload of each node belongs to
  waiting,      \* first_failed_writing_time # 0 ...
  elapsed,      \* ... and the time since then
  tcount,       \* block_timeout_count
  pc,           \* where each writer is in mem_send
  wc, rc,       \* its local write_cur and read_cur (as positions)
  op,           \* its other locals: message, tries left, seq, node counter, flag
  sent,         \* calls each writer has begun
  rpc,          \* where the reader is in mem_recv
  rb, re, rw,   \* its read_begin_cur, read_end_cur, write_cur (as positions)
  rv,           \* its other locals: ret, cap, check_opr_seq, counter, message
  crashes,      \* crashes of the reader so far
  order,        \* history: messages reserved, in order, and their positions
  returned,     \* history: <<message, result>> of the calls that returned
  delivered,    \* history: messages mem_recv handed out
  hz            \* history: the race windows this behaviour has hit

shared  == <<rpos, wpos, opseq, head, blk, data, waiting, elapsed, tcount>>
writerV == <<pc, wc, rc, op, sent>>
readerV == <<rpc, rb, re, rw, rv, crashes>>
history == <<order, returned, delivered, hz>>
vars    == <<shared, writerV, readerV, history>>

-----------------------------------------------------------------------------
Idx(p)  == p % NodeCount
Nodes   == 0 .. NodeCount - 1
NoMsg   == <<>>
Message == Writers \X (1 .. MaxSend) \X Sizes
Need(m) == m[3]
Junk    == NodeCount + 1     \* a length read out of payload bytes
Seqs    == 0 .. SeqMod - 1
Windows == {"lap", "early", "late", "timeout", "readercrash", "wrap"}

CleanHead == [start |-> FALSE, writen |-> FALSE, seq |-> 0]
CleanBlk  == [size |-> 0, check |-> NoMsg]
IdleOp    == [m |-> NoMsg, tries |-> 0, seq |-> 0, i |-> 0, start |-> FALSE]
IdleRv    == [ret |-> "OK", cap |-> 0, seq |-> 0, i |-> 0, m |-> NoMsg]

\* The node index of the first and of the i-th node a writer reserved.
First(w)  == Idx(wc[w])
Node(w)   == Idx(wc[w] + op[w].i)

\* A block ready to be read.
PublishedAnyStart(n) == head[n].start                         \* mutant
Published(n) == head[n].start /\ head[n].writen

\* Nodes a writer that saw the cursors r and w believes it may take.
AvailableUnprotected(r, w) == (Idx(r) + NodeCount - Idx(w) - 1) % NodeCount  \* mutant
Available(r, w) ==
  LET free == (Idx(r) + NodeCount - Idx(w) - 1) % NodeCount
  IN  IF free >= Protect THEN free - Protect ELSE 0

\* The next operation number: 0 marks a free node and is skipped.
NextSeqUnwrapped(s) == s + 1                                  \* mutant
NextSeqThroughZero(s) == (s + 1) % SeqMod                     \* mutant
NextSeq(s) ==
  IF (s + 1) % SeqMod # 0 THEN (s + 1) % SeqMod ELSE (s + 2) % SeqMod

\* A block head overwritten by payload reads as any length.
SizeAt(n) == IF blk[n].size = Junk THEN 0 .. NodeCount ELSE {blk[n].size}

\* Places between a writer's reservation and the end of its call.
Writing == {"mark", "cont", "size", "fill", "flag", "publish", "check"}
\* Writers whose reservation begins at position p, at one of the places P.
OwnersAt(p, P) == {w \in Writers : pc[w] \in P /\ wc[w] = p}

-----------------------------------------------------------------------------
Init ==
  /\ \E p \in StartPos : rpos = p /\ wpos = p /\ rb = p /\ re = p /\ rw = p
  /\ opseq \in StartSeq
  /\ head = [n \in Nodes |-> CleanHead]
  /\ blk = [n \in Nodes |-> CleanBlk]
  /\ data = [n \in Nodes |-> NoMsg]
  /\ waiting = FALSE /\ elapsed = 0 /\ tcount = 0
  /\ pc = [w \in Writers |-> "idle"]
  /\ wc = [w \in Writers |-> 0]
  /\ rc = [w \in Writers |-> 0]
  /\ op = [w \in Writers |-> IdleOp]
  /\ sent = [w \in Writers |-> 0]
  /\ rpc = "idle" /\ rv = IdleRv /\ crashes = 0
  /\ order = <<>> /\ returned = {} /\ delivered = <<>> /\ hz = {}

-----------------------------------------------------------------------------
\* mem_send of the writer w.

Goto(w, l) == pc' = [pc EXCEPT ![w] = l]

\* The call returns: the locals are dead.
Return(w, m, result) ==
  /\ Goto(w, "idle")
  /\ op' = [op EXCEPT ![w] = IdleOp]
  /\ wc' = [wc EXCEPT ![w] = 0]
  /\ rc' = [rc EXCEPT ![w] = 0]
  /\ returned' = returned \cup {<<m, result>>}

Send(w) ==
  /\ pc[w] = "idle" /\ sent[w] < MaxSend
  /\ sent' = [sent EXCEPT ![w] = @ + 1]
  /\ \E n \in Sizes :
       LET m == <<w, sent[w] + 1, n>>
       IN  \/ n = 0 /\ Return(w, m, "SUCCESS")
           \/ n > 0 /\ n >= NodeCount - Protect /\ Return(w, m, "BUFF_LIMIT")
           \/ /\ n > 0 /\ n < NodeCount - Protect
              /\ Goto(w, "begin")
              /\ op' = [op EXCEPT ![w].m = m, ![w].tries = Tries]
              /\ UNCHANGED <<wc, rc, returned>>
  /\ UNCHANGED <<shared, readerV, order, delivered, hz>>

\* The operation numbers somebody still goes by.
NumbersInUse ==
  ({head[n].seq : n \in Nodes} \cup {op[v].seq : v \in Writers} \cup {rv.seq}) \ {0}

\* Take an operation number (a compare-and-swap loop that nothing but another
\* such loop can disturb) and load the write cursor.
Begin(w) ==
  /\ pc[w] = "begin" /\ Goto(w, "load")
  /\ opseq' = NextSeq(opseq)
  /\ op' = [op EXCEPT ![w].seq = NextSeq(opseq)]
  /\ wc' = [wc EXCEPT ![w] = wpos]
  /\ hz' = IF NextSeq(opseq) \in NumbersInUse THEN hz \cup {"wrap"} ELSE hz
  /\ UNCHANGED <<rpos, wpos, head, blk, data, waiting, elapsed, tcount,
                 rc, sent, readerV, order, returned, delivered>>

LoadReadCur(w) ==
  /\ pc[w] = "load"
  /\ \/ /\ Need(op[w].m) > Available(rpos, wc[w])
        /\ Return(w, op[w].m, "BUFF_LIMIT")
     \/ /\ Need(op[w].m) <= Available(rpos, wc[w])
        /\ Goto(w, "cas")
        /\ rc' = [rc EXCEPT ![w] = rpos]
        /\ UNCHANGED <<wc, op, returned>>
  /\ UNCHANGED <<shared, sent, readerV, order, delivered, hz>>

\* The weak compare-and-swap of atomic_write_cur: it compares indexes, so it
\* also succeeds when the cursor has gone once round since it was loaded.
CasWriteCur(w) ==
  /\ pc[w] = "cas" /\ Idx(wc[w]) = Idx(wpos)
  /\ Goto(w, "mark")
  /\ wpos' = wpos + Need(op[w].m)
  /\ wc' = [wc EXCEPT ![w] = wpos]
  /\ rc' = [rc EXCEPT ![w] = 0]
  /\ order' = Append(order, [m |-> op[w].m, p |-> wpos])
  /\ hz' = IF wc[w] = wpos THEN hz ELSE hz \cup {"lap"}
  /\ UNCHANGED <<rpos, opseq, head, blk, data, waiting, elapsed, tcount,
                 op, sent, readerV, returned, delivered>>

\* It fails because the cursor moved, or (being weak) for no reason; either way
\* the comparison leaves the present cursor in write_cur.
ReloadNothing(w) ==                                           \* mutant
  /\ pc[w] = "cas" /\ Goto(w, "load")
  /\ rc' = [rc EXCEPT ![w] = 0]
  /\ UNCHANGED <<shared, wc, op, sent, readerV, history>>
Reload(w) ==
  /\ pc[w] = "cas" /\ Goto(w, "load")
  /\ wc' = [wc EXCEPT ![w] = wpos]
  /\ rc' = [rc EXCEPT ![w] = 0]
  /\ UNCHANGED <<shared, op, sent, readerV, history>>

CasLost(w)     == Idx(wc[w]) # Idx(wpos) /\ Reload(w)
CasSpurious(w) == Idx(wc[w]) = Idx(wpos) /\ Reload(w)

HeadOnly == UNCHANGED <<rpos, wpos, opseq, data, waiting, elapsed, tcount,
                        wc, rc, sent, readerV, history>>

\* Clear the block head and make its node the start of a block.
MarkFirst(w) ==
  /\ pc[w] = "mark"
  /\ blk' = [blk EXCEPT ![First(w)] = CleanBlk]
  /\ head' = [head EXCEPT ![First(w)].start = TRUE, ![First(w)].seq = op[w].seq]
  /\ op' = [op EXCEPT ![w].i = 1]
  /\ Goto(w, IF Need(op[w].m) = 1 THEN "size" ELSE "cont")
  /\ HeadOnly

\* mem_send after mem_send_real reported a sequence conflict: another try, or
\* the outer `ret`, which the loop's own `ret` shadows and which is still 0.
Conflict(w) ==
  \/ /\ op[w].tries > 1
     /\ Goto(w, "begin")
     /\ op' = [op EXCEPT ![w] = [IdleOp EXCEPT !.m = op[w].m, !.tries = op[w].tries - 1]]
     /\ wc' = [wc EXCEPT ![w] = 0]
     /\ UNCHANGED <<rc, returned>>
  \/ op[w].tries <= 1 /\ Return(w, op[w].m, "SUCCESS")

\* The other nodes, one by one: a number in one of them is a conflict.
MarkNextConflict(w) ==
  /\ pc[w] = "cont" /\ head[Node(w)].seq # 0
  /\ Conflict(w)
  /\ UNCHANGED <<shared, sent, readerV, order, delivered, hz>>

MarkNext(w) ==
  /\ pc[w] = "cont" /\ head[Node(w)].seq = 0
  /\ head' = [head EXCEPT ![Node(w)].writen = TRUE, ![Node(w)].seq = op[w].seq]
  /\ op' = [op EXCEPT ![w].i = @ + 1]
  /\ Goto(w, IF op[w].i + 1 = Need(op[w].m) THEN "size" ELSE "cont")
  /\ UNCHANGED blk /\ HeadOnly

StoreSize(w) ==
  /\ pc[w] = "size" /\ Goto(w, "fill")
  /\ blk' = [blk EXCEPT ![First(w)].size = Need(op[w].m)]
  /\ UNCHANGED <<head, op>> /\ HeadOnly

\* memcpy of the payload, wrapping at the end of the ring, and fast_check.
\* In a continuation node the payload covers the place of a block head.
Fill(w) ==
  /\ pc[w] = "fill" /\ Goto(w, "flag")
  /\ LET m    == op[w].m
         rest == {Idx(wc[w] + i) : i \in 1 .. Need(m) - 1}
     IN  /\ data' = [n \in Nodes |->
                       IF n \in rest \cup {First(w)} THEN m ELSE data[n]]
         /\ blk' = [n \in Nodes |->
                      IF n = First(w) THEN [blk[n] EXCEPT !.check = m]
                      ELSE IF n \in rest THEN [size |-> Junk, check |-> NoMsg]
                      ELSE blk[n]]
  /\ UNCHANGED <<rpos, wpos, opseq, head, waiting, elapsed, tcount,
                 wc, rc, op, sent, readerV, history>>

\* Publish the block, flag |= MF_WRITEN: a load ...
LoadFlag(w) ==
  /\ pc[w] = "flag" /\ Goto(w, "publish")
  /\ op' = [op EXCEPT ![w].start = head[First(w)].start]
  /\ UNCHANGED <<shared, wc, rc, sent, readerV, history>>

\* ... and a store, which brings back what was loaded.
Publish(w) ==
  /\ pc[w] = "publish" /\ Goto(w, "check")
  /\ head' = [head EXCEPT ![First(w)].writen = TRUE,
                          ![First(w)].start = op[w].start]
  /\ UNCHANGED <<blk, op>> /\ HeadOnly

\* The check, after the block is published, that the first node is still ours.
NobodyElseBegan(w) == head[First(w)].seq = opseq              \* mutant
StillOurs(w) == head[First(w)].seq = op[w].seq

FinalCheck(w) ==
  /\ pc[w] = "check"
  /\ \/ StillOurs(w) /\ Return(w, op[w].m, "SUCCESS")
     \/ ~StillOurs(w) /\ Conflict(w)
  /\ UNCHANGED <<shared, sent, readerV, order, delivered, hz>>

\* The writer's process dies; what it wrote stays in the shared memory.
Crash(w) ==
  /\ w \in Mortal /\ pc[w] \notin {"idle", "dead"}
  /\ Goto(w, "dead")
  /\ op' = [op EXCEPT ![w] = IdleOp]
  /\ wc' = [wc EXCEPT ![w] = 0]
  /\ rc' = [rc EXCEPT ![w] = 0]
  /\ UNCHANGED <<shared, sent, readerV, history>>

Step(w) ==
  \/ Begin(w) \/ LoadReadCur(w) \/ CasWriteCur(w) \/ CasLost(w) \/ MarkFirst(w)
  \/ MarkNextConflict(w) \/ MarkNext(w) \/ StoreSize(w) \/ Fill(w)
  \/ LoadFlag(w) \/ Publish(w) \/ FinalCheck(w)

-----------------------------------------------------------------------------
\* mem_recv.

RGoto(l) == rpc' = l
\* ret = ret? ret: code
OrElse(code) == IF rv.ret = "OK" THEN code ELSE rv.ret
\* Leave the scan with the result `code`: the read cursor will go to rb.
LeaveScanAtEnd(code) ==                                       \* mutant
  /\ RGoto("clean") /\ re' = rw
  /\ rv' = [rv EXCEPT !.ret = OrElse(code), !.i = rpos]
LeaveScan(code) ==
  /\ RGoto("clean") /\ re' = rb
  /\ rv' = [rv EXCEPT !.ret = OrElse(code), !.i = rpos]
\* Step over one node and look at the next.
NextNode == RGoto("scan") /\ rb' = rb + 1 /\ re' = rb + 1

ReaderOnly == UNCHANGED <<writerV, rpos, wpos, opseq, blk, data, crashes,
                          order, returned, delivered>>

Recv ==
  /\ rpc = "idle" /\ RGoto("scan")
  /\ \E cap \in RecvCaps : rv' = [IdleRv EXCEPT !.cap = cap]
  /\ rb' = rpos /\ re' = rpos /\ rw' = wpos
  /\ UNCHANGED <<shared, writerV, crashes, history>>

ScanEnd ==
  /\ rpc = "scan" /\ Idx(rb) = Idx(rw)
  /\ LeaveScan("NO_DATA")
  /\ UNCHANGED <<head, waiting, elapsed, tcount, rb, rw, hz>> /\ ReaderOnly

\* Not the first node of a block: step over it, whatever it is.
ScanSkip ==
  /\ rpc = "scan" /\ Idx(rb) # Idx(rw)
  /\ ~head[Idx(rb)].start
  /\ NextNode
  /\ hz' = IF OwnersAt(rb, {"mark"}) # {} THEN hz \cup {"early"} ELSE hz
  /\ UNCHANGED <<head, waiting, elapsed, tcount, rw, rv>> /\ ReaderOnly

AtUnwritten == /\ rpc = "scan" /\ Idx(rb) # Idx(rw)
               /\ head[Idx(rb)].start /\ ~head[Idx(rb)].writen

\* A block still being written: note the time, wait, or give it up.  The code
\* compares the wait with the number of timeouts so far, not with
\* conf_send_timeout_ms.
WaitOver == waiting /\ elapsed > tcount
NoteTimeAlways == ~WaitOver /\ waiting' = TRUE /\ elapsed' = 0 \* mutant
NoteTime ==
  \/ ~waiting /\ waiting' = TRUE /\ elapsed' = 0
  \/ waiting /\ ~WaitOver /\ UNCHANGED <<waiting, elapsed>>

ScanWait ==
  /\ AtUnwritten /\ NoteTime
  /\ LeaveScan("NO_DATA")
  /\ UNCHANGED <<head, tcount, rb, rw, hz>> /\ ReaderOnly

ScanTimeout ==
  /\ AtUnwritten /\ WaitOver
  /\ tcount' = tcount + 1
  /\ waiting' = FALSE /\ elapsed' = 0
  /\ NextNode
  /\ hz' = IF OwnersAt(rb, Writing) # {} THEN hz \cup {"timeout"} ELSE hz
  /\ UNCHANGED <<head, rw, rv>> /\ ReaderOnly

\* A published block: its length decides.
ScanBlock ==
  /\ rpc = "scan" /\ Idx(rb) # Idx(rw) /\ Published(Idx(rb))
  /\ \E s \in SizeAt(Idx(rb)) :
       \/ /\ s = 0 \/ s > NodeCount - Protect
          /\ NextNode
          /\ rv' = [rv EXCEPT !.ret = OrElse("BAD_BUFF_SIZE")]
       \/ /\ s > 0 /\ s <= NodeCount - Protect /\ s > rv.cap
          /\ LeaveScan("BUFF_LIMIT")
          /\ UNCHANGED rb
       \/ /\ s > 0 /\ s <= NodeCount - Protect /\ s <= rv.cap
          /\ RGoto("reset") /\ re' = rb
          /\ rv' = [rv EXCEPT !.seq = head[Idx(rb)].seq]
          /\ UNCHANGED rb
  /\ UNCHANGED <<head, waiting, elapsed, tcount, rw, hz>> /\ ReaderOnly

\* A node given back loses its flags and its number.
Freed(n) == [head EXCEPT ![n] = CleanHead]

\* Free the heads of the block, as far as they carry its operation number.
ResetNode ==
  /\ rpc = "reset" /\ Idx(re) # Idx(rw) /\ head[Idx(re)].seq = rv.seq
  /\ head' = Freed(Idx(re))
  /\ re' = re + 1
  /\ hz' = IF OwnersAt(re, {"check"}) # {} THEN hz \cup {"late"} ELSE hz
  /\ UNCHANGED <<waiting, elapsed, tcount, rpc, rb, rw, rv>> /\ ReaderOnly

\* The message in the block at position p, if the checksum agrees with it.
Intact(p, n) ==
  LET m == blk[Idx(p)].check
  IN  m # NoMsg /\ Need(m) = n /\ \A i \in 0 .. n - 1 : data[Idx(p + i)] = m

\* The nodes freed must be as many as the length calls for.  Then copy and
\* check the block, unless an earlier node of this call was bad.
TakeBlock ==
  /\ rpc = "reset"
  /\ Idx(re) = Idx(rw) \/ head[Idx(re)].seq # rv.seq
  /\ \E s \in SizeAt(Idx(rb)) :
       LET n == (Idx(re) + NodeCount - Idx(rb)) % NodeCount
       IN  \/ /\ s # n /\ NextNode
              /\ rv' = [rv EXCEPT !.ret = OrElse("BAD_NODE_NUM")]
              /\ UNCHANGED <<waiting, elapsed>>
           \/ /\ s = n /\ rv.ret # "OK" /\ RGoto("clean")
              /\ rv' = [rv EXCEPT !.i = rpos]
              /\ UNCHANGED <<waiting, elapsed, rb, re>>
           \/ /\ s = n /\ rv.ret = "OK" /\ RGoto("clean")
              /\ rv' = [rv EXCEPT !.i = rpos, !.m = blk[Idx(rb)].check,
                                  !.ret = IF Intact(rb, n) THEN "OK" ELSE "BAD_DATA"]
              /\ waiting' = FALSE /\ elapsed' = 0
              /\ UNCHANGED <<rb, re>>
  /\ UNCHANGED <<head, tcount, rw, hz>> /\ ReaderOnly

\* Clear the heads of the nodes stepped over, then publish the read cursor.
CleanNode ==
  /\ rpc = "clean" /\ Idx(rv.i) # Idx(rb)
  /\ head' = Freed(Idx(rv.i))
  /\ rv' = [rv EXCEPT !.i = @ + 1]
  /\ UNCHANGED <<waiting, elapsed, tcount, rpc, rb, re, rw, hz>> /\ ReaderOnly

StoreReadCur ==
  /\ rpc = "clean" /\ Idx(rv.i) = Idx(rb) /\ RGoto("idle")
  /\ rpos' = re
  /\ rb' = re /\ rw' = re /\ rv' = IdleRv
  /\ delivered' = IF rv.ret = "OK" THEN Append(delivered, rv.m)
                  ELSE delivered
  /\ UNCHANGED <<wpos, opseq, head, blk, data, waiting, elapsed, tcount, writerV,
                 re, crashes, order, returned, hz>>

\* The reader's process dies and is started again: its locals are gone, and
\* the clock of the new process has no relation to first_failed_writing_time.
ReaderCrash ==
  /\ rpc # "idle" /\ crashes < MaxReaderCrash
  /\ RGoto("idle") /\ crashes' = crashes + 1
  /\ rb' = rpos /\ re' = rpos /\ rw' = rpos /\ rv' = IdleRv
  /\ elapsed' \in IF waiting THEN 0 .. MaxElapsed ELSE {elapsed}
  /\ hz' = IF re # rb THEN hz \cup {"readercrash"} ELSE hz
  /\ UNCHANGED <<rpos, wpos, opseq, head, blk, data, waiting, tcount, writerV,
                 order, returned, delivered>>

Tick ==
  /\ waiting /\ elapsed < MaxElapsed /\ elapsed' = elapsed + 1
  /\ UNCHANGED <<rpos, wpos, opseq, head, blk, data, waiting, tcount, writerV,
                 readerV, history>>

ReaderStep ==
  \/ ScanEnd \/ ScanSkip \/ ScanWait \/ ScanTimeout \/ ScanBlock
  \/ ResetNode \/ TakeBlock \/ CleanNode \/ StoreReadCur

Next ==
  \/ \E w \in Writers : Send(w) \/ Step(w) \/ CasSpurious(w) \/ Crash(w)
  \/ Recv \/ ReaderStep \/ ReaderCrash \/ Tick

Spec == Init /\ [][Next]_vars

\* A writer inside mem_send keeps running; a contended compare-and-swap that is
\* tried again and again does succeed.  Nothing makes a caller send.
WritersRun == \A w \in Writers : WF_vars(Step(w)) /\ SF_vars(CasWriteCur(w))
\* The node loop keeps polling mem_recv, and time passes.  This is not part of
\* the specification: what needs it says so.
ReaderRuns == WF_vars(Recv) /\ WF_vars(ReaderStep) /\ WF_vars(Tick)

FairSpec == Spec /\ WritersRun

-----------------------------------------------------------------------------
Positions == Nat
WriterPlaces == {"idle", "dead", "begin", "load", "cas"} \cup Writing
ReaderPlaces == {"idle", "scan", "reset", "clean"}
ReaderCodes  == {"OK", "NO_DATA", "BUFF_LIMIT", "BAD_BUFF_SIZE",
                 "BAD_NODE_NUM", "BAD_DATA"}
AnyMsg == Message \cup {NoMsg}

HeadType == [start : BOOLEAN, writen : BOOLEAN, seq : Seqs]
BlkType  == [size : Nat, check : AnyMsg]
OpType   == [m : AnyMsg, tries : Nat, seq : Seqs, i : Nat, start : BOOLEAN]
RvType   == [ret : ReaderCodes, cap : Nat, seq : Seqs, i : Nat, m : AnyMsg]
OrderType == [m : Message, p : Positions]

CursorsOK == rpos \in Positions /\ wpos \in Positions /\ opseq \in Seqs
NodesOK   == /\ head \in [Nodes -> HeadType]
             /\ blk \in [Nodes -> BlkType]
             /\ data \in [Nodes -> AnyMsg]
TimerOK   == waiting \in BOOLEAN /\ elapsed \in 0 .. MaxElapsed /\ tcount \in Nat
WritersOK == /\ pc \in [Writers -> WriterPlaces]
             /\ wc \in [Writers -> Positions]
             /\ rc \in [Writers -> Positions]
             /\ op \in [Writers -> OpType]
             /\ sent \in [Writers -> 0 .. MaxSend]
ReaderOK  == /\ rpc \in ReaderPlaces
             /\ rb \in Positions /\ re \in Positions /\ rw \in Positions
             /\ rv \in RvType /\ crashes \in Nat
HistoryOK == /\ order \in Seq(OrderType)
             /\ returned \subseteq Message \X {"SUCCESS", "BUFF_LIMIT"}
             /\ delivered \in Seq(AnyMsg)
             /\ hz \subseteq Windows

\* Every variable has its type: cursors are positions, node heads carry an
\* operation number below the wrap, a writer inside mem_send has a message.
TypeOK ==
  /\ CursorsOK /\ NodesOK /\ TimerOK /\ WritersOK /\ ReaderOK /\ HistoryOK
  /\ \A w \in Writers : pc[w] \notin {"idle", "dead"} => op[w].m \in Message

-----------------------------------------------------------------------------
(***************************************************************************)
(* What the ring promises, and up to which race windows it keeps it:       *)
(*   lap          a compare-and-swap succeeded though the write cursor had *)
(*                gone once round the ring since it was loaded;            *)
(*   early        the reader passed a reserved node before its writer had  *)
(*                marked it as the start of a block;                       *)
(*   late         the reader freed a block between its publication and its *)
(*                writer's final check;                                    *)
(*   timeout      the reader gave up a block whose writer is alive;        *)
(*   readercrash  the reader died after freeing heads, before it published *)
(*                its cursor;                                              *)
(*   wrap         an operation number was given out again while a node, a  *)
(*                writer or the reader still went by it.                   *)
(***************************************************************************)
Without(windows) == hz \cap windows = {}

Elements(s) == {s[i] : i \in DOMAIN s}
Result(m)   == {r[2] : r \in {x \in returned : x[1] = m}}
Accepted    == {m \in Message : Need(m) > 0 /\ <<m, "SUCCESS">> \in returned}

\* A whole block with m that the reader will find, or has begun to take.
InRing(m) == \E p \in rpos .. wpos - 1 :
               /\ head[Idx(p)].start /\ head[Idx(p)].writen
               /\ blk[Idx(p)].check = m
InHand(m) == /\ rpc \in {"reset", "clean"} /\ rv.ret = "OK" /\ re # rb
             /\ m = IF rpc = "clean" THEN rv.m ELSE blk[Idx(rb)].check
Kept(m)   == m \in Elements(delivered) \/ InRing(m) \/ InHand(m)

\* The nodes a writer has reserved and not yet published.
Reserved(w) == wc[w] .. wc[w] + Need(op[w].m) - 1
Filling(w)  == pc[w] \in Writing \ {"check"}

\* The used nodes [read_cur, write_cur) never fill the ring: one node and the
\* protected ones stay free (channel_mem.cpp:87), whatever the reader and other
\* writers do between a writer's loads of the two cursors and its
\* compare-and-swap; only a cursor that went once round can break it.
CursorSafe ==
  Without({"lap"}) =>
    /\ rpos <= wpos
    /\ wpos = rpos \/ wpos - rpos <= NodeCount - 1 - Protect

\* Why: the cursors a writer has loaded are never ahead of the shared ones, and
\* the room it computed from them is there at least until the write cursor
\* moves; the reader stays between the cursors it loaded.
WritersSeeThePast ==
  \A w \in Writers :
    /\ pc[w] = "load" => wc[w] <= wpos
    /\ pc[w] = "cas" => /\ wc[w] <= wpos /\ rc[w] <= rpos
                        /\ wc[w] - rc[w] <= NodeCount - 1
                        /\ Need(op[w].m) <= Available(rc[w], wc[w])
ReaderStaysInside ==
  /\ rpc = "scan"  => rpos <= rb /\ rb <= rw /\ rw <= wpos
  /\ rpc = "reset" => rpos <= rb /\ rb < rw /\ rb <= re /\ re <= rw /\ rw <= wpos
  /\ rpc = "clean" => rpos <= re /\ re <= wpos
RoomInv == CursorSafe /\ (Without({"lap"}) => WritersSeeThePast /\ ReaderStaysInside)

\* The nodes a writer is filling belong to it alone, from mem_send_real's
\* reservation until it publishes them: no other writer's reservation meets
\* them and the read cursor has not passed them.
ExclusiveNodes ==
  Without({"lap", "early", "timeout", "wrap"}) =>
    \A w \in Writers : Filling(w) =>
      /\ Reserved(w) \subseteq rpos .. wpos - 1
      /\ \A v \in Writers \ {w} : Filling(v) => Reserved(w) \cap Reserved(v) = {}

\* A message whose mem_send returned success is never lost: it has been handed
\* out, waits in the ring, or is being taken.  That holds also for a sender
\* whose final check came after the reader and which therefore sends again.
NoSilentLoss ==
  Without({"lap", "early", "timeout", "wrap", "readercrash"}) =>
    \A m \in Accepted : Kept(m)

\* mem_recv hands out a message at most once, and never one whose mem_send
\* returned an error, also when writers and the reader crash in between.
DeliveredOnce ==
  Without({"lap", "early", "late", "timeout", "wrap"}) =>
    /\ \A i, j \in DOMAIN delivered : delivered[i] = delivered[j] => i = j
    /\ \A m \in Elements(delivered) : <<m, "BUFF_LIMIT">> \notin returned

\* mem_recv never meets a bad block, also not the remains of a crash.
NoBadBlock ==
  Without({"lap", "early", "timeout", "wrap"}) =>
    rv.ret \notin {"BAD_BUFF_SIZE", "BAD_NODE_NUM", "BAD_DATA"}

\* A call of mem_send comes back whatever the other writers do, and also when
\* nobody calls mem_recv any more or the reader has died in the middle of it.
SendReturns ==
  \A w \in Writers : pc[w] = "begin" ~> pc[w] \in {"idle", "dead"}

Quiet == \A w \in Writers : pc[w] = "dead" \/ (pc[w] = "idle" /\ sent[w] = MaxSend)

\* While the reader keeps polling, an accepted message is handed out in the end,
\* also when it lies behind the block of a writer that crashed; and once no writer
\* is at work any more the ring runs empty: what a crashed writer left in it is
\* given up after a while and stepped over.
Delivery ==
  ReaderRuns =>
    /\ \A m \in Message :
         m \in Accepted ~> \/ m \in Elements(delivered)
                           \/ ~Without({"lap", "early", "timeout", "wrap", "readercrash"})
    /\ Quiet ~> (rpos = wpos \/ ~Without({"lap", "early", "timeout", "wrap"}))

=============================================================================
