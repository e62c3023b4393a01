---------------------------- MODULE BufferManager ----------------------------
(***************************************************************************)
(* The buffer_manager of src/detail/buffer.cpp: a queue of blocks with two  *)
(* modes.  In the static mode the blocks lie in one circular piece of       *)
(* memory and a circular array circle_index_ points to them; in the dynamic *)
(* mode each is allocated on its own.  Connections keep one for what they   *)
(* have read and one for what they still have to write; libuv holds         *)
(* pointers into the blocks meanwhile.                                      *)
(*                                                                         *)
(* An address is an offset into the circular piece.  A block is one record  *)
(* at the address of its head; `what` stands for its payload, which is      *)
(* Garbage once another block has been put on top of it.                    *)
(***************************************************************************)
EXTENDS Integers, Sequences, FiniteSets

CONSTANTS
  Word,      \* sizeof(size_t), the unit blocks are padded to
  HeadSize,  \* head_size: the room a block's head takes
  Lengths,   \* sizes callers push
  PopSizes,  \* sizes callers consume at once
  Payloads,  \* payloads that can be told apart
  Modes,     \* <<max_size, max_number>> callers give set_mode, 0 for dynamic
  Limits     \* <<max_size, max_number>> callers give set_limit, 0 for none

ASSUME LayoutAssumption ==
  Word \in Nat \ {0} /\ HeadSize \in Nat \ {0} /\ HeadSize % Word = 0
ASSUME CallerAssumption ==
  /\ Lengths \subseteq Nat /\ PopSizes \subseteq Nat
  /\ Modes \subseteq Nat \X Nat /\ Limits \subseteq Nat \X Nat

VARIABLES
  area,      \* static_buffer_.size_, 0 in the dynamic mode
  slots,     \* circle_index_.size()
  index,     \* circle_index_
  head, tail,\* static_buffer_.head_, tail_
  mem,       \* the blocks in the circular piece, by address
  list,      \* dynamic_buffer_
  limit,     \* limit_size_, limit_number_
  cost,      \* cost_size_, cost_number_
  ret        \* what the last call returned

place == <<area, slots, index, head, tail, mem>>
vars  == <<place, list, limit, cost, ret>>

-----------------------------------------------------------------------------
NULL    == -1
Garbage == "garbage"
NoBlock == [what |-> Garbage, size |-> 0, used |-> 0]
NoLimit == [size |-> 0, number |-> 0]

Static == area > 0
Next1(i) == (i + 1) % slots
Prev1(i) == (i + slots - 1) % slots
Count    == (tail + slots - head) % slots

PaddingSize(s) == ((s + Word - 1) \div Word) * Word
FullSize(s)    == HeadSize + PaddingSize(s)

Block(v, s) == [what |-> v, size |-> s, used |-> 0]

\* buffer_block::pop
Pop(b, n) == [b EXCEPT !.used = IF @ + n > b.size THEN b.size ELSE @ + n]

\* Where a block of the full size fs goes when the first block is at h and the
\* free room begins at t: NULL if there is no room.  Beyond the wrap one unit
\* is left, since h = t means that the room before h is not used.
PlaceBackTight(h, t, fs) ==                                   \* mutant
  IF t >= h THEN IF area - t >= fs THEN t ELSE IF h >= fs THEN 0 ELSE NULL
  ELSE IF h - t >= fs THEN t ELSE NULL
PlaceBackNoHead(h, t, fs) ==                                  \* mutant
  IF t >= h THEN IF area - t >= fs - HeadSize THEN t ELSE IF h > fs THEN 0 ELSE NULL
  ELSE IF h - t > fs THEN t ELSE NULL
PlaceBack(h, t, fs) ==
  IF t >= h THEN IF area - t >= fs THEN t ELSE IF h > fs THEN 0 ELSE NULL
  ELSE IF h - t > fs THEN t ELSE NULL

PlaceFrontTight(h, t, fs) ==                                  \* mutant
  IF t >= h THEN IF h >= fs THEN h - fs ELSE IF area - t >= fs THEN area - fs ELSE NULL
  ELSE IF h - t >= fs THEN h - fs ELSE NULL
PlaceFront(h, t, fs) ==
  IF t >= h THEN IF h >= fs THEN h - fs ELSE IF area - t > fs THEN area - fs ELSE NULL
  ELSE IF h - t > fs THEN h - fs ELSE NULL

\* buffer_block::create at the address a, and the caller fills the block:
\* whatever was there is gone.
Create(a, b) ==
  [x \in DOMAIN mem |->
     IF x = a THEN b
     ELSE IF a < x /\ x < a + FullSize(b.size) THEN NoBlock
     ELSE IF x < a /\ a < x + FullSize(mem[x].size) THEN [mem[x] EXCEPT !.what = Garbage]
     ELSE mem[x]]

-----------------------------------------------------------------------------
Cleared ==
  /\ head' = 0 /\ tail' = 0 /\ list' = <<>> /\ cost' = NoLimit

\* The constructor: dynamic and without limits.
Init ==
  /\ area = 0 /\ slots = 0 /\ index = <<>> /\ head = 0 /\ tail = 0 /\ mem = <<>>
  /\ list = <<>> /\ limit = NoLimit /\ cost = NoLimit /\ ret = "OK"

\* set_mode clears the buffer.  If there is no memory for the circular piece the
\* mode is dynamic, and without limits.
SetMode(size, number) ==
  /\ Cleared /\ ret' = "OK"
  /\ \/ /\ size > 0 /\ number > 0
        /\ area' = PaddingSize(size) /\ slots' = number + 1
        /\ index' = [i \in 0 .. number |-> NULL]
        /\ mem' = [a \in 0 .. PaddingSize(size) - 1 |-> NoBlock]
        /\ limit' = [size |-> size, number |-> number]
     \/ /\ area' = 0 /\ slots' = 0 /\ index' = <<>> /\ mem' = <<>>
        /\ limit' = NoLimit

Reset ==
  /\ Cleared /\ ret' = "OK"
  /\ area' = 0 /\ slots' = 0 /\ index' = <<>> /\ mem' = <<>> /\ limit' = NoLimit

\* set_limit is for the dynamic mode.
SetLimit(size, number) ==
  /\ limit' = IF Static THEN limit ELSE [size |-> size, number |-> number]
  /\ ret' = IF Static THEN "FALSE" ELSE "OK"
  /\ UNCHANGED <<place, list, cost>>

-----------------------------------------------------------------------------
\* push_back, push_front.

OverLimit(s) ==
  \/ limit.number > 0 /\ cost.number >= limit.number
  \/ limit.size > 0 /\ cost.size + s > limit.size

Refuse(code) ==
  ret' = code /\ UNCHANGED <<place, list, limit, cost>>

Accepted(s) ==
  /\ ret' = "OK"
  /\ cost' = [size |-> cost.size + s, number |-> cost.number + 1]
  /\ UNCHANGED limit

\* circle_index_ as the rest of a push sees it: the first push after set_mode
\* finds it empty and begins at the start of the memory.
Fresh    == index[head] = NULL \/ index[tail] = NULL
IndexNow == IF Fresh THEN [index EXCEPT ![0] = 0] ELSE index
HeadNow  == IF Fresh THEN 0 ELSE head
TailNow  == IF Fresh THEN 0 ELSE tail
HeadAt   == IndexNow[HeadNow]
TailAt   == IndexNow[TailNow]

NoRoom ==
  /\ ret' = "BUFF_LIMIT"
  /\ index' = IndexNow /\ head' = HeadNow /\ tail' = TailNow
  /\ UNCHANGED <<area, slots, mem, list, limit, cost>>

StaticPushBack(s, v) ==
  LET a == PlaceBack(HeadAt, TailAt, FullSize(s))
  IN  IF Next1(tail) = head THEN Refuse("BUFF_LIMIT")
      ELSE IF a = NULL THEN NoRoom
      ELSE /\ mem' = Create(a, Block(v, s))
           /\ head' = HeadNow /\ tail' = Next1(TailNow)
           /\ index' = [IndexNow EXCEPT ![TailNow] = a,
                                        ![Next1(TailNow)] = a + FullSize(s)]
           /\ Accepted(s)
           /\ UNCHANGED <<area, slots, list>>

StaticPushFront(s, v) ==
  LET a == PlaceFront(HeadAt, TailAt, FullSize(s))
  IN  IF Next1(tail) = head THEN Refuse("BUFF_LIMIT")
      ELSE IF a = NULL THEN NoRoom
      ELSE /\ mem' = Create(a, Block(v, s))
           /\ tail' = TailNow /\ head' = Prev1(HeadNow)
           /\ index' = [IndexNow EXCEPT ![Prev1(HeadNow)] = a]
           /\ Accepted(s)
           /\ UNCHANGED <<area, slots, list>>

\* The dynamic mode: the list grows, unless malloc fails.
DynamicPush(s, pushed) ==
  \/ list' = pushed /\ Accepted(s) /\ UNCHANGED place
  \/ Refuse("MALLOC")

PushBack(s, v) ==
  IF OverLimit(s) THEN Refuse("BUFF_LIMIT")
  ELSE IF Static THEN StaticPushBack(s, v)
  ELSE DynamicPush(s, Append(list, Block(v, s)))

PushFront(s, v) ==
  IF OverLimit(s) THEN Refuse("BUFF_LIMIT")
  ELSE IF Static THEN StaticPushFront(s, v)
  ELSE DynamicPush(s, <<Block(v, s)>> \o list)

-----------------------------------------------------------------------------
\* pop_back, pop_front: consume n units of a block, at most what is left of it,
\* and take it away if it is spent and the caller wants that.

Left(b) == b.size - b.used
Eaten(b, n) == IF n > Left(b) THEN Left(b) ELSE n

\* The cost after n units of b are consumed, given whether b is taken away and
\* whether nothing is left then.
CostAsAsked(b, n, gone, empty) ==                             \* mutant
  IF empty THEN NoLimit
  ELSE [size   |-> IF cost.size >= n THEN cost.size - n ELSE 0,
        number |-> IF gone /\ cost.number > 0 THEN cost.number - 1 ELSE cost.number]
CostAfter(b, n, gone, empty) ==
  IF empty THEN NoLimit
  ELSE [size   |-> IF cost.size >= Eaten(b, n) THEN cost.size - Eaten(b, n) ELSE 0,
        number |-> IF gone /\ cost.number > 0 THEN cost.number - 1 ELSE cost.number]

\* Once the last block is gone the next one begins at the start of the memory.
RewoundNever(ix, h, t) == <<ix, h, t>>                        \* mutant
Rewound(ix, h, t) ==
  IF h = t THEN <<[ix EXCEPT ![0] = 0], 0, 0>> ELSE <<ix, h, t>>

\* Consume n units of the block at a; if it is taken away, `rest` is what
\* circle_index_, head_ and tail_ become.
StaticPop(a, n, free, rest) ==
  LET b    == mem[a]
      gone == free /\ Left(b) = Eaten(b, n)
      now  == IF gone THEN rest ELSE <<index, head, tail>>
  IN  /\ mem' = [mem EXCEPT ![a] = IF gone THEN NoBlock ELSE Pop(b, n)]
      /\ index' = now[1] /\ head' = now[2] /\ tail' = now[3]
      /\ cost' = CostAfter(b, n, gone, now[2] = now[3])
      /\ ret' = "OK" /\ UNCHANGED <<area, slots, list, limit>>

StaticPopBack(n, free) ==
  StaticPop(index[Prev1(tail)], n, free,
            Rewound([index EXCEPT ![tail] = NULL], head, Prev1(tail)))

StaticPopFront(n, free) ==
  StaticPop(index[head], n, free,
            Rewound([index EXCEPT ![head] = NULL], Next1(head), tail))

\* One end of the list: its block b, the others, and the list with b at that
\* end again.
DynamicPop(b, n, free, others, back) ==
  LET gone == free /\ Left(b) = Eaten(b, n)
  IN  /\ list' = IF gone THEN others ELSE back
      /\ cost' = CostAfter(b, n, gone, gone /\ others = <<>>)
      /\ ret' = "OK" /\ UNCHANGED <<place, limit>>

Empty == IF Static THEN head = tail ELSE list = <<>>

PopBack(n, free) ==
  IF Empty THEN Refuse("NO_DATA")
  ELSE IF Static THEN StaticPopBack(n, free)
  ELSE LET others == SubSeq(list, 1, Len(list) - 1)
           b      == list[Len(list)]
       IN  DynamicPop(b, n, free, others, Append(others, Pop(b, n)))

PopFront(n, free) ==
  IF Empty THEN Refuse("NO_DATA")
  ELSE IF Static THEN StaticPopFront(n, free)
  ELSE DynamicPop(Head(list), n, free, Tail(list), <<Pop(Head(list), n)>> \o Tail(list))

Next ==
  \/ \E m \in Modes : SetMode(m[1], m[2])
  \/ \E l \in Limits : SetLimit(l[1], l[2])
  \/ Reset
  \/ \E s \in Lengths, v \in Payloads : PushBack(s, v) \/ PushFront(s, v)
  \/ \E n \in PopSizes, free \in BOOLEAN : PopBack(n, free) \/ PopFront(n, free)

Spec == Init /\ [][Next]_vars

-----------------------------------------------------------------------------
\* The queue the caller sees.
At(k)    == index[(head + k) % slots]
Contents == IF Static THEN [k \in 1 .. Count |-> mem[At(k - 1)]] ELSE list

BlockType == [what : Payloads \cup {Garbage}, size : Nat, used : Nat]
PairType  == [size : Nat, number : Nat]

\* Every variable has its type; no block has more consumed than it holds.
TypeOK ==
  /\ area \in Nat /\ slots \in Nat
  /\ index \in [DOMAIN index -> 0 .. area \cup {NULL}]
  /\ Static => /\ slots > 1 /\ DOMAIN index = 0 .. slots - 1
               /\ head \in DOMAIN index /\ tail \in DOMAIN index
  /\ DOMAIN mem = 0 .. area - 1
  /\ mem \in [DOMAIN mem -> BlockType] /\ list \in Seq(BlockType)
  /\ limit \in PairType /\ cost \in PairType
  /\ ret \in {"OK", "FALSE", "BUFF_LIMIT", "NO_DATA", "MALLOC"}
  /\ \A i \in DOMAIN list : list[i].used <= list[i].size
  /\ \A a \in DOMAIN mem : mem[a].used <= mem[a].size

\* The address the k-th block would have if the memory did not wrap.
Logical(k) == IF At(k) >= At(0) THEN At(k) ELSE At(k) + area
Full(k)    == FullSize(mem[At(k)].size)

\* The blocks of the static mode lie inside the memory, in the order of the
\* queue, and none overlaps another or the room from which the next is taken,
\* however pushes and pops at the two ends, wraps and refusals alternate.
\* (libuv reads from and writes into these blocks while others come and go.)
LayoutInv ==
  Static =>
    /\ Count = 0 => head = 0 /\ index[0] \in {NULL, 0}
    /\ Count > 0 => \A k \in 0 .. Count : At(k) # NULL
    /\ \A k \in 0 .. Count - 1 : At(k) \in DOMAIN mem /\ At(k) + Full(k) <= area
    /\ \A k \in 1 .. Count, j \in 0 .. Count - 1 :
         j < k => Logical(j) + Full(j) <= Logical(k)

\* The cost the limits are compared with is what is in the queue: a block that
\* is consumed in parts or in one go, taken away at once or later, gives back
\* exactly what it took.
LeftIn(q) ==
  LET sum[i \in 0 .. Len(q)] == IF i = 0 THEN 0 ELSE sum[i - 1] + Left(q[i])
  IN  sum[Len(q)]
CostExact == cost = [size |-> LeftIn(Contents), number |-> Len(Contents)]

\* An empty static buffer takes every block that fits its memory and its limit
\* at all: no sequence of calls leaks room.
EmptyTakesAll ==
  [][\A s \in Lengths, v \in Payloads :
       PushBack(s, v) /\ Static /\ Empty /\ ret' # "OK" =>
         FullSize(s) > area \/ s > limit.size]_vars
=============================================================================
