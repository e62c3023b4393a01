---------------------------- MODULE IoStreamProofs ----------------------------
(***************************************************************************)
(* Proofs about IoStream, for any number of handles, descriptors and writes: *)
(* types, the agreement of the two write queues, what is reported, and that  *)
(* nothing is left when io_stream_close returns.                            *)
(*                                                                         *)
(* And, in the second half, about the bytes of one stream (Framing), for any  *)
(* messages and however they arrive in pieces: what the user is called with   *)
(* is what was sent, and there is always room to read into.                  *)
(***************************************************************************)
EXTENDS IoStream, Framing, FiniteSetTheorems, SequenceTheorems, WellFoundedInduction, TLAPS

\* The stages of a handle that is a connection.
Connections == {"live", "closing", "closed"}
Asking      == {"lookup", "connecting"}

\* The requests active_reqs counts: a lookup or a connect, and the writes libuv
\* has still to report.
Pending == [s \in Streams |-> (IF stage[s] \in Asking THEN {0} ELSE {}) \cup 1 .. Len(uv[s])]
\* A request is a handle and a number.
Pairs(P) == UNION {{<<s, i>> : i \in P[s]} : s \in Streams}
\* The requests that libuv has still to answer.
Requests == Pairs(Pending)

-----------------------------------------------------------------------------
\* What holds in every behaviour, whichever descriptor is given out again.

\* A connection in the pool is filed under its descriptor.
FiledRight ==
  \A f \in DOMAIN pool : fd[pool[f]] = f /\ stage[pool[f]] \in Connections

\* The callback that is running is that of a connection, which has something to
\* report or is still in the pool.
RunningRight ==
  /\ running.fn = "written" =>
       /\ running.s \in Streams /\ stage[running.s] \in {"live", "closing"}
       /\ buffers[running.s] # <<>>
  /\ running.fn = "close" =>
       /\ running.s \in Streams /\ stage[running.s] = "closed"
       /\ fd[running.s] \in DOMAIN pool
  /\ running.fn = "none" => running = Idle

\* The counter never runs below what it counts, and is exact until a descriptor
\* is given out again too early.
Counted == IsFiniteSet(Requests) /\ Cardinality(Requests) <= active
Exact   == Cardinality(Requests) = active

\* The counter of requests: never too small, and exact unless a window was hit.
CountRight == Counted /\ active \in Nat /\ (hz = {} => Exact)

\* What holds in every behaviour.
AlwaysInv == FiledRight /\ RunningRight /\ WriteQueuesAgree /\ CountRight

-----------------------------------------------------------------------------
\* What holds until a descriptor is given out again too early.

\* No connection is overwritten in the pool.
AllFiled ==
  \A s \in Streams : stage[s] \in Connections => fd[s] \in DOMAIN pool /\ pool[fd[s]] = s

\* One connection is in its last callback, if any.
OneClosed ==
  \A s \in Streams : stage[s] = "closed" <=> running.fn = "close" /\ running.s = s

\* Only connections have writes to report.
OnlyConnectionsWrite ==
  \A s \in Streams : uv[s] # <<>> => stage[s] \in {"live", "closing"}

\* What the user has been told is what the handle is for.
ToldRight ==
  \A s \in Streams :
    /\ told[s] = "asked" <=> stage[s] \in Asking
    /\ told[s] = "open" <=> stage[s] \in {"live", "closing"}
    /\ told[s] # "again"

\* How far io_stream_close has come.
ClosingRight ==
  /\ phase # "open" => \A s \in Streams : stage[s] # "live"
  /\ phase \in {"draining", "closed"} => DOMAIN pool = {}
  /\ phase = "closed" => running = Idle /\ \A s \in Streams : stage[s] \notin Asking

Quiet    == AllFiled /\ OneClosed /\ OnlyConnectionsWrite /\ ToldRight /\ ClosingRight
\* What holds until a descriptor is given out again too early.
QuietInv == hz = {} => Quiet

\* TypeOK by the part of the state it is about, without the counter.
HandlesOK ==
  /\ stage \in [Streams -> Stages]
  /\ kind \in [Streams -> {"listen", "connect", "accept"}]
  /\ fd \in [Streams -> Fds]
  /\ told \in [Streams -> Told]
  /\ sent \in [Streams -> 0 .. MaxSend]

\* Types of the pool.
PoolOK == DOMAIN pool \subseteq Fds /\ \A f \in DOMAIN pool : pool[f] \in Streams

\* Types of the write queues.
QueuesOK ==
  /\ DOMAIN buffers = Streams /\ DOMAIN uv = Streams
  /\ \A s \in Streams : buffers[s] \in Seq(1 .. sent[s]) /\ uv[s] \in Seq(1 .. sent[s])

\* The callbacks there can be.
Runs == [fn : {"none", "recv", "written", "close"}, s : Streams \cup {None}, req : 0 .. MaxSend]

\* Types of what is kept for the channel.
ChannelOK ==
  /\ phase \in {"open", "closing", "draining", "closed"}
  /\ owner \in BOOLEAN
  /\ running \in Runs
  /\ hz \subseteq Windows

\* TypeOK but for the counter.
Types == HandlesOK /\ PoolOK /\ QueuesOK /\ ChannelOK

\* What it does to tell the user.
LEMMA Telling ==
  ASSUME HandlesOK, NEW s \in Streams, NEW what \in Told \ {"again"}, Tell(s, what)
  PROVE  /\ told' \in [Streams -> Told]
         /\ \A t \in Streams \ {s} : told'[t] = told[t]
         /\ told'[s] = IF told[s] = what /\ what \in {"open", "gone"} THEN "again" ELSE what
BY DEF HandlesOK, Tell, Told

\* What it does to file a connection and to tell the user that it is open.
LEMMA Opens ==
  ASSUME Types,
         NEW s \in Streams, NEW f \in Fds, NEW k \in {"listen", "connect", "accept"},
         MakeConnection(s, f, k), Tell(s, "open")
  PROVE  /\ HandlesOK' /\ PoolOK' /\ QueuesOK' /\ hz' \subseteq Windows
         /\ stage' = [stage EXCEPT ![s] = "live"] /\ fd' = [fd EXCEPT ![s] = f]
         /\ told' = [told EXCEPT ![s] = IF @ = "open" THEN "again" ELSE "open"]
         /\ buffers'[s] = <<>> /\ uv'[s] = <<>>
         /\ \A t \in Streams \ {s} : buffers'[t] = buffers[t] /\ uv'[t] = uv[t]
         /\ hz' = {} => hz = {} /\ f \notin DOMAIN pool
<1> USE DEF Types
<1>1. /\ stage' = [stage EXCEPT ![s] = "live"] /\ stage' \in [Streams -> Stages]
      /\ kind' \in [Streams -> {"listen", "connect", "accept"}]
      /\ fd' = [fd EXCEPT ![s] = f] /\ fd' \in [Streams -> Fds]
  BY DEF MakeConnection, HandlesOK, Stages
<1>2. DOMAIN pool' = DOMAIN pool \cup {f}
  BY DEF MakeConnection
<1>3. \A g \in DOMAIN pool' : pool'[g] = IF g = f THEN s ELSE pool[g]
  BY DEF MakeConnection
<1>4. PoolOK'
  BY <1>2, <1>3 DEF PoolOK
<1>5. /\ sent' \in [Streams -> 0 .. MaxSend] /\ sent'[s] = 0
      /\ \A t \in Streams \ {s} : sent'[t] = sent[t]
  BY SendAssumption DEF MakeConnection, HandlesOK
<1>6. /\ DOMAIN buffers' = Streams /\ buffers'[s] = <<>>
      /\ \A t \in Streams \ {s} : buffers'[t] = buffers[t]
      /\ DOMAIN uv' = Streams /\ uv'[s] = <<>>
      /\ \A t \in Streams \ {s} : uv'[t] = uv[t]
  BY DEF MakeConnection, QueuesOK
<1>7. <<>> \in Seq(1 .. 0)
  OBVIOUS
<1>8. QueuesOK'
  BY <1>5, <1>6, <1>7 DEF QueuesOK
<1>9. hz' \subseteq Windows /\ (hz' = {} => hz = {} /\ f \notin DOMAIN pool)
  BY DEF MakeConnection, Windows, ChannelOK
<1>10. /\ told' = [told EXCEPT ![s] = IF @ = "open" THEN "again" ELSE "open"]
       /\ told' \in [Streams -> Told]
  BY DEF Tell, HandlesOK, Told
<1>11. HandlesOK'
  BY <1>1, <1>5, <1>10 DEF HandlesOK
<1> QED BY <1>1, <1>4, <1>6, <1>8, <1>9, <1>10, <1>11

\* A handle that is given up, with or without another step.
LEMMA GivesUp ==
  ASSUME Types, NEW s \in Streams, NEW x \in Stages, NEW what \in {"no", "failed"},
         stage' = [stage EXCEPT ![s] = x], Tell(s, what), UNCHANGED <<kind, fd, pool, write, hz>>
  PROVE  /\ HandlesOK' /\ PoolOK' /\ QueuesOK' /\ hz' \subseteq Windows
         /\ told' = [told EXCEPT ![s] = what]
<1>1. told' = [told EXCEPT ![s] = what] /\ told' \in [Streams -> Told]
  BY DEF Tell, Types, HandlesOK, Told
<1>2. HandlesOK'
  BY <1>1 DEF Types, HandlesOK, write
<1>3. PoolOK' /\ QueuesOK' /\ hz' \subseteq Windows
  BY DEF Types, PoolOK, QueuesOK, ChannelOK, write
<1> QED BY <1>1, <1>2, <1>3

\* What closing some streams does.
LEMMA ClosesSome ==
  ASSUME HandlesOK, NEW S
  PROVE  /\ Closing(S) \in [Streams -> Stages]
         /\ \A s \in Streams : Closing(S)[s] = IF s \in S /\ stage[s] = "live" THEN "closing" ELSE stage[s]
BY DEF HandlesOK, Closing, Stages

\* No callback is running.
LEMMA IdleOK == Idle \in Runs
  BY SendAssumption DEF Idle, Runs


\* A queue of numbered blocks: taking the first, putting one behind and taking
\* it back.
LEMMA QueueFirst ==
  ASSUME NEW n \in Nat, NEW q \in Seq(1 .. n), q # <<>>
  PROVE  Head(q) \in 1 .. n /\ Tail(q) \in Seq(1 .. n)
OBVIOUS

\* A write that libuv refuses is taken back from where it was put.
LEMMA QueueLast ==
  ASSUME NEW n \in Nat, NEW q \in Seq(1 .. n)
  PROVE  /\ q \in Seq(1 .. (n + 1)) /\ Append(q, n + 1) \in Seq(1 .. (n + 1))
         /\ TakeBack(Append(q, n + 1)) = q
<1>1. q \in Seq(1 .. (n + 1))
  OBVIOUS
<1>2. Append(q, n + 1) \in Seq(1 .. (n + 1)) /\ Len(Append(q, n + 1)) = Len(q) + 1
  BY <1>1
<1>3. SubSeq(Append(q, n + 1), 1, Len(q)) = q
  BY <1>1, <1>2
<1> QED BY <1>1, <1>2, <1>3 DEF TakeBack


\* Write numbers are numbers.
LEMMA NatSeq == ASSUME NEW n \in Nat, NEW q \in Seq(1 .. n) PROVE q \in Seq(Nat)
OBVIOUS

\* A queue with more than one write keeps one.
LEMMA QueueRest ==
  ASSUME NEW n \in Nat, NEW q \in Seq(1 .. n), q # <<>>, Len(q) # 1
  PROVE  Tail(q) # <<>>
<1>1. Len(q) \in Nat \ {0} /\ Len(Tail(q)) = Len(q) - 1
  BY HeadTailProperties, EmptySeq
<1>2. Len(Tail(q)) # 0
  BY <1>1
<1> QED BY <1>2, EmptySeq

\* What is put behind a queue is behind what is before it.
LEMMA QueueBehind ==
  ASSUME NEW p \in Seq(Nat), NEW q \in Seq(Nat), NEW x \in Nat
  PROVE  Append(p \o q, x) = p \o Append(q, x)
<1>1. /\ Append(p \o q, x) = (p \o q) \o <<x>> /\ Append(q, x) = q \o <<x>>
      /\ <<x>> \in Seq(Nat)
  OBVIOUS
<1> QED BY <1>1, ConcatAssociative

\* What is in front of a queue is its head.
LEMMA QueueFront ==
  ASSUME NEW x \in Nat, NEW q \in Seq(Nat)
  PROVE  Head(<<x>> \o q) = x /\ Tail(<<x>> \o q) = q
<1>1. Len(<<x>> \o q) = Len(q) + 1
  OBVIOUS
<1>2. Tail(<<x>> \o q) = q
  BY <1>1
<1> QED BY <1>2

\* What holds in every behaviour survives it when a connection is filed.
LEMMA OpensKeeps ==
  ASSUME Types, FiledRight, RunningRight, WriteQueuesAgree, UNCHANGED running,
         NEW s \in Streams, NEW f \in Fds, NEW k \in {"listen", "connect", "accept"},
         stage[s] \notin Connections, MakeConnection(s, f, k), Tell(s, "open")
  PROVE  FiledRight' /\ RunningRight' /\ WriteQueuesAgree'
<1>0. /\ stage \in [Streams -> Stages] /\ fd \in [Streams -> Fds]
      /\ \A g \in DOMAIN pool : pool[g] \in Streams
  BY DEF Types, HandlesOK, PoolOK
<1>1. /\ stage' = [stage EXCEPT ![s] = "live"] /\ fd' = [fd EXCEPT ![s] = f]
      /\ buffers'[s] = <<>> /\ uv'[s] = <<>>
  BY Opens
<1>6. pool' = [g \in DOMAIN pool \cup {f} |-> IF g = f THEN s ELSE pool[g]]
  BY DEF MakeConnection
<1>5. \A t \in Streams \ {s} : buffers'[t] = buffers[t] /\ uv'[t] = uv[t]
  BY Opens
<1>2. ASSUME NEW g \in DOMAIN pool'
      PROVE  fd'[pool'[g]] = g /\ stage'[pool'[g]] \in Connections
  <2>1. CASE g = f
    BY <1>0, <1>1, <1>5, <1>6, <2>1 DEF Connections
  <2>2. CASE g # f
    <3>1. g \in DOMAIN pool /\ pool'[g] = pool[g] /\ pool[g] \in Streams
      BY <1>0, <1>1, <1>5, <1>6, <2>2
    <3>2. fd[pool[g]] = g /\ stage[pool[g]] \in Connections
      BY <3>1 DEF FiledRight
    <3> QED BY <1>0, <1>1, <1>5, <1>6, <3>1, <3>2
  <2> QED BY <2>1, <2>2
<1>3. RunningRight'
  BY <1>0, <1>1, <1>5, <1>6 DEF RunningRight, Connections
<1>4. ASSUME NEW t \in Streams, stage'[t] \in {"live", "closing"}
      PROVE  buffers'[t] = Reported(t)' \o uv'[t]
  <2>1. CASE t = s
    <3>1. Reported(s)' = <<>>
      BY DEF Reported, RunningRight, Connections
    <3> QED BY <1>0, <1>1, <1>5, <1>6, <2>1, <3>1
  <2>2. CASE t # s
    <3>1. stage[t] \in {"live", "closing"} /\ buffers'[t] = buffers[t] /\ uv'[t] = uv[t]
      BY <1>0, <1>1, <1>5, <1>6, <1>4, <2>2
    <3>2. Reported(t)' = Reported(t)
      BY DEF Reported
    <3> QED BY <3>1, <3>2 DEF WriteQueuesAgree
  <2> QED BY <2>1, <2>2
<1> QED BY <1>2, <1>3, <1>4 DEF FiledRight, WriteQueuesAgree

\* Writes that are not touched go on to agree.
LEMMA AgreeSame ==
  ASSUME WriteQueuesAgree, UNCHANGED <<buffers, uv>>,
         \A t \in Streams : stage'[t] \in {"live", "closing"} => stage[t] \in {"live", "closing"},
         running' = running \/ (running.fn # "written" /\ running'.fn # "written")
  PROVE  WriteQueuesAgree'
<1>1. \A t \in Streams : Reported(t)' = Reported(t)
  BY DEF Reported
<1> QED BY <1>1 DEF WriteQueuesAgree


-----------------------------------------------------------------------------
\* The requests, one more and one less.
LEMMA InPairs ==
  ASSUME NEW P, NEW x
  PROVE  x \in Pairs(P) <=> \E t \in Streams : \E j \in P[t] : x = <<t, j>>
<1>1. x \in Pairs(P) <=> \E S \in {{<<s, i>> : i \in P[s]} : s \in Streams} : x \in S
  BY DEF Pairs
<1>2. ASSUME x \in Pairs(P)
      PROVE  \E t \in Streams : \E j \in P[t] : x = <<t, j>>
  <2>1. PICK s \in Streams : x \in {<<s, i>> : i \in P[s]}
    BY <1>1, <1>2
  <2> QED BY <2>1
<1>3. ASSUME NEW t \in Streams, NEW j \in P[t], x = <<t, j>>
      PROVE  x \in Pairs(P)
  <2>1. x \in {<<t, i>> : i \in P[t]}
    BY <1>3
  <2> QED BY <1>1, <2>1
<1> QED BY <1>2, <1>3

\* The same numbers on every handle: the same requests.
LEMMA PairsSame ==
  ASSUME NEW P, NEW Q, \A t \in Streams : Q[t] = P[t]
  PROVE  Pairs(Q) = Pairs(P)
BY Zenon DEF Pairs

\* One number more on one handle: one request more.
LEMMA PairsMore ==
  ASSUME NEW P, NEW Q, NEW s \in Streams, NEW i, i \notin P[s], Q[s] = P[s] \cup {i},
         \A t \in Streams \ {s} : Q[t] = P[t]
  PROVE  Pairs(Q) = Pairs(P) \cup {<<s, i>>} /\ <<s, i>> \notin Pairs(P)
<1>1. \A x : x \in Pairs(P) <=> \E t \in Streams : \E j \in P[t] : x = <<t, j>>
  BY InPairs
<1>2. \A x : x \in Pairs(Q) <=> \E t \in Streams : \E j \in Q[t] : x = <<t, j>>
  BY InPairs
<1>3. <<s, i>> \notin Pairs(P)
  BY <1>1
<1>4. ASSUME NEW x \in Pairs(Q) PROVE x \in Pairs(P) \cup {<<s, i>>}
  <2>0. PICK t \in Streams : \E j \in Q[t] : x = <<t, j>>
    BY <1>2
  <2>1. PICK j \in Q[t] : x = <<t, j>>
    BY <2>0
  <2> QED BY <1>1, <2>1
<1>5. ASSUME NEW x \in Pairs(P) \cup {<<s, i>>} PROVE x \in Pairs(Q)
  <2>1. CASE x = <<s, i>>
    <3>1. i \in Q[s]
      OBVIOUS
    <3> QED BY <1>2, <2>1, <3>1
  <2>2. CASE x \in Pairs(P)
    <3>0. PICK t \in Streams : \E j \in P[t] : x = <<t, j>>
      BY <1>1, <2>2
    <3>1. PICK j \in P[t] : x = <<t, j>>
      BY <3>0
    <3>2. j \in Q[t]
      BY <3>1
    <3> QED BY <1>2, <3>1, <3>2
  <2> QED BY <2>1, <2>2
<1> QED BY <1>3, <1>4, <1>5

\* One number less on one handle: one request less.
LEMMA PairsLess ==
  ASSUME NEW P, NEW Q, NEW s \in Streams, NEW i \in P[s], Q[s] \subseteq P[s] \ {i},
         \A t \in Streams \ {s} : Q[t] = P[t]
  PROVE  /\ Pairs(Q) \subseteq Pairs(P) \ {<<s, i>>} /\ <<s, i>> \in Pairs(P)
         /\ Q[s] = P[s] \ {i} => Pairs(Q) = Pairs(P) \ {<<s, i>>}
<1>1. \A x : x \in Pairs(P) <=> \E t \in Streams : \E j \in P[t] : x = <<t, j>>
  BY InPairs
<1>2. \A x : x \in Pairs(Q) <=> \E t \in Streams : \E j \in Q[t] : x = <<t, j>>
  BY InPairs
<1>3. <<s, i>> \in Pairs(P)
  BY <1>1
<1>4. ASSUME NEW x \in Pairs(Q) PROVE x \in Pairs(P) \ {<<s, i>>}
  <2>0. PICK t \in Streams : \E j \in Q[t] : x = <<t, j>>
    BY <1>2
  <2>1. PICK j \in Q[t] : x = <<t, j>>
    BY <2>0
  <2>2. j \in P[t] /\ x # <<s, i>>
    BY <2>1
  <2> QED BY <1>1, <2>1, <2>2
<1>5. ASSUME Q[s] = P[s] \ {i}, NEW x \in Pairs(P) \ {<<s, i>>} PROVE x \in Pairs(Q)
  <2>0. PICK t \in Streams : \E j \in P[t] : x = <<t, j>>
    BY <1>1
  <2>1. PICK j \in P[t] : x = <<t, j>>
    BY <2>0
  <2>2. j \in Q[t]
    BY <1>5, <2>1
  <2> QED BY <1>2, <2>1, <2>2
<1> QED BY <1>3, <1>4, <1>5

\* Fewer numbers: fewer requests.
LEMMA PairsDropped ==
  ASSUME NEW P, NEW Q, \A t \in Streams : Q[t] \subseteq P[t]
  PROVE  Pairs(Q) \subseteq Pairs(P)
<1>1. \A x : x \in Pairs(P) <=> \E t \in Streams : \E j \in P[t] : x = <<t, j>>
  BY InPairs
<1>2. \A x : x \in Pairs(Q) <=> \E t \in Streams : \E j \in Q[t] : x = <<t, j>>
  BY InPairs
<1>3. ASSUME NEW x \in Pairs(Q) PROVE x \in Pairs(P)
  <2>0. PICK t \in Streams : \E j \in Q[t] : x = <<t, j>>
    BY <1>2
  <2>1. PICK j \in Q[t] : x = <<t, j>>
    BY <2>0
  <2> QED BY <1>1, <2>1
<1> QED BY <1>3

\* The counter follows them.
LEMMA CountSame ==
  ASSUME Counted, active \in Nat, active' = active, Requests' \subseteq Requests
  PROVE  Counted' /\ active' \in Nat /\ (Exact /\ Requests' = Requests => Exact')
<1>1. IsFiniteSet(Requests') /\ Cardinality(Requests') <= Cardinality(Requests)
      /\ Cardinality(Requests) \in Nat /\ Cardinality(Requests') \in Nat
  BY FS_Subset, FS_CardinalityType DEF Counted
<1> QED BY <1>1 DEF Counted, Exact

\* One request more, and the counter goes up.
LEMMA CountUp ==
  ASSUME Counted, active \in Nat, active' = active + 1,
         NEW x, x \notin Requests, Requests' = Requests \cup {x}
  PROVE  Counted' /\ active' \in Nat /\ (Exact => Exact')
<1>1. IsFiniteSet(Requests') /\ Cardinality(Requests') = Cardinality(Requests) + 1
      /\ Cardinality(Requests) \in Nat
  BY FS_AddElement, FS_CardinalityType DEF Counted
<1> QED BY <1>1 DEF Counted, Exact

\* One request less, and the counter goes down.
LEMMA CountDown ==
  ASSUME Counted, active \in Nat, active' = active - 1,
         NEW x \in Requests, Requests' \subseteq Requests \ {x}
  PROVE  Counted' /\ active' \in Nat /\ (Exact /\ Requests' = Requests \ {x} => Exact')
<1>1. /\ IsFiniteSet(Requests \ {x}) /\ Cardinality(Requests \ {x}) = Cardinality(Requests) - 1
      /\ Cardinality(Requests) \in Nat /\ Cardinality(Requests \ {x}) \in Nat
  BY FS_RemoveElement, FS_CardinalityType DEF Counted
<1>2. /\ IsFiniteSet(Requests') /\ Cardinality(Requests') <= Cardinality(Requests \ {x})
      /\ Cardinality(Requests') \in Nat
  BY <1>1, FS_Subset, FS_CardinalityType
<1> QED BY <1>1, <1>2 DEF Counted, Exact

\* What is pending on one handle.
LEMMA PendingOf ==
  ASSUME NEW s \in Streams
  PROVE  /\ Pending[s] = (IF stage[s] \in Asking THEN {0} ELSE {}) \cup 1 .. Len(uv[s])
         /\ Pending'[s] = (IF stage'[s] \in Asking THEN {0} ELSE {}) \cup 1 .. Len(uv'[s])
BY DEF Pending

\* A step that starts no request and ends none.
LEMMA CountKept ==
  ASSUME CountRight, UNCHANGED <<uv, active>>, hz' = {} => hz = {},
         \A t \in Streams : stage'[t] \in Asking <=> stage[t] \in Asking
  PROVE  CountRight'
<1>1. \A t \in Streams : Pending'[t] = Pending[t]
  BY PendingOf
<1>2. Requests' = Requests
  BY <1>1, PairsSame DEF Requests
<1> QED BY <1>2, CountSame DEF CountRight

\* A lookup or a connect is started, or answered.
LEMMA CountAsked ==
  ASSUME CountRight, UNCHANGED uv, active' = active + 1, hz' = {} => hz = {},
         NEW s \in Streams, stage[s] \notin Asking, stage'[s] \in Asking,
         \A t \in Streams \ {s} : stage'[t] = stage[t]
  PROVE  CountRight'
<1>1. Pending'[s] = Pending[s] \cup {0} /\ 0 \notin Pending[s]
  BY PendingOf
<1>2. \A t \in Streams \ {s} : Pending'[t] = Pending[t]
  BY PendingOf
<1>3. Requests' = Requests \cup {<<s, 0>>} /\ <<s, 0>> \notin Requests
  BY <1>1, <1>2, PairsMore DEF Requests
<1> QED BY <1>3, CountUp DEF CountRight

\* A lookup or a connect is answered.
LEMMA CountAnswered ==
  ASSUME CountRight, UNCHANGED uv, active' = active - 1, hz' = {} => hz = {},
         NEW s \in Streams, stage[s] \in Asking, stage'[s] \notin Asking,
         \A t \in Streams \ {s} : stage'[t] = stage[t]
  PROVE  CountRight'
<1>1. Pending'[s] = Pending[s] \ {0} /\ 0 \in Pending[s]
  BY PendingOf
<1>2. \A t \in Streams \ {s} : Pending'[t] = Pending[t]
  BY PendingOf
<1>3. /\ Requests' \subseteq Requests \ {<<s, 0>>} /\ <<s, 0>> \in Requests
      /\ Requests' = Requests \ {<<s, 0>>}
  BY <1>1, <1>2, PairsLess DEF Requests
<1> QED BY <1>3, CountDown DEF CountRight

\* A connection is made, in answer to a request or not.
LEMMA CountMade ==
  ASSUME CountRight, NEW s \in Streams, hz' = {} => hz = {} /\ uv[s] = <<>>,
         stage'[s] \notin Asking, uv'[s] = <<>>,
         active' = IF stage[s] \in Asking THEN active - 1 ELSE active,
         \A t \in Streams \ {s} : stage'[t] = stage[t] /\ uv'[t] = uv[t]
  PROVE  CountRight'
<1>1. Pending'[s] = {}
  BY PendingOf
<1>2. \A t \in Streams \ {s} : Pending'[t] = Pending[t]
  BY PendingOf
<1>3. CASE stage[s] \in Asking
  <2>1. 0 \in Pending[s] /\ (uv[s] = <<>> => Pending[s] = {0})
    BY <1>3, PendingOf
  <2>2. Pending'[s] \subseteq Pending[s] \ {0} /\ (uv[s] = <<>> => Pending'[s] = Pending[s] \ {0})
    BY <1>1, <2>1
  <2>3. /\ Requests' \subseteq Requests \ {<<s, 0>>} /\ <<s, 0>> \in Requests
    BY <1>2, <2>1, <2>2, PairsLess DEF Requests
  <2>4. ASSUME uv[s] = <<>>
        PROVE  Requests' = Requests \ {<<s, 0>>}
    BY <1>2, <2>1, <2>2, <2>4, PairsLess DEF Requests
  <2> QED BY <1>3, <2>3, <2>4, CountDown DEF CountRight
<1>4. CASE stage[s] \notin Asking
  <2>1. uv[s] = <<>> => Pending[s] = {}
    BY <1>4, PendingOf
  <2>2. Requests' \subseteq Requests
    BY <1>1, <1>2, PairsDropped DEF Requests
  <2>3. uv[s] = <<>> => Requests' = Requests
    BY <1>1, <1>2, <2>1, PairsSame DEF Requests
  <2> QED BY <1>4, <2>2, <2>3, CountSame DEF CountRight
<1> QED BY <1>3, <1>4

\* Types of what is kept for a handle.
LEMMA HandlesStep ==
  ASSUME Types, Next
  PROVE  HandlesOK'
<1>1. ASSUME NEW s \in Unused, NEW f \in FreeFds, Listen(s, f)
      PROVE  HandlesOK'
  BY <1>1, Opens DEF Listen, FreeFds, Unused
<1>2. ASSUME NEW s \in Unused, ListenFails(s)
      PROVE  HandlesOK'
  BY <1>2, GivesUp DEF ListenFails, Discard, Unused, Stages
<1>3. ASSUME NEW s \in Unused, NEW f \in FreeFds, Connect(s, f)
      PROVE  HandlesOK'
  BY <1>3 DEF Types, HandlesOK, Stages, Told, Connect, Tell, Unused, FreeFds, Calling, write
<1>4. ASSUME NEW s \in Unused, ConnectFails(s)
      PROVE  HandlesOK'
  BY <1>4, GivesUp DEF ConnectFails, Discard, Unused, Stages
<1>5. ASSUME NEW s \in Unused, NEW k \in {"listen", "connect"}, Lookup(s, k)
      PROVE  HandlesOK'
  BY <1>5 DEF Types, HandlesOK, Stages, Told, Lookup, Tell, write
<1>6. ASSUME NEW s \in Streams, Disconnect(s)
      PROVE  HandlesOK'
  BY <1>6 DEF Types, HandlesOK, Stages, Disconnect, Closing, write
<1>7. ASSUME NEW s \in Streams, Send(s)
      PROVE  HandlesOK'
  <2>1. sent' \in [Streams -> 0 .. MaxSend]
    BY <1>7, SendAssumption DEF Types, HandlesOK, Send
  <2> QED BY <1>7, <2>1 DEF Types, HandlesOK, Send, conns
<1>8. CASE CloseBegin
  BY <1>8 DEF Types, HandlesOK, Stages, CloseBegin, Closing, write
<1>9. CASE Reopen
  BY <1>9 DEF Types, HandlesOK, Reopen, conns, write
<1>10. ASSUME NEW s \in Streams, LookedUpListen(s)
      PROVE  HandlesOK'
  <2>1. CASE LookupFails(s)
    BY <2>1, GivesUp DEF LookupFails, Discard, Stages
  <2>2. ASSUME NEW f \in FreeFds, MakeConnection(s, f, "listen"), Tell(s, "open")
        PROVE  HandlesOK'
    BY <2>2, Opens DEF FreeFds
  <2> QED BY <1>10, <2>1, <2>2 DEF LookedUpListen
<1>11. ASSUME NEW s \in Streams, LookedUpConnect(s)
      PROVE  HandlesOK'
  BY <1>11 DEF Types, HandlesOK, Stages, Told, LookedUpConnect, LookupFails, Discard, Tell,
     FreeFds, Looping, write
<1>12. ASSUME NEW s \in Streams, Connected(s)
      PROVE  HandlesOK'
  <2>1. CASE MakeConnection(s, fd[s], "connect") /\ Tell(s, "open")
    <3>1. fd[s] \in Fds
      BY DEF Types, HandlesOK
    <3> QED BY <2>1, <3>1, Opens
  <2>2. CASE Discard(s) /\ Tell(s, "failed")
    BY <2>2, GivesUp DEF Discard, Stages
  <2> QED BY <1>12, <2>1, <2>2 DEF Connected
<1>13. ASSUME NEW s \in Streams, Written(s)
      PROVE  HandlesOK'
  BY <1>13 DEF Types, HandlesOK, Written, conns
<1>14. ASSUME NEW s \in Streams, Closed(s)
      PROVE  HandlesOK'
  BY <1>14 DEF Types, HandlesOK, Stages, Told, Closed, Tell, write
<1>15. ASSUME NEW s \in Streams, Discarded(s)
      PROVE  HandlesOK'
  BY <1>15 DEF Types, HandlesOK, Stages, Discarded, write
<1>16. CASE WrittenPop
  BY <1>16 DEF Types, HandlesOK, WrittenPop, conns
<1>17. CASE ClosedErase
  BY <1>17 DEF Types, HandlesOK, Stages, ClosedErase, write
<1>18. CASE Received
  BY <1>18 DEF Types, HandlesOK, Stages, Received, Closing, write
<1>19. CASE PoolEmpty
  BY <1>19 DEF Types, HandlesOK, PoolEmpty, conns, write
<1>20. CASE CloseEnd
  BY <1>20 DEF Types, HandlesOK, CloseEnd, conns, write
<1>21. ASSUME NEW l \in Streams, NEW s \in Unused, NEW f \in FreeFds, Accept(l, s, f)
      PROVE  HandlesOK'
  <2>1. f \in Fds /\ s \in Streams
    BY DEF FreeFds, Unused
  <2>2. CASE MakeConnection(s, f, "accept") /\ Tell(s, "open")
    BY <2>1, <2>2, Opens
  <2>3. CASE Discard(s) /\ Tell(s, "no")
    BY <2>1, <2>3, GivesUp DEF Discard, Stages
  <2> QED BY <1>21, <2>2, <2>3 DEF Accept
<1>22. ASSUME NEW s \in Streams, Receive(s)
      PROVE  HandlesOK'
  BY <1>22 DEF Types, HandlesOK, Receive, conns, write
<1> QED
  BY <1>1, <1>2, <1>3, <1>4, <1>5, <1>6, <1>7, <1>8, <1>9, <1>10, <1>11, <1>12, <1>13, <1>14,
     <1>15, <1>16, <1>17, <1>18, <1>19, <1>20, <1>21, <1>22
     DEF Next, User, Loop, Report, Return, Network

\* Types of the pool.
LEMMA PoolStep ==
  ASSUME Types, Next
  PROVE  PoolOK'
<1>1. ASSUME NEW s \in Unused, NEW f \in FreeFds, Listen(s, f)
      PROVE  PoolOK'
  BY <1>1, Opens DEF Listen, FreeFds, Unused
<1>2. ASSUME NEW s \in Unused, ListenFails(s)
      PROVE  PoolOK'
  BY <1>2, GivesUp DEF ListenFails, Discard, Unused, Stages
<1>3. ASSUME NEW s \in Unused, NEW f \in FreeFds, Connect(s, f)
      PROVE  PoolOK'
  BY <1>3 DEF Types, PoolOK, Connect
<1>4. ASSUME NEW s \in Unused, ConnectFails(s)
      PROVE  PoolOK'
  BY <1>4, GivesUp DEF ConnectFails, Discard, Unused, Stages
<1>5. ASSUME NEW s \in Unused, NEW k \in {"listen", "connect"}, Lookup(s, k)
      PROVE  PoolOK'
  BY <1>5 DEF Types, PoolOK, Lookup
<1>6. ASSUME NEW s \in Streams, Disconnect(s)
      PROVE  PoolOK'
  BY <1>6 DEF Types, PoolOK, Disconnect, Closing, conns, write
<1>7. ASSUME NEW s \in Streams, Send(s)
      PROVE  PoolOK'
  BY <1>7 DEF Types, PoolOK, Send, conns
<1>8. CASE CloseBegin
  BY <1>8 DEF Types, PoolOK, CloseBegin, Closing, conns, write
<1>9. CASE Reopen
  BY <1>9 DEF Types, PoolOK, Reopen, conns, write
<1>10. ASSUME NEW s \in Streams, LookedUpListen(s)
      PROVE  PoolOK'
  <2>1. CASE LookupFails(s)
    BY <2>1, GivesUp DEF LookupFails, Discard, Stages
  <2>2. ASSUME NEW f \in FreeFds, MakeConnection(s, f, "listen"), Tell(s, "open")
        PROVE  PoolOK'
    BY <2>2, Opens DEF FreeFds
  <2> QED BY <1>10, <2>1, <2>2 DEF LookedUpListen
<1>11. ASSUME NEW s \in Streams, LookedUpConnect(s)
      PROVE  PoolOK'
  BY <1>11 DEF Types, PoolOK, LookedUpConnect, LookupFails, Discard
<1>12. ASSUME NEW s \in Streams, Connected(s)
      PROVE  PoolOK'
  <2>1. CASE MakeConnection(s, fd[s], "connect") /\ Tell(s, "open")
    <3>1. fd[s] \in Fds
      BY DEF Types, HandlesOK
    <3> QED BY <2>1, <3>1, Opens
  <2>2. CASE Discard(s) /\ Tell(s, "failed")
    BY <2>2, GivesUp DEF Discard, Stages
  <2> QED BY <1>12, <2>1, <2>2 DEF Connected
<1>13. ASSUME NEW s \in Streams, Written(s)
      PROVE  PoolOK'
  BY <1>13 DEF Types, PoolOK, Written, Looping, conns, write
<1>14. ASSUME NEW s \in Streams, Closed(s)
      PROVE  PoolOK'
  BY <1>14 DEF Types, PoolOK, Closed
<1>15. ASSUME NEW s \in Streams, Discarded(s)
      PROVE  PoolOK'
  BY <1>15 DEF Types, PoolOK, Discarded, conns, write
<1>16. CASE WrittenPop
  BY <1>16 DEF Types, PoolOK, WrittenPop, conns, write
<1>17. CASE ClosedErase
  BY <1>17 DEF Types, PoolOK, ClosedErase, conns, write
<1>18. CASE Received
  BY <1>18 DEF Types, PoolOK, Received, Closing, conns, write
<1>19. CASE PoolEmpty
  BY <1>19 DEF PoolOK, PoolEmpty, conns, write
<1>20. CASE CloseEnd
  BY <1>20 DEF Types, PoolOK, CloseEnd, conns, write
<1>21. ASSUME NEW l \in Streams, NEW s \in Unused, NEW f \in FreeFds, Accept(l, s, f)
      PROVE  PoolOK'
  <2>1. f \in Fds /\ s \in Streams
    BY DEF FreeFds, Unused
  <2>2. CASE MakeConnection(s, f, "accept") /\ Tell(s, "open")
    BY <2>1, <2>2, Opens
  <2>3. CASE Discard(s) /\ Tell(s, "no")
    BY <2>1, <2>3, GivesUp DEF Discard, Stages
  <2> QED BY <1>21, <2>2, <2>3 DEF Accept
<1>22. ASSUME NEW s \in Streams, Receive(s)
      PROVE  PoolOK'
  BY <1>22 DEF Types, PoolOK, Receive, Looping, conns, write
<1> QED
  BY <1>1, <1>2, <1>3, <1>4, <1>5, <1>6, <1>7, <1>8, <1>9, <1>10, <1>11, <1>12, <1>13, <1>14,
     <1>15, <1>16, <1>17, <1>18, <1>19, <1>20, <1>21, <1>22
     DEF Next, User, Loop, Report, Return, Network

\* Types of the channel.
LEMMA ChannelStep ==
  ASSUME Types, Next
  PROVE  ChannelOK'
<1>1. ASSUME NEW s \in Unused, NEW f \in FreeFds, Listen(s, f)
      PROVE  ChannelOK'
  BY <1>1 DEF Types, ChannelOK, Windows, Listen, MakeConnection
<1>2. ASSUME NEW s \in Unused, ListenFails(s)
      PROVE  ChannelOK'
  BY <1>2 DEF Types, ChannelOK, ListenFails, Discard
<1>3. ASSUME NEW s \in Unused, NEW f \in FreeFds, Connect(s, f)
      PROVE  ChannelOK'
  BY <1>3 DEF Types, ChannelOK, Connect
<1>4. ASSUME NEW s \in Unused, ConnectFails(s)
      PROVE  ChannelOK'
  BY <1>4 DEF Types, ChannelOK, ConnectFails, Discard
<1>5. ASSUME NEW s \in Unused, NEW k \in {"listen", "connect"}, Lookup(s, k)
      PROVE  ChannelOK'
  BY <1>5 DEF Types, ChannelOK, Lookup
<1>6. ASSUME NEW s \in Streams, Disconnect(s)
      PROVE  ChannelOK'
  BY <1>6 DEF Types, ChannelOK, Disconnect
<1>7. ASSUME NEW s \in Streams, Send(s)
      PROVE  ChannelOK'
  BY <1>7 DEF Types, ChannelOK, Send
<1>8. CASE CloseBegin
  BY <1>8 DEF Types, ChannelOK, CloseBegin
<1>9. CASE Reopen
  BY <1>9 DEF Types, ChannelOK, Windows, Reopen, conns, write
<1>10. ASSUME NEW s \in Streams, LookedUpListen(s)
      PROVE  ChannelOK'
  BY <1>10 DEF Types, ChannelOK, Windows, LookedUpListen, LookupFails, Discard, MakeConnection
<1>11. ASSUME NEW s \in Streams, LookedUpConnect(s)
      PROVE  ChannelOK'
  BY <1>11 DEF Types, ChannelOK, Windows, LookedUpConnect, LookupFails, Discard
<1>12. ASSUME NEW s \in Streams, Connected(s)
      PROVE  ChannelOK'
  BY <1>12 DEF Types, ChannelOK, Windows, Connected, Discard, MakeConnection
<1>13. ASSUME NEW s \in Streams, Written(s)
      PROVE  ChannelOK'
  <2>1. CASE running' = Idle
    BY <1>13, <2>1, IdleOK DEF Types, ChannelOK, Written
  <2>2. CASE running' = [fn |-> "written", s |-> s, req |-> Head(uv[s])]
    <3>1. uv[s] \in Seq(1 .. sent[s]) /\ uv[s] # <<>> /\ sent[s] \in Nat /\ sent[s] <= MaxSend /\ MaxSend \in Nat
      BY <1>13, SendAssumption DEF Types, QueuesOK, HandlesOK, Written
    <3>2. Head(uv[s]) \in 0 .. MaxSend
      BY <3>1, QueueFirst
    <3>3. running' \in Runs
      BY <2>2, <3>2 DEF Runs
    <3> QED BY <1>13, <3>3 DEF Types, ChannelOK, Written
  <2> QED BY <1>13, <2>1, <2>2 DEF Written
<1>14. ASSUME NEW s \in Streams, Closed(s)
      PROVE  ChannelOK'
  <2>1. CASE UNCHANGED running
    BY <1>14, <2>1 DEF Types, ChannelOK, Closed
  <2>2. CASE running' = [fn |-> "close", s |-> pool[fd[s]], req |-> 0] /\ fd[s] \in DOMAIN pool
    <3>1. pool[fd[s]] \in Streams /\ 0 \in 0 .. MaxSend
      BY <2>2, SendAssumption DEF Types, PoolOK
    <3>2. running' \in Runs
      BY <2>2, <3>1 DEF Runs
    <3> QED BY <1>14, <3>2 DEF Types, ChannelOK, Closed
  <2> QED BY <1>14, <2>1, <2>2 DEF Closed
<1>15. ASSUME NEW s \in Streams, Discarded(s)
      PROVE  ChannelOK'
  BY <1>15 DEF Types, ChannelOK, Windows, Discarded, conns, write
<1>16. CASE WrittenPop
  BY <1>16, IdleOK DEF Types, ChannelOK, WrittenPop
<1>17. CASE ClosedErase
  BY <1>17, IdleOK DEF Types, ChannelOK, ClosedErase
<1>18. CASE Received
  BY <1>18, IdleOK DEF Types, ChannelOK, Received
<1>19. CASE PoolEmpty
  BY <1>19 DEF Types, ChannelOK, Windows, PoolEmpty, conns, write
<1>20. CASE CloseEnd
  BY <1>20 DEF Types, ChannelOK, Windows, CloseEnd, conns, write
<1>21. ASSUME NEW l \in Streams, NEW s \in Unused, NEW f \in FreeFds, Accept(l, s, f)
      PROVE  ChannelOK'
  BY <1>21 DEF Types, ChannelOK, Windows, Accept, Discard, MakeConnection
<1>22. ASSUME NEW s \in Streams, Receive(s)
      PROVE  ChannelOK'
  <2>1. running' = [fn |-> "recv", s |-> s, req |-> 0]
    BY <1>22 DEF Receive
  <2>2. running' \in Runs
    BY <2>1, SendAssumption DEF Runs
  <2> QED BY <1>22, <2>2 DEF Types, ChannelOK, Receive
<1> QED
  BY <1>1, <1>2, <1>3, <1>4, <1>5, <1>6, <1>7, <1>8, <1>9, <1>10, <1>11, <1>12, <1>13, <1>14,
     <1>15, <1>16, <1>17, <1>18, <1>19, <1>20, <1>21, <1>22
     DEF Next, User, Loop, Report, Return, Network

\* Types of the write queues.
LEMMA QueuesStep ==
  ASSUME Types, RunningRight, Next
  PROVE  QueuesOK'
<1>1. ASSUME NEW s \in Unused, NEW f \in FreeFds, Listen(s, f)
      PROVE  QueuesOK'
  BY <1>1, Opens DEF Listen, FreeFds, Unused
<1>2. ASSUME NEW s \in Unused, ListenFails(s)
      PROVE  QueuesOK'
  BY <1>2, GivesUp DEF ListenFails, Discard, Unused, Stages
<1>3. ASSUME NEW s \in Unused, NEW f \in FreeFds, Connect(s, f)
      PROVE  QueuesOK'
  BY <1>3 DEF Types, QueuesOK, Connect, write
<1>4. ASSUME NEW s \in Unused, ConnectFails(s)
      PROVE  QueuesOK'
  BY <1>4, GivesUp DEF ConnectFails, Discard, Unused, Stages
<1>5. ASSUME NEW s \in Unused, NEW k \in {"listen", "connect"}, Lookup(s, k)
      PROVE  QueuesOK'
  BY <1>5 DEF Types, QueuesOK, Lookup, write
<1>6. ASSUME NEW s \in Streams, Disconnect(s)
      PROVE  QueuesOK'
  BY <1>6 DEF Types, QueuesOK, Disconnect, write
<1>7. ASSUME NEW s \in Streams, Send(s)
      PROVE  QueuesOK'
  <2> DEFINE n == sent[s]
  <2>1. /\ n \in Nat /\ buffers[s] \in Seq(1 .. n) /\ uv[s] \in Seq(1 .. n)
        /\ sent'[s] = n + 1 /\ \A t \in Streams \ {s} : sent'[t] = sent[t]
    BY <1>7, SendAssumption DEF Types, HandlesOK, QueuesOK, Send
  <2>2. /\ buffers'[s] \in {Append(buffers[s], n + 1), TakeBack(Append(buffers[s], n + 1))}
        /\ uv'[s] \in {uv[s], Append(uv[s], n + 1)}
        /\ DOMAIN buffers' = Streams /\ DOMAIN uv' = Streams
        /\ \A t \in Streams \ {s} : buffers'[t] = buffers[t] /\ uv'[t] = uv[t]
    BY <1>7 DEF Types, QueuesOK, Send, Queued
  <2> HIDE DEF n
  <2>3. /\ buffers[s] \in Seq(1 .. (n + 1)) /\ uv[s] \in Seq(1 .. (n + 1))
        /\ Append(buffers[s], n + 1) \in Seq(1 .. (n + 1)) /\ Append(uv[s], n + 1) \in Seq(1 .. (n + 1))
        /\ TakeBack(Append(buffers[s], n + 1)) = buffers[s]
    BY <2>1, QueueLast
  <2>4. buffers'[s] \in Seq(1 .. sent'[s]) /\ uv'[s] \in Seq(1 .. sent'[s])
    BY <2>1, <2>2, <2>3
  <2> QED BY <2>1, <2>2, <2>4 DEF Types, QueuesOK
<1>8. CASE CloseBegin
  BY <1>8 DEF Types, QueuesOK, CloseBegin, write
<1>9. CASE Reopen
  BY <1>9 DEF Types, RunningRight, QueuesOK, Reopen, conns, write
<1>10. ASSUME NEW s \in Streams, LookedUpListen(s)
      PROVE  QueuesOK'
  <2>1. CASE LookupFails(s)
    BY <2>1, GivesUp DEF LookupFails, Discard, Stages
  <2>2. ASSUME NEW f \in FreeFds, MakeConnection(s, f, "listen"), Tell(s, "open")
        PROVE  QueuesOK'
    BY <2>2, Opens DEF FreeFds
  <2> QED BY <1>10, <2>1, <2>2 DEF LookedUpListen
<1>11. ASSUME NEW s \in Streams, LookedUpConnect(s)
      PROVE  QueuesOK'
  BY <1>11 DEF Types, RunningRight, QueuesOK, LookedUpConnect, LookupFails, Discard, Tell, write
<1>12. ASSUME NEW s \in Streams, Connected(s)
      PROVE  QueuesOK'
  <2>1. CASE MakeConnection(s, fd[s], "connect") /\ Tell(s, "open")
    <3>1. fd[s] \in Fds
      BY DEF Types, HandlesOK
    <3> QED BY <2>1, <3>1, Opens
  <2>2. CASE Discard(s) /\ Tell(s, "failed")
    BY <2>2, GivesUp DEF Discard, Stages
  <2> QED BY <1>12, <2>1, <2>2 DEF Connected
<1>13. ASSUME NEW s \in Streams, Written(s)
      PROVE  QueuesOK'
  <2>1. uv[s] \in Seq(1 .. sent[s]) /\ sent[s] \in Nat /\ uv[s] # <<>>
    BY <1>13, SendAssumption DEF Types, QueuesOK, HandlesOK, Written
  <2>2. Tail(uv[s]) \in Seq(1 .. sent[s])
    BY <2>1, QueueFirst
  <2>3. uv' = [uv EXCEPT ![s] = Tail(uv[s])] /\ UNCHANGED <<buffers, sent>>
    BY <1>13 DEF Written
  <2> QED BY <2>2, <2>3 DEF Types, QueuesOK
<1>14. ASSUME NEW s \in Streams, Closed(s)
      PROVE  QueuesOK'
  BY <1>14 DEF Types, QueuesOK, Closed, write
<1>15. ASSUME NEW s \in Streams, Discarded(s)
      PROVE  QueuesOK'
  BY <1>15 DEF Types, RunningRight, QueuesOK, Discarded, conns, write
<1>16. CASE WrittenPop
  <2> DEFINE s == running.s
  <2>1. /\ s \in Streams /\ buffers[s] # <<>>
        /\ buffers[s] \in Seq(1 .. sent[s]) /\ sent[s] \in Nat
    BY <1>16, SendAssumption DEF Types, QueuesOK, HandlesOK, WrittenPop, RunningRight
  <2>2. Tail(buffers[s]) \in Seq(1 .. sent[s])
    BY <2>1, QueueFirst
  <2>3. buffers' = [buffers EXCEPT ![s] = Tail(buffers[s])] /\ UNCHANGED <<uv, sent>>
    BY <1>16 DEF WrittenPop
  <2> QED BY <2>1, <2>2, <2>3 DEF Types, QueuesOK
<1>17. CASE ClosedErase
  BY <1>17 DEF Types, RunningRight, QueuesOK, ClosedErase, conns, write
<1>18. CASE Received
  BY <1>18 DEF Types, QueuesOK, Received, write
<1>19. CASE PoolEmpty
  BY <1>19 DEF Types, RunningRight, QueuesOK, PoolEmpty, conns, write
<1>20. CASE CloseEnd
  BY <1>20 DEF Types, RunningRight, QueuesOK, CloseEnd, conns, write
<1>21. ASSUME NEW l \in Streams, NEW s \in Unused, NEW f \in FreeFds, Accept(l, s, f)
      PROVE  QueuesOK'
  <2>1. f \in Fds /\ s \in Streams
    BY DEF FreeFds, Unused
  <2>2. CASE MakeConnection(s, f, "accept") /\ Tell(s, "open")
    BY <2>1, <2>2, Opens
  <2>3. CASE Discard(s) /\ Tell(s, "no")
    BY <2>1, <2>3, GivesUp DEF Discard, Stages
  <2> QED BY <1>21, <2>2, <2>3 DEF Accept
<1>22. ASSUME NEW s \in Streams, Receive(s)
      PROVE  QueuesOK'
  BY <1>22 DEF Types, QueuesOK, Receive, write
<1> QED
  BY <1>1, <1>2, <1>3, <1>4, <1>5, <1>6, <1>7, <1>8, <1>9, <1>10, <1>11, <1>12, <1>13, <1>14,
     <1>15, <1>16, <1>17, <1>18, <1>19, <1>20, <1>21, <1>22
     DEF Next, User, Loop, Report, Return, Network

\* The pool stays filed by descriptor.
LEMMA FiledStep ==
  ASSUME Types, FiledRight, RunningRight, WriteQueuesAgree, Next
  PROVE  FiledRight'
<1>1. ASSUME NEW s \in Unused, NEW f \in FreeFds, Listen(s, f)
      PROVE  FiledRight'
  BY <1>1, OpensKeeps DEF Listen, FreeFds, Unused, Connections
<1>2. ASSUME NEW s \in Unused, ListenFails(s)
      PROVE  FiledRight'
  BY <1>2 DEF FiledRight, Types, Connections, ListenFails, Discard, Tell, Unused
<1>3. ASSUME NEW s \in Unused, NEW f \in FreeFds, Connect(s, f)
      PROVE  FiledRight'
  BY <1>3 DEF FiledRight, Types, Connections, Connect, Unused
<1>4. ASSUME NEW s \in Unused, ConnectFails(s)
      PROVE  FiledRight'
  BY <1>4 DEF FiledRight, Types, Connections, ConnectFails, Discard, Tell, Unused
<1>5. ASSUME NEW s \in Unused, NEW k \in {"listen", "connect"}, Lookup(s, k)
      PROVE  FiledRight'
  BY <1>5 DEF FiledRight, PoolOK, Connections, Lookup, Tell, Unused
<1>6. ASSUME NEW s \in Streams, Disconnect(s)
      PROVE  FiledRight'
  BY <1>6 DEF FiledRight, Types, PoolOK, Connections, Disconnect, Closing
<1>7. ASSUME NEW s \in Streams, Send(s)
      PROVE  FiledRight'
  BY <1>7 DEF FiledRight, Send, conns
<1>8. CASE CloseBegin
  BY <1>8 DEF FiledRight, Types, PoolOK, Connections, CloseBegin, Closing
<1>9. CASE Reopen
  BY <1>9 DEF FiledRight, Reopen, conns
<1>10. ASSUME NEW s \in Streams, LookedUpListen(s)
      PROVE  FiledRight'
  <2>1. CASE LookupFails(s)
    BY <1>10, <2>1 DEF LookedUpListen, LookupFails, Discard, write, FiledRight, Types, HandlesOK,
       PoolOK, Connections
  <2>2. ASSUME NEW f \in FreeFds, MakeConnection(s, f, "listen"), Tell(s, "open")
        PROVE  FiledRight'
    BY <1>10, <2>2, OpensKeeps DEF FreeFds, LookedUpListen, Connections
  <2> QED BY <1>10, <2>1, <2>2 DEF LookedUpListen
<1>11. ASSUME NEW s \in Streams, LookedUpConnect(s)
      PROVE  FiledRight'
  BY <1>11 DEF FiledRight, Types, HandlesOK, PoolOK, Connections, LookedUpConnect, LookupFails,
     Discard
<1>12. ASSUME NEW s \in Streams, Connected(s)
      PROVE  FiledRight'
  <2>1. CASE MakeConnection(s, fd[s], "connect") /\ Tell(s, "open")
    <3>1. fd[s] \in Fds
      BY DEF Types, HandlesOK
    <3> QED BY <1>12, <2>1, <3>1, OpensKeeps DEF Connected, Connections
  <2>2. CASE Discard(s) /\ Tell(s, "failed")
    BY <1>12, <2>2 DEF Connected, Discard, write, FiledRight, Types, Connections
  <2> QED BY <1>12, <2>1, <2>2 DEF Connected
<1>13. ASSUME NEW s \in Streams, Written(s)
      PROVE  FiledRight'
  BY <1>13 DEF FiledRight, Written, conns
<1>14. ASSUME NEW s \in Streams, Closed(s)
      PROVE  FiledRight'
  <2>1. /\ stage \in [Streams -> Stages] /\ stage[s] = "closing" /\ UNCHANGED <<fd, pool>>
        /\ \A f \in DOMAIN pool : pool[f] \in Streams
    BY <1>14 DEF Closed, Types, HandlesOK, PoolOK
  <2>2. stage' = IF fd[s] \in DOMAIN pool THEN [stage EXCEPT ![s] = "none", ![pool[fd[s]]] = "closed"]
                                           ELSE [stage EXCEPT ![s] = "none"]
    BY <1>14 DEF Closed
  <2>3. ASSUME NEW f \in DOMAIN pool
        PROVE  fd[pool[f]] = f /\ stage'[pool[f]] \in Connections
    <3>1. fd[pool[f]] = f /\ stage[pool[f]] \in Connections /\ pool[f] \in Streams
      BY <2>1 DEF FiledRight
    <3>2. pool[f] = s => fd[s] \in DOMAIN pool /\ pool[fd[s]] = s
      BY <3>1
    <3> QED BY <2>1, <2>2, <3>1, <3>2 DEF Connections
  <2> QED BY <2>1, <2>3 DEF FiledRight
<1>15. ASSUME NEW s \in Streams, Discarded(s)
      PROVE  FiledRight'
  BY <1>15 DEF FiledRight, Connections, Discarded
<1>16. CASE WrittenPop
  BY <1>16 DEF FiledRight, WrittenPop, conns
<1>17. CASE ClosedErase
  <2> DEFINE f == fd[running.s]
  <2>1. /\ stage \in [Streams -> Stages] /\ f \in DOMAIN pool /\ UNCHANGED fd
        /\ \A g \in DOMAIN pool : pool[g] \in Streams
    BY <1>17 DEF ClosedErase, Types, HandlesOK, PoolOK, RunningRight
  <2>2. stage' = [stage EXCEPT ![pool[f]] = "none"] /\ pool' = [g \in DOMAIN pool \ {f} |-> pool[g]]
    BY <1>17 DEF ClosedErase
  <2> HIDE DEF f
  <2>3. ASSUME NEW g \in DOMAIN pool'
        PROVE  fd[pool'[g]] = g /\ stage'[pool'[g]] \in Connections
    <3>1. g \in DOMAIN pool /\ g # f /\ pool'[g] = pool[g]
      BY <2>2
    <3>2. fd[pool[g]] = g /\ fd[pool[f]] = f /\ stage[pool[g]] \in Connections
      BY <2>1, <3>1 DEF FiledRight
    <3> QED BY <2>1, <2>2, <3>1, <3>2
  <2> QED BY <2>1, <2>3 DEF FiledRight
<1>18. CASE Received
  BY <1>18 DEF FiledRight, Types, PoolOK, Connections, Received, Closing
<1>19. CASE PoolEmpty
  BY <1>19 DEF FiledRight, PoolEmpty, conns
<1>20. CASE CloseEnd
  BY <1>20 DEF FiledRight, CloseEnd, conns
<1>21. ASSUME NEW l \in Streams, NEW s \in Unused, NEW f \in FreeFds, Accept(l, s, f)
      PROVE  FiledRight'
  <2>1. f \in Fds /\ s \in Streams /\ stage[s] = "none"
    BY DEF FreeFds, Unused
  <2>2. CASE MakeConnection(s, f, "accept") /\ Tell(s, "open")
    BY <1>21, <2>1, <2>2, OpensKeeps DEF Accept, Connections
  <2>3. CASE Discard(s) /\ Tell(s, "no")
    BY <1>21, <2>1, <2>3 DEF Discard, FiledRight, Connections
  <2> QED BY <1>21, <2>2, <2>3 DEF Accept
<1>22. ASSUME NEW s \in Streams, Receive(s)
      PROVE  FiledRight'
  BY <1>22 DEF FiledRight, Receive, conns
<1> QED
  BY <1>1, <1>2, <1>3, <1>4, <1>5, <1>6, <1>7, <1>8, <1>9, <1>10, <1>11, <1>12, <1>13, <1>14,
     <1>15, <1>16, <1>17, <1>18, <1>19, <1>20, <1>21, <1>22
     DEF Next, User, Loop, Report, Return, Network

\* The callback that is running keeps its connection.
LEMMA RunningStep ==
  ASSUME Types, FiledRight, RunningRight, WriteQueuesAgree, Next
  PROVE  RunningRight'
<1>1. ASSUME NEW s \in Unused, NEW f \in FreeFds, Listen(s, f)
      PROVE  RunningRight'
  BY <1>1, OpensKeeps DEF Listen, FreeFds, Unused, Connections
<1>2. ASSUME NEW s \in Unused, ListenFails(s)
      PROVE  RunningRight'
  BY <1>2 DEF RunningRight, Runs, ListenFails, Discard, Tell, Unused, Calling, conns, write
<1>3. ASSUME NEW s \in Unused, NEW f \in FreeFds, Connect(s, f)
      PROVE  RunningRight'
  BY <1>3 DEF RunningRight, Runs, Connect, Tell, Unused, conns, write
<1>4. ASSUME NEW s \in Unused, ConnectFails(s)
      PROVE  RunningRight'
  BY <1>4 DEF RunningRight, Runs, ConnectFails, Discard, Tell, Unused, Calling, conns, write
<1>5. ASSUME NEW s \in Unused, NEW k \in {"listen", "connect"}, Lookup(s, k)
      PROVE  RunningRight'
  BY <1>5 DEF RunningRight, Lookup, Tell, Unused, Calling, conns, write
<1>6. ASSUME NEW s \in Streams, Disconnect(s)
      PROVE  RunningRight'
  BY <1>6 DEF RunningRight, Disconnect, Closing, write
<1>7. ASSUME NEW s \in Streams, Send(s)
      PROVE  RunningRight'
  BY <1>7 DEF RunningRight, FiledRight, Idle, Types, QueuesOK, ChannelOK, Runs, Send, Queued,
     TakeBack, conns
<1>8. CASE CloseBegin
  BY <1>8 DEF RunningRight, CloseBegin, Closing, write
<1>9. CASE Reopen
  BY <1>9 DEF RunningRight, FiledRight, Reopen, conns, write
<1>10. ASSUME NEW s \in Streams, LookedUpListen(s)
      PROVE  RunningRight'
  <2>1. CASE LookupFails(s)
    BY <1>10, <2>1 DEF LookedUpListen, LookupFails, Discard, write, Types, HandlesOK, RunningRight
  <2>2. ASSUME NEW f \in FreeFds, MakeConnection(s, f, "listen"), Tell(s, "open")
        PROVE  RunningRight'
    BY <1>10, <2>2, OpensKeeps DEF FreeFds, LookedUpListen, Connections
  <2> QED BY <1>10, <2>1, <2>2 DEF LookedUpListen
<1>11. ASSUME NEW s \in Streams, LookedUpConnect(s)
      PROVE  RunningRight'
  BY <1>11 DEF RunningRight, FiledRight, Idle, Types, HandlesOK, Runs, LookedUpConnect,
     LookupFails, Looping
<1>12. ASSUME NEW s \in Streams, Connected(s)
      PROVE  RunningRight'
  <2>1. CASE MakeConnection(s, fd[s], "connect") /\ Tell(s, "open")
    <3>1. fd[s] \in Fds
      BY DEF Types, HandlesOK
    <3> QED BY <1>12, <2>1, <3>1, OpensKeeps DEF Connected, Connections
  <2>2. CASE Discard(s) /\ Tell(s, "failed")
    BY <1>12, <2>2 DEF Connected, Discard, write, RunningRight
  <2> QED BY <1>12, <2>1, <2>2 DEF Connected
<1>13. ASSUME NEW s \in Streams, Written(s)
      PROVE  RunningRight'
  BY <1>13 DEF RunningRight, Written, Looping, conns
<1>14. ASSUME NEW s \in Streams, Closed(s)
      PROVE  RunningRight'
  BY <1>14 DEF RunningRight, FiledRight, Idle, Types, HandlesOK, PoolOK, Runs, Closed, Tell, Looping
<1>15. ASSUME NEW s \in Streams, Discarded(s)
      PROVE  RunningRight'
  BY <1>15 DEF RunningRight, FiledRight, Idle, Discarded
<1>16. CASE WrittenPop
  <2>1. \/ running' = Idle
        \/ running' = running /\ Len(buffers[running.s]) # 1 /\ running.fn = "written"
    BY <1>16 DEF WrittenPop
  <2>2. CASE running' = Idle
    BY <2>2 DEF RunningRight, Idle
  <2>3. CASE running' = running /\ Len(buffers[running.s]) # 1 /\ running.fn = "written"
    <3> DEFINE s == running.s
    <3>1. s \in Streams /\ buffers[s] # <<>> /\ buffers[s] \in Seq(1 .. sent[s])
          /\ sent[s] \in Nat /\ DOMAIN buffers = Streams
      BY <2>3, SendAssumption DEF RunningRight, Types, QueuesOK, HandlesOK
    <3>2. Tail(buffers[s]) # <<>>
      BY <2>3, <3>1, QueueRest
    <3>3. buffers'[s] = Tail(buffers[s]) /\ UNCHANGED stage
      BY <1>16, <3>1 DEF WrittenPop, conns
    <3> QED BY <2>3, <3>1, <3>2, <3>3 DEF RunningRight
  <2> QED BY <2>1, <2>2, <2>3
<1>17. CASE ClosedErase
  BY <1>17 DEF RunningRight, FiledRight, Idle, ClosedErase
<1>18. CASE Received
  BY <1>18 DEF RunningRight, FiledRight, Idle, Received
<1>19. CASE PoolEmpty
  BY <1>19 DEF RunningRight, FiledRight, Idle, PoolEmpty
<1>20. CASE CloseEnd
  BY <1>20 DEF RunningRight, FiledRight, Idle, CloseEnd
<1>21. ASSUME NEW l \in Streams, NEW s \in Unused, NEW f \in FreeFds, Accept(l, s, f)
      PROVE  RunningRight'
  <2>1. f \in Fds /\ s \in Streams /\ stage[s] = "none"
    BY DEF FreeFds, Unused
  <2>2. CASE MakeConnection(s, f, "accept") /\ Tell(s, "open")
    BY <1>21, <2>1, <2>2, OpensKeeps DEF Accept, Connections
  <2>3. CASE Discard(s) /\ Tell(s, "no")
    BY <1>21, <2>1, <2>3 DEF Accept, Discard, write, RunningRight
  <2> QED BY <1>21, <2>2, <2>3 DEF Accept
<1>22. ASSUME NEW s \in Streams, Receive(s)
      PROVE  RunningRight'
  BY <1>22 DEF RunningRight, Receive
<1> QED
  BY <1>1, <1>2, <1>3, <1>4, <1>5, <1>6, <1>7, <1>8, <1>9, <1>10, <1>11, <1>12, <1>13, <1>14,
     <1>15, <1>16, <1>17, <1>18, <1>19, <1>20, <1>21, <1>22
     DEF Next, User, Loop, Report, Return, Network

\* The write queues go on to agree.
LEMMA AgreeStep ==
  ASSUME Types, FiledRight, RunningRight, WriteQueuesAgree, Next
  PROVE  WriteQueuesAgree'
<1>1. ASSUME NEW s \in Unused, NEW f \in FreeFds, Listen(s, f)
      PROVE  WriteQueuesAgree'
  BY <1>1, OpensKeeps DEF Listen, FreeFds, Unused, Connections
<1>2. ASSUME NEW s \in Unused, ListenFails(s)
      PROVE  WriteQueuesAgree'
  BY <1>2, AgreeSame DEF ListenFails, Discard, write
<1>3. ASSUME NEW s \in Unused, NEW f \in FreeFds, Connect(s, f)
      PROVE  WriteQueuesAgree'
  BY <1>3, AgreeSame DEF Connect, write
<1>4. ASSUME NEW s \in Unused, ConnectFails(s)
      PROVE  WriteQueuesAgree'
  BY <1>4, AgreeSame DEF ConnectFails, Discard, write
<1>5. ASSUME NEW s \in Unused, NEW k \in {"listen", "connect"}, Lookup(s, k)
      PROVE  WriteQueuesAgree'
  BY <1>5, AgreeSame DEF Lookup, write
<1>6. ASSUME NEW s \in Streams, Disconnect(s)
      PROVE  WriteQueuesAgree'
  BY <1>6, AgreeSame DEF Disconnect, Closing, write
<1>7. ASSUME NEW s \in Streams, Send(s)
      PROVE  WriteQueuesAgree'
  <2> DEFINE n == sent[s]
  <2>1. /\ n \in Nat /\ buffers[s] \in Seq(1 .. n) /\ uv[s] \in Seq(1 .. n)
    BY <1>7, SendAssumption DEF Types, HandlesOK, QueuesOK, Send
  <2>2. /\ \/ buffers'[s] = Append(buffers[s], n + 1) /\ uv'[s] = Append(uv[s], n + 1)
           \/ buffers'[s] = TakeBack(Append(buffers[s], n + 1)) /\ uv'[s] = uv[s]
        /\ \A t \in Streams \ {s} : buffers'[t] = buffers[t] /\ uv'[t] = uv[t]
        /\ UNCHANGED <<stage, running>>
    BY <1>7 DEF Types, QueuesOK, Send, Queued, conns
  <2>3. \A t \in Streams : Reported(t)' = Reported(t)
    BY <2>2 DEF Reported
  <2>4. TakeBack(Append(buffers[s], n + 1)) = buffers[s]
    BY <2>1, QueueLast
  <2>5. Reported(s) \in Seq(Nat)
    BY DEF Reported, Types, ChannelOK, Runs
  <2> HIDE DEF n
  <2>6. Append(Reported(s) \o uv[s], n + 1) = Reported(s) \o Append(uv[s], n + 1)
    <3>1. uv[s] \in Seq(Nat)
      BY <2>1, NatSeq
    <3> DEFINE p == Reported(s)
               q == uv[s]
               x == n + 1
    <3>2. p \in Seq(Nat) /\ q \in Seq(Nat) /\ x \in Nat
      BY <2>1, <2>5, <3>1
    <3> HIDE DEF p, q, x
    <3>3. Append(p \o q, x) = p \o Append(q, x)
      BY <3>2, QueueBehind
    <3> QED BY <3>3 DEF p, q, x
  <2>7. stage[s] \in {"live", "closing"} => buffers'[s] = Reported(s) \o uv'[s]
    BY <2>2, <2>4, <2>6 DEF WriteQueuesAgree
  <2> QED BY <2>2, <2>3, <2>7 DEF WriteQueuesAgree
<1>8. CASE CloseBegin
  BY <1>8, AgreeSame DEF CloseBegin, Closing, write
<1>9. CASE Reopen
  BY <1>9, AgreeSame DEF Reopen, conns, write, Types, HandlesOK, Idle
<1>10. ASSUME NEW s \in Streams, LookedUpListen(s)
      PROVE  WriteQueuesAgree'
  <2>1. CASE LookupFails(s)
    BY <1>10, <2>1, AgreeSame DEF LookedUpListen, LookupFails, Discard, write, Types, HandlesOK
  <2>2. ASSUME NEW f \in FreeFds, MakeConnection(s, f, "listen"), Tell(s, "open")
        PROVE  WriteQueuesAgree'
    BY <1>10, <2>2, OpensKeeps DEF FreeFds, LookedUpListen, Connections
  <2> QED BY <1>10, <2>1, <2>2 DEF LookedUpListen
<1>11. ASSUME NEW s \in Streams, LookedUpConnect(s)
      PROVE  WriteQueuesAgree'
  BY <1>11, AgreeSame DEF LookedUpConnect, LookupFails, Discard, write, Types, HandlesOK
<1>12. ASSUME NEW s \in Streams, Connected(s)
      PROVE  WriteQueuesAgree'
  <2>1. CASE MakeConnection(s, fd[s], "connect") /\ Tell(s, "open")
    <3>1. fd[s] \in Fds
      BY DEF Types, HandlesOK
    <3> QED BY <1>12, <2>1, <3>1, OpensKeeps DEF Connected, Connections
  <2>2. CASE Discard(s) /\ Tell(s, "failed")
    BY <1>12, <2>2, AgreeSame DEF Connected, Discard, write
  <2> QED BY <1>12, <2>1, <2>2 DEF Connected
<1>13. ASSUME NEW s \in Streams, Written(s)
      PROVE  WriteQueuesAgree'
  <2>1. uv[s] \in Seq(1 .. sent[s]) /\ sent[s] \in Nat /\ uv[s] # <<>>
    BY <1>13, SendAssumption DEF Types, QueuesOK, HandlesOK, Written
  <2>2. /\ uv'[s] = Tail(uv[s]) /\ \A t \in Streams \ {s} : uv'[t] = uv[t]
        /\ UNCHANGED <<stage, buffers>> /\ running = Idle /\ stage[s] \in {"live", "closing"}
        /\ running' = IF buffers[s] = <<>> THEN Idle ELSE [fn |-> "written", s |-> s, req |-> Head(uv[s])]
    BY <1>13 DEF Types, QueuesOK, Written, conns, Looping
  <2>3. \A t \in Streams : Reported(t) = <<>>
    BY <2>2 DEF Reported, Idle
  <2>4. buffers[s] = uv[s]
    <3>1. buffers[s] = <<>> \o uv[s]
      BY <2>2, <2>3 DEF WriteQueuesAgree
    <3> QED BY <2>1, <3>1
  <2>5. \A t \in Streams : Reported(t)' = IF t = s THEN <<Head(uv[s])>> ELSE <<>>
    BY <2>1, <2>2, <2>4 DEF Reported
  <2>6. <<Head(uv[s])>> \o Tail(uv[s]) = uv[s]
    BY <2>1
  <2> QED BY <2>2, <2>3, <2>4, <2>5, <2>6 DEF WriteQueuesAgree
<1>14. ASSUME NEW s \in Streams, Closed(s)
      PROVE  WriteQueuesAgree'
  BY <1>14, AgreeSame DEF Closed, Looping, write, Types, HandlesOK, Idle
<1>15. ASSUME NEW s \in Streams, Discarded(s)
      PROVE  WriteQueuesAgree'
  BY <1>15, AgreeSame DEF Discarded, conns, write, Types, HandlesOK, Idle
<1>16. CASE WrittenPop
  <2> DEFINE s == running.s
  <2>1. /\ s \in Streams /\ stage[s] \in {"live", "closing"} /\ running.fn = "written"
        /\ uv[s] \in Seq(1 .. sent[s]) /\ running.req \in Nat
    BY <1>16 DEF WrittenPop, RunningRight, Types, QueuesOK, ChannelOK, Runs
  <2>2. buffers[s] = <<running.req>> \o uv[s]
    BY <2>1 DEF WriteQueuesAgree, Reported
  <2>3. Head(buffers[s]) = running.req /\ Tail(buffers[s]) = uv[s]
    BY <2>1, <2>2, QueueFront
  <2>4. /\ buffers'[s] = Tail(buffers[s]) /\ running' = Idle
        /\ \A t \in Streams \ {s} : buffers'[t] = buffers[t]
        /\ UNCHANGED <<stage, uv>>
    BY <1>16, <2>1, <2>3 DEF WrittenPop, conns, Types, QueuesOK
  <2>5. \A t \in Streams : Reported(t)' = <<>> /\ (t # s => Reported(t) = <<>>)
    BY <2>4 DEF Reported, Idle
  <2>6. <<>> \o uv[s] = uv[s]
    BY <2>1
  <2> QED BY <2>3, <2>4, <2>5, <2>6 DEF WriteQueuesAgree
<1>17. CASE ClosedErase
  BY <1>17, AgreeSame DEF ClosedErase, conns, write, Types, HandlesOK, Idle
<1>18. CASE Received
  BY <1>18, AgreeSame DEF Received, Closing, write, Idle
<1>19. CASE PoolEmpty
  BY <1>19, AgreeSame DEF PoolEmpty, conns, write, Types, HandlesOK, Idle
<1>20. CASE CloseEnd
  BY <1>20, AgreeSame DEF CloseEnd, conns, write, Types, HandlesOK, Idle
<1>21. ASSUME NEW l \in Streams, NEW s \in Unused, NEW f \in FreeFds, Accept(l, s, f)
      PROVE  WriteQueuesAgree'
  <2>1. f \in Fds /\ s \in Streams /\ stage[s] = "none"
    BY DEF FreeFds, Unused
  <2>2. CASE MakeConnection(s, f, "accept") /\ Tell(s, "open")
    BY <1>21, <2>1, <2>2, OpensKeeps DEF Accept, Connections
  <2>3. CASE Discard(s) /\ Tell(s, "no")
    BY <1>21, <2>1, <2>3, AgreeSame DEF Accept, Discard, write
  <2> QED BY <1>21, <2>2, <2>3 DEF Accept
<1>22. ASSUME NEW s \in Streams, Receive(s)
      PROVE  WriteQueuesAgree'
  BY <1>22, AgreeSame DEF Receive, Looping, conns, write, Idle
<1> QED
  BY <1>1, <1>2, <1>3, <1>4, <1>5, <1>6, <1>7, <1>8, <1>9, <1>10, <1>11, <1>12, <1>13, <1>14,
     <1>15, <1>16, <1>17, <1>18, <1>19, <1>20, <1>21, <1>22
     DEF Next, User, Loop, Report, Return, Network


\* A connection is made.
LEMMA MakeCounts ==
  ASSUME Types, CountRight, hz = {} => OnlyConnectionsWrite,
         NEW s \in Streams, NEW f \in Fds, NEW k \in {"listen", "connect", "accept"},
         MakeConnection(s, f, k), Tell(s, "open"), stage[s] \notin Connections,
         active' = IF stage[s] \in Asking THEN active - 1 ELSE active
  PROVE  CountRight'
<1>1. /\ uv'[s] = <<>> /\ stage' = [stage EXCEPT ![s] = "live"]
      /\ hz' = {} => hz = {}
  BY Opens
<1>2. \A t \in Streams \ {s} : uv'[t] = uv[t]
  BY Opens
<1>3. hz = {} => uv[s] = <<>>
  BY DEF OnlyConnectionsWrite, Connections
<1>4. stage'[s] \notin Asking /\ \A t \in Streams \ {s} : stage'[t] = stage[t]
  BY <1>1 DEF Asking, Types, HandlesOK
<1> QED BY <1>1, <1>2, <1>3, <1>4, CountMade

\* The counter goes on to be right.
LEMMA CountStep ==
  ASSUME Types, FiledRight, RunningRight, CountRight, hz = {} => OnlyConnectionsWrite, Next
  PROVE  CountRight'
<1>1. ASSUME NEW s \in Unused, NEW f \in FreeFds, Listen(s, f)
      PROVE  CountRight'
  <2>1. /\ s \in Streams /\ f \in Fds /\ stage[s] = "none"
        /\ MakeConnection(s, f, "listen") /\ Tell(s, "open") /\ UNCHANGED active
    BY <1>1 DEF Listen, Unused, FreeFds
  <2> QED BY <2>1, MakeCounts DEF Asking, Connections
<1>2. ASSUME NEW s \in Unused, ListenFails(s)
      PROVE  CountRight'
  BY <1>2, CountKept DEF ListenFails, Discard, Unused, Asking, write
<1>3. ASSUME NEW s \in Unused, NEW f \in FreeFds, Connect(s, f)
      PROVE  CountRight'
  BY <1>3, CountAsked DEF Connect, Unused, Asking, Types, HandlesOK, write
<1>4. ASSUME NEW s \in Unused, ConnectFails(s)
      PROVE  CountRight'
  BY <1>4, CountKept DEF ConnectFails, Discard, Unused, Asking, write
<1>5. ASSUME NEW s \in Unused, NEW k \in {"listen", "connect"}, Lookup(s, k)
      PROVE  CountRight'
  BY <1>5, CountAsked DEF Lookup, Unused, Asking, Types, HandlesOK, write
<1>6. ASSUME NEW s \in Streams, Disconnect(s)
      PROVE  CountRight'
  BY <1>6, CountKept DEF Disconnect, Closing, Asking, write
<1>7. ASSUME NEW s \in Streams, Send(s)
      PROVE  CountRight'
  <2>1. CASE UNCHANGED <<uv, active>>
    BY <1>7, <2>1, CountKept DEF Send, conns
  <2>2. CASE uv' = [uv EXCEPT ![s] = Append(uv[s], sent[s] + 1)] /\ active' = active + 1
    <3> DEFINE i == Len(uv[s]) + 1
    <3>1. uv[s] \in Seq(1 .. sent[s]) /\ DOMAIN uv = Streams /\ sent[s] \in Nat
      BY SendAssumption DEF Types, QueuesOK, HandlesOK
    <3>2. Len(uv[s]) \in Nat /\ Len(uv'[s]) = i /\ \A t \in Streams \ {s} : uv'[t] = uv[t]
      <4>1. uv[s] \in Seq(Nat) /\ sent[s] + 1 \in Nat
        BY <3>1, NatSeq
      <4>2. Len(Append(uv[s], sent[s] + 1)) = i /\ Len(uv[s]) \in Nat
        BY <4>1, AppendProperties, LenProperties
      <4> QED BY <2>2, <3>1, <4>2
    <3>3. UNCHANGED <<stage, hz>>
      BY <1>7 DEF Send, conns
    <3>4. Pending'[s] = Pending[s] \cup {i} /\ i \notin Pending[s]
      BY <3>2, <3>3, PendingOf
    <3>5. \A t \in Streams \ {s} : Pending'[t] = Pending[t]
      BY <3>2, <3>3, PendingOf
    <3> HIDE DEF i
    <3>6. Requests' = Requests \cup {<<s, i>>} /\ <<s, i>> \notin Requests
      BY <3>4, <3>5, PairsMore DEF Requests
    <3> QED BY <2>2, <3>3, <3>6, CountUp DEF CountRight
  <2>3. \/ uv' = [uv EXCEPT ![s] = Append(uv[s], sent[s] + 1)] /\ active' = active + 1
        \/ uv' = uv /\ active' = active
    BY <1>7 DEF Send
  <2> QED BY <2>1, <2>2, <2>3
<1>8. CASE CloseBegin
  BY <1>8, CountKept DEF CloseBegin, Closing, Asking, write
<1>9. CASE Reopen
  BY <1>9, CountKept DEF Reopen, Asking, Types, HandlesOK, conns, write
<1>10. ASSUME NEW s \in Streams, LookedUpListen(s)
      PROVE  CountRight'
  <2>1. stage[s] \in Asking
    BY <1>10 DEF LookedUpListen, Asking
  <2>2. CASE LookupFails(s)
    BY <2>1, <2>2, CountAnswered DEF LookupFails, Discard, Asking, Types, HandlesOK, write
  <2>3. ASSUME NEW f \in FreeFds, MakeConnection(s, f, "listen"), Tell(s, "open"), active' = active - 1
        PROVE  CountRight'
    BY <2>1, <2>3, MakeCounts DEF FreeFds, Asking, Connections
  <2> QED BY <1>10, <2>2, <2>3 DEF LookedUpListen
<1>11. ASSUME NEW s \in Streams, LookedUpConnect(s)
      PROVE  CountRight'
  <2>1. stage[s] \in Asking
    BY <1>11 DEF LookedUpConnect, Asking
  <2>2. CASE LookupFails(s)
    BY <2>1, <2>2, CountAnswered DEF LookupFails, Discard, Asking, Types, HandlesOK, write
  <2>3. CASE active' = (active - 1) + 1 /\ stage' = [stage EXCEPT ![s] = "connecting"] /\ UNCHANGED <<write, hz>>
    <3>1. active' = active
      BY <2>3 DEF CountRight
    <3> QED BY <2>1, <2>3, <3>1, CountKept DEF Asking, Types, HandlesOK, write
  <2> QED BY <1>11, <2>2, <2>3 DEF LookedUpConnect
<1>12. ASSUME NEW s \in Streams, Connected(s)
      PROVE  CountRight'
  <2>1. stage[s] \in Asking /\ active' = active - 1
    BY <1>12 DEF Connected, Asking
  <2>2. CASE MakeConnection(s, fd[s], "connect") /\ Tell(s, "open")
    <3>1. fd[s] \in Fds
      BY DEF Types, HandlesOK
    <3> QED BY <2>1, <2>2, <3>1, MakeCounts DEF Asking, Connections
  <2>3. CASE Discard(s)
    BY <2>1, <2>3, CountAnswered DEF Discard, Asking, Types, HandlesOK, write
  <2> QED BY <1>12, <2>2, <2>3 DEF Connected
<1>13. ASSUME NEW s \in Streams, Written(s)
      PROVE  CountRight'
  <2> DEFINE i == Len(uv[s])
  <2>1. uv[s] \in Seq(1 .. sent[s]) /\ DOMAIN uv = Streams /\ sent[s] \in Nat /\ uv[s] # <<>>
    BY <1>13, SendAssumption DEF Types, QueuesOK, HandlesOK, Written
  <2>2. uv' = [uv EXCEPT ![s] = Tail(uv[s])] /\ active' = active - 1 /\ UNCHANGED <<stage, hz>>
    BY <1>13 DEF Written, conns
  <2>3. i \in Nat \ {0} /\ Len(uv'[s]) = i - 1 /\ \A t \in Streams \ {s} : uv'[t] = uv[t]
    BY <2>1, <2>2, HeadTailProperties, EmptySeq
  <2>4. Pending'[s] = Pending[s] \ {i} /\ i \in Pending[s]
    BY <2>2, <2>3, PendingOf
  <2>5. \A t \in Streams \ {s} : Pending'[t] = Pending[t]
    BY <2>2, <2>3, PendingOf
  <2> HIDE DEF i
  <2>6. /\ Requests' \subseteq Requests \ {<<s, i>>} /\ <<s, i>> \in Requests
        /\ Requests' = Requests \ {<<s, i>>}
    BY <2>4, <2>5, PairsLess DEF Requests
  <2> QED BY <2>2, <2>6, CountDown DEF CountRight
<1>14. ASSUME NEW s \in Streams, Closed(s)
      PROVE  CountRight'
  <2>1. stage[s] = "closing" /\ UNCHANGED <<uv, active, hz>>
    BY <1>14 DEF Closed, write
  <2>2. fd[s] \in DOMAIN pool => stage[pool[fd[s]]] \in Connections /\ pool[fd[s]] \in Streams
    BY DEF FiledRight, Types, PoolOK
  <2>3. \A t \in Streams : stage'[t] \in Asking <=> stage[t] \in Asking
    BY <1>14, <2>1, <2>2 DEF Closed, Asking, Connections, Types, HandlesOK
  <2> QED BY <2>1, <2>3, CountKept
<1>15. ASSUME NEW s \in Streams, Discarded(s)
      PROVE  CountRight'
  BY <1>15, CountKept DEF Discarded, Asking, Types, HandlesOK, conns, write
<1>16. CASE WrittenPop
  BY <1>16, CountKept DEF WrittenPop, Asking, Types, HandlesOK, conns, write
<1>17. CASE ClosedErase
  <2>1. UNCHANGED <<uv, active, hz>>
    BY <1>17 DEF ClosedErase, write
  <2> DEFINE c == pool[fd[running.s]]
  <2>2. stage[c] \in Connections /\ c \in Streams
    BY <1>17 DEF FiledRight, Types, PoolOK, RunningRight, ClosedErase
  <2>3. stage' = [stage EXCEPT ![c] = "none"]
    BY <1>17 DEF ClosedErase
  <2> HIDE DEF c
  <2>4. \A t \in Streams : stage'[t] \in Asking <=> stage[t] \in Asking
    BY <2>2, <2>3 DEF Asking, Connections, Types, HandlesOK
  <2> QED BY <2>1, <2>4, CountKept
<1>18. CASE Received
  BY <1>18, CountKept DEF Received, Closing, Asking, write
<1>19. CASE PoolEmpty
  BY <1>19, CountKept DEF PoolEmpty, Asking, Types, HandlesOK, conns, write
<1>20. CASE CloseEnd
  BY <1>20, CountKept DEF CloseEnd, Asking, Types, HandlesOK, conns, write
<1>21. ASSUME NEW l \in Streams, NEW s \in Unused, NEW f \in FreeFds, Accept(l, s, f)
      PROVE  CountRight'
  <2>1. f \in Fds /\ s \in Streams /\ stage[s] = "none" /\ UNCHANGED active
    BY <1>21 DEF FreeFds, Unused, Accept
  <2>2. CASE MakeConnection(s, f, "accept") /\ Tell(s, "open")
    BY <2>1, <2>2, MakeCounts DEF Asking, Connections
  <2>3. CASE Discard(s)
    BY <2>1, <2>3, CountKept DEF Discard, Asking, Types, HandlesOK, write
  <2> QED BY <1>21, <2>2, <2>3 DEF Accept
<1>22. ASSUME NEW s \in Streams, Receive(s)
      PROVE  CountRight'
  BY <1>22, CountKept DEF Receive, Asking, Types, HandlesOK, conns, write
<1> QED
  BY <1>1, <1>2, <1>3, <1>4, <1>5, <1>6, <1>7, <1>8, <1>9, <1>10, <1>11, <1>12, <1>13, <1>14,
     <1>15, <1>16, <1>17, <1>18, <1>19, <1>20, <1>21, <1>22
     DEF Next, User, Loop, Report, Return, Network


\* What holds until a descriptor is given out again survives it when a
\* connection is filed under one that is not in the pool.
LEMMA OpensQuiet ==
  ASSUME Types, Quiet, phase = "open", hz' = {}, UNCHANGED <<running, phase>>,
         NEW s \in Streams, NEW f \in Fds, NEW k \in {"listen", "connect", "accept"},
         stage[s] \notin Connections, MakeConnection(s, f, k), Tell(s, "open")
  PROVE  Quiet'
<1>1. /\ stage \in [Streams -> Stages] /\ fd \in [Streams -> Fds] /\ told \in [Streams -> Told]
  BY DEF Types, HandlesOK
<1>2. /\ stage' = [stage EXCEPT ![s] = "live"] /\ fd' = [fd EXCEPT ![s] = f]
      /\ told' = [told EXCEPT ![s] = IF @ = "open" THEN "again" ELSE "open"]
      /\ uv'[s] = <<>> /\ f \notin DOMAIN pool
  BY Opens
<1>3. \A t \in Streams \ {s} : uv'[t] = uv[t]
  BY Opens
<1>4. pool' = [g \in DOMAIN pool \cup {f} |-> IF g = f THEN s ELSE pool[g]]
  BY DEF MakeConnection
<1>5. AllFiled'
  BY <1>1, <1>2, <1>4 DEF Quiet, AllFiled, Connections
<1>6. OneClosed'
  BY <1>1, <1>2 DEF Quiet, OneClosed, Connections
<1>7. OnlyConnectionsWrite'
  BY <1>1, <1>2, <1>3 DEF Quiet, OnlyConnectionsWrite
<1>8. ToldRight'
  BY <1>1, <1>2 DEF Quiet, ToldRight, Connections, Asking
<1>9. ClosingRight'
  BY DEF ClosingRight
<1> QED BY <1>5, <1>6, <1>7, <1>8, <1>9 DEF Quiet


\* When the counter is at zero nobody waits for an answer.
LEMMA NothingPending ==
  ASSUME CountRight, active = 0
  PROVE  \A s \in Streams : stage[s] \notin Asking
<1>1. Requests = {}
  BY FS_EmptySet, FS_CardinalityType DEF CountRight, Counted
<1>2. ASSUME NEW s \in Streams, stage[s] \in Asking
      PROVE  FALSE
  <2>1. 0 \in Pending[s]
    BY <1>2, PendingOf
  <2>2. <<s, 0>> \in Pairs(Pending)
    BY <2>1, InPairs
  <2> QED BY <1>1, <2>2 DEF Requests
<1> QED BY <1>2

\* Every connection stays in the pool.
LEMMA AllFiledStep ==
  ASSUME Types, CountRight, FiledRight, RunningRight, Quiet, hz = {}, hz' = {}, Next
  PROVE  AllFiled'
<1>1. ASSUME NEW s \in Unused, NEW f \in FreeFds, Listen(s, f)
      PROVE  AllFiled'
  BY <1>1, OpensQuiet DEF Listen, Calling, FreeFds, Unused, Connections, Quiet
<1>2. ASSUME NEW s \in Unused, ListenFails(s)
      PROVE  AllFiled'
  BY <1>2 DEF Quiet, AllFiled, Connections, HandlesOK, ListenFails, Discard
<1>3. ASSUME NEW s \in Unused, NEW f \in FreeFds, Connect(s, f)
      PROVE  AllFiled'
  BY <1>3 DEF Quiet, AllFiled, Connections, PoolOK, Types, HandlesOK, Connect
<1>4. ASSUME NEW s \in Unused, ConnectFails(s)
      PROVE  AllFiled'
  BY <1>4 DEF Quiet, AllFiled, Connections, HandlesOK, ConnectFails, Discard
<1>5. ASSUME NEW s \in Unused, NEW k \in {"listen", "connect"}, Lookup(s, k)
      PROVE  AllFiled'
  BY <1>5 DEF Quiet, AllFiled, Connections, Lookup
<1>6. ASSUME NEW s \in Streams, Disconnect(s)
      PROVE  AllFiled'
  BY <1>6 DEF Quiet, AllFiled, Connections, Disconnect, Closing
<1>7. ASSUME NEW s \in Streams, Send(s)
      PROVE  AllFiled'
  BY <1>7 DEF Quiet, AllFiled, Connections, HandlesOK, Send, conns
<1>8. CASE CloseBegin
  BY <1>8 DEF Quiet, AllFiled, Connections, CloseBegin, Closing
<1>9. CASE Reopen
  BY <1>9 DEF Quiet, AllFiled, Reopen, conns
<1>10. ASSUME NEW s \in Streams, LookedUpListen(s)
      PROVE  AllFiled'
  <2>1. CASE LookupFails(s)
    BY <1>10, <2>1 DEF LookupFails, Discard, Tell, write, Types, HandlesOK, Quiet, AllFiled,
       Connections
  <2>2. ASSUME NEW f \in FreeFds, MakeConnection(s, f, "listen"), Tell(s, "open"), phase = "open"
        PROVE  AllFiled'
    BY <1>10, <2>2, OpensQuiet DEF FreeFds, LookedUpListen, Connections, Quiet
  <2> QED BY <1>10, <2>1, <2>2 DEF LookedUpListen
<1>11. ASSUME NEW s \in Streams, LookedUpConnect(s)
      PROVE  AllFiled'
  BY <1>11 DEF Quiet, AllFiled, Connections, PoolOK, Types, HandlesOK, LookedUpConnect,
     LookupFails, Discard
<1>12. ASSUME NEW s \in Streams, Connected(s)
      PROVE  AllFiled'
  <2>1. CASE phase = "open" /\ MakeConnection(s, fd[s], "connect") /\ Tell(s, "open")
    <3>1. fd[s] \in Fds
      BY DEF Types, HandlesOK
    <3> QED BY <1>12, <2>1, <3>1, OpensQuiet DEF Connected, Connections, Quiet
  <2>2. CASE Discard(s) /\ Tell(s, "failed")
    BY <1>12, <2>2 DEF Discard, Quiet, AllFiled, Connections
  <2> QED BY <1>12, <2>1, <2>2 DEF Connected
<1>13. ASSUME NEW s \in Streams, Written(s)
      PROVE  AllFiled'
  BY <1>13 DEF Quiet, AllFiled, Connections, Written, conns
<1>14. ASSUME NEW s \in Streams, Closed(s)
      PROVE  AllFiled'
  BY <1>14 DEF Quiet, AllFiled, Connections, Types, HandlesOK, Closed
<1>15. ASSUME NEW s \in Streams, Discarded(s)
      PROVE  AllFiled'
  BY <1>15 DEF Quiet, AllFiled, Connections, Discarded
<1>16. CASE WrittenPop
  BY <1>16 DEF Quiet, AllFiled, WrittenPop, conns
<1>17. CASE ClosedErase
  BY <1>17 DEF Quiet, AllFiled, Connections, Types, HandlesOK, ClosedErase
<1>18. CASE Received
  BY <1>18 DEF Quiet, AllFiled, Connections, Received, Closing
<1>19. CASE PoolEmpty
  BY <1>19 DEF Quiet, AllFiled, PoolEmpty, conns
<1>20. CASE CloseEnd
  BY <1>20 DEF Quiet, AllFiled, CloseEnd, conns
<1>21. ASSUME NEW l \in Streams, NEW s \in Unused, NEW f \in FreeFds, Accept(l, s, f)
      PROVE  AllFiled'
  <2>1. f \in Fds /\ s \in Streams /\ stage[s] = "none"
    BY DEF FreeFds, Unused
  <2>2. phase = "open"
    BY <1>21 DEF Accept, Quiet, ClosingRight
  <2>3. CASE MakeConnection(s, f, "accept") /\ Tell(s, "open")
    BY <1>21, <2>1, <2>2, <2>3, OpensQuiet DEF Accept, Connections, Quiet
  <2>4. CASE Discard(s) /\ Tell(s, "no")
    BY <1>21, <2>1, <2>4 DEF Discard, Quiet, AllFiled, Connections
  <2> QED BY <1>21, <2>3, <2>4 DEF Accept
<1>22. ASSUME NEW s \in Streams, Receive(s)
      PROVE  AllFiled'
  BY <1>22 DEF Quiet, AllFiled, Connections, Receive, conns
<1> QED
  BY <1>1, <1>2, <1>3, <1>4, <1>5, <1>6, <1>7, <1>8, <1>9, <1>10, <1>11, <1>12, <1>13, <1>14,
     <1>15, <1>16, <1>17, <1>18, <1>19, <1>20, <1>21, <1>22
     DEF Next, User, Loop, Report, Return, Network

\* One connection is in its last callback.
LEMMA OneClosedStep ==
  ASSUME Types, CountRight, FiledRight, RunningRight, Quiet, hz = {}, hz' = {}, Next
  PROVE  OneClosed'
<1>1. ASSUME NEW s \in Unused, NEW f \in FreeFds, Listen(s, f)
      PROVE  OneClosed'
  BY <1>1, OpensQuiet DEF Listen, Calling, FreeFds, Unused, Connections, Quiet
<1>2. ASSUME NEW s \in Unused, ListenFails(s)
      PROVE  OneClosed'
  BY <1>2 DEF Quiet, OneClosed, AllFiled, FiledRight, Types, HandlesOK, ListenFails, Discard,
     Tell, Unused
<1>3. ASSUME NEW s \in Unused, NEW f \in FreeFds, Connect(s, f)
      PROVE  OneClosed'
  BY <1>3 DEF Quiet, OneClosed, AllFiled, FiledRight, Types, HandlesOK, Connect, Tell, Unused,
     FreeFds
<1>4. ASSUME NEW s \in Unused, ConnectFails(s)
      PROVE  OneClosed'
  BY <1>4 DEF Quiet, OneClosed, AllFiled, FiledRight, Types, HandlesOK, ConnectFails, Discard,
     Tell, Unused
<1>5. ASSUME NEW s \in Unused, NEW k \in {"listen", "connect"}, Lookup(s, k)
      PROVE  OneClosed'
  BY <1>5 DEF Quiet, OneClosed, Lookup, Unused
<1>6. ASSUME NEW s \in Streams, Disconnect(s)
      PROVE  OneClosed'
  BY <1>6 DEF Quiet, OneClosed, AllFiled, Disconnect, Closing
<1>7. ASSUME NEW s \in Streams, Send(s)
      PROVE  OneClosed'
  BY <1>7 DEF Quiet, OneClosed, HandlesOK, Send, conns
<1>8. CASE CloseBegin
  BY <1>8 DEF Quiet, OneClosed, AllFiled, CloseBegin, Closing
<1>9. CASE Reopen
  BY <1>9 DEF Quiet, OneClosed, HandlesOK, Reopen, conns
<1>10. ASSUME NEW s \in Streams, LookedUpListen(s)
      PROVE  OneClosed'
  <2>1. CASE LookupFails(s)
    BY <1>10, <2>1 DEF LookedUpListen, LookupFails, Discard, Tell, write, Types, HandlesOK, Quiet,
       OneClosed
  <2>2. ASSUME NEW f \in FreeFds, MakeConnection(s, f, "listen"), Tell(s, "open"), phase = "open"
        PROVE  OneClosed'
    BY <1>10, <2>2, OpensQuiet DEF FreeFds, LookedUpListen, Connections, Quiet
  <2> QED BY <1>10, <2>1, <2>2 DEF LookedUpListen
<1>11. ASSUME NEW s \in Streams, LookedUpConnect(s)
      PROVE  OneClosed'
  BY <1>11 DEF Quiet, OneClosed, Runs, Connections, Types, HandlesOK, LookedUpConnect,
     LookupFails, Discard, Tell
<1>12. ASSUME NEW s \in Streams, Connected(s)
      PROVE  OneClosed'
  <2>1. CASE phase = "open" /\ MakeConnection(s, fd[s], "connect") /\ Tell(s, "open")
    <3>1. fd[s] \in Fds
      BY DEF Types, HandlesOK
    <3> QED BY <1>12, <2>1, <3>1, OpensQuiet DEF Connected, Connections, Quiet
  <2>2. CASE Discard(s) /\ Tell(s, "failed")
    BY <1>12, <2>2 DEF Connected, Discard, Quiet, OneClosed
  <2> QED BY <1>12, <2>1, <2>2 DEF Connected
<1>13. ASSUME NEW s \in Streams, Written(s)
      PROVE  OneClosed'
  BY <1>13 DEF Quiet, OneClosed, AllFiled, Idle, HandlesOK, Written, Looping, conns
<1>14. ASSUME NEW s \in Streams, Closed(s)
      PROVE  OneClosed'
  BY <1>14 DEF Quiet, OneClosed, AllFiled, FiledRight, RunningRight, Runs, Connections, Types,
     HandlesOK, Closed
<1>15. ASSUME NEW s \in Streams, Discarded(s)
      PROVE  OneClosed'
  BY <1>15 DEF Quiet, OneClosed, Discarded
<1>16. CASE WrittenPop
  BY <1>16 DEF Quiet, OneClosed, AllFiled, Idle, PoolOK, HandlesOK, WrittenPop, conns, write
<1>17. CASE ClosedErase
  BY <1>17 DEF Quiet, OneClosed, AllFiled, Idle, PoolOK, Connections, Types, HandlesOK, ClosedErase
<1>18. CASE Received
  BY <1>18 DEF Quiet, OneClosed, AllFiled, Idle, HandlesOK, Received, Closing
<1>19. CASE PoolEmpty
  BY <1>19 DEF Quiet, OneClosed, HandlesOK, PoolEmpty, conns
<1>20. CASE CloseEnd
  BY <1>20 DEF Quiet, OneClosed, HandlesOK, CloseEnd, conns
<1>21. ASSUME NEW l \in Streams, NEW s \in Unused, NEW f \in FreeFds, Accept(l, s, f)
      PROVE  OneClosed'
  <2>1. f \in Fds /\ s \in Streams /\ stage[s] = "none"
    BY DEF FreeFds, Unused
  <2>2. phase = "open"
    BY <1>21 DEF Accept, Quiet, ClosingRight
  <2>3. CASE MakeConnection(s, f, "accept") /\ Tell(s, "open")
    BY <1>21, <2>1, <2>2, <2>3, OpensQuiet DEF Accept, Connections, Quiet
  <2>4. CASE Discard(s) /\ Tell(s, "no")
    BY <1>21, <2>1, <2>4 DEF Accept, Discard, Quiet, OneClosed
  <2> QED BY <1>21, <2>3, <2>4 DEF Accept
<1>22. ASSUME NEW s \in Streams, Receive(s)
      PROVE  OneClosed'
  BY <1>22 DEF Quiet, OneClosed, AllFiled, Idle, HandlesOK, Receive, Looping, conns
<1> QED
  BY <1>1, <1>2, <1>3, <1>4, <1>5, <1>6, <1>7, <1>8, <1>9, <1>10, <1>11, <1>12, <1>13, <1>14,
     <1>15, <1>16, <1>17, <1>18, <1>19, <1>20, <1>21, <1>22
     DEF Next, User, Loop, Report, Return, Network

\* Only connections go on to have writes.
LEMMA OnlyConnectionsWriteStep ==
  ASSUME Types, CountRight, FiledRight, RunningRight, Quiet, hz = {}, hz' = {}, Next
  PROVE  OnlyConnectionsWrite'
<1>1. ASSUME NEW s \in Unused, NEW f \in FreeFds, Listen(s, f)
      PROVE  OnlyConnectionsWrite'
  BY <1>1, OpensQuiet DEF Listen, Calling, FreeFds, Unused, Connections, Quiet
<1>2. ASSUME NEW s \in Unused, ListenFails(s)
      PROVE  OnlyConnectionsWrite'
  BY <1>2 DEF Quiet, OnlyConnectionsWrite, Types, HandlesOK, ListenFails, Discard, Tell, Unused,
     Calling, write
<1>3. ASSUME NEW s \in Unused, NEW f \in FreeFds, Connect(s, f)
      PROVE  OnlyConnectionsWrite'
  BY <1>3 DEF Quiet, OnlyConnectionsWrite, Types, HandlesOK, Connect, Tell, Unused, FreeFds,
     Calling, write
<1>4. ASSUME NEW s \in Unused, ConnectFails(s)
      PROVE  OnlyConnectionsWrite'
  BY <1>4 DEF Quiet, OnlyConnectionsWrite, Types, HandlesOK, ConnectFails, Discard, Tell, Unused,
     Calling, write
<1>5. ASSUME NEW s \in Unused, NEW k \in {"listen", "connect"}, Lookup(s, k)
      PROVE  OnlyConnectionsWrite'
  BY <1>5 DEF Quiet, OnlyConnectionsWrite, Lookup, Tell, Unused, Calling, conns, write
<1>6. ASSUME NEW s \in Streams, Disconnect(s)
      PROVE  OnlyConnectionsWrite'
  BY <1>6 DEF Quiet, OnlyConnectionsWrite, OneClosed, Disconnect, Closing, write
<1>7. ASSUME NEW s \in Streams, Send(s)
      PROVE  OnlyConnectionsWrite'
  BY <1>7 DEF Quiet, OnlyConnectionsWrite, OneClosed, PoolOK, QueuesOK, Connections, Types,
     HandlesOK, Send, conns, write
<1>8. CASE CloseBegin
  BY <1>8 DEF Quiet, OnlyConnectionsWrite, OneClosed, CloseBegin, Closing, write
<1>9. CASE Reopen
  BY <1>9 DEF Quiet, OnlyConnectionsWrite, OneClosed, HandlesOK, Reopen, conns, write
<1>10. ASSUME NEW s \in Streams, LookedUpListen(s)
      PROVE  OnlyConnectionsWrite'
  <2>1. CASE LookupFails(s)
    <3>1. /\ UNCHANGED uv /\ stage[s] = "lookup"
          /\ \A t \in Streams \ {s} : stage'[t] = stage[t]
      BY <1>10, <2>1 DEF LookedUpListen, LookupFails, Discard, Types, HandlesOK, write
    <3> QED BY <3>1 DEF Quiet, OnlyConnectionsWrite
  <2>2. ASSUME NEW f \in FreeFds, MakeConnection(s, f, "listen"), Tell(s, "open"), phase = "open"
        PROVE  OnlyConnectionsWrite'
    BY <1>10, <2>2, OpensQuiet DEF FreeFds, LookedUpListen, Connections, Quiet
  <2> QED BY <1>10, <2>1, <2>2 DEF LookedUpListen
<1>11. ASSUME NEW s \in Streams, LookedUpConnect(s)
      PROVE  OnlyConnectionsWrite'
  <2>1. CASE LookupFails(s)
    <3>1. /\ UNCHANGED uv /\ stage[s] = "lookup"
          /\ \A t \in Streams \ {s} : stage'[t] = stage[t]
      BY <1>11, <2>1 DEF LookedUpConnect, LookupFails, Discard, Types, HandlesOK, write
    <3> QED BY <3>1 DEF Quiet, OnlyConnectionsWrite
  <2>2. CASE stage' = [stage EXCEPT ![s] = "connecting"] /\ UNCHANGED write
    <3>1. UNCHANGED uv /\ stage[s] = "lookup" /\ \A t \in Streams \ {s} : stage'[t] = stage[t]
      BY <1>11, <2>2 DEF LookedUpConnect, Types, HandlesOK, write
    <3> QED BY <3>1 DEF Quiet, OnlyConnectionsWrite
  <2> QED BY <1>11, <2>1, <2>2 DEF LookedUpConnect
<1>12. ASSUME NEW s \in Streams, Connected(s)
      PROVE  OnlyConnectionsWrite'
  <2>1. CASE phase = "open" /\ MakeConnection(s, fd[s], "connect") /\ Tell(s, "open")
    <3>1. fd[s] \in Fds
      BY DEF Types, HandlesOK
    <3> QED BY <1>12, <2>1, <3>1, OpensQuiet DEF Connected, Connections, Quiet
  <2>2. CASE Discard(s) /\ Tell(s, "failed")
    BY <1>12, <2>2 DEF Connected, Discard, write, Quiet, OnlyConnectionsWrite
  <2> QED BY <1>12, <2>1, <2>2 DEF Connected
<1>13. ASSUME NEW s \in Streams, Written(s)
      PROVE  OnlyConnectionsWrite'
  BY <1>13 DEF Quiet, OnlyConnectionsWrite, OneClosed, Written, conns
<1>14. ASSUME NEW s \in Streams, Closed(s)
      PROVE  OnlyConnectionsWrite'
  BY <1>14 DEF Quiet, AllFiled, FiledRight, Connections, Types, HandlesOK, Closed
<1>15. ASSUME NEW s \in Streams, Discarded(s)
      PROVE  OnlyConnectionsWrite'
  BY <1>15 DEF Quiet, OnlyConnectionsWrite, OneClosed, HandlesOK, Discarded, write
<1>16. CASE WrittenPop
  BY <1>16 DEF Quiet, OnlyConnectionsWrite, OneClosed, HandlesOK, WrittenPop, conns
<1>17. CASE ClosedErase
  <2> DEFINE c == pool[fd[running.s]]
  <2>1. running.s \in Streams /\ stage[running.s] = "closed" /\ c = running.s
    BY <1>17 DEF ClosedErase, RunningRight, Quiet, AllFiled, Connections
  <2>2. stage' = [stage EXCEPT ![c] = "none"] /\ UNCHANGED uv
    BY <1>17 DEF ClosedErase, write
  <2> HIDE DEF c
  <2> QED BY <2>1, <2>2 DEF Quiet, OnlyConnectionsWrite, Types, HandlesOK
<1>18. CASE Received
  BY <1>18 DEF Quiet, OnlyConnectionsWrite, OneClosed, Received, Closing, write
<1>19. CASE PoolEmpty
  BY <1>19 DEF Quiet, OnlyConnectionsWrite, OneClosed, HandlesOK, PoolEmpty, conns, write
<1>20. CASE CloseEnd
  BY <1>20 DEF Quiet, OnlyConnectionsWrite, OneClosed, HandlesOK, CloseEnd, conns, write
<1>21. ASSUME NEW l \in Streams, NEW s \in Unused, NEW f \in FreeFds, Accept(l, s, f)
      PROVE  OnlyConnectionsWrite'
  <2>1. f \in Fds /\ s \in Streams /\ stage[s] = "none"
    BY DEF FreeFds, Unused
  <2>2. phase = "open"
    BY <1>21 DEF Accept, Quiet, ClosingRight
  <2>3. CASE MakeConnection(s, f, "accept") /\ Tell(s, "open")
    BY <1>21, <2>1, <2>2, <2>3, OpensQuiet DEF Accept, Connections, Quiet
  <2>4. CASE Discard(s) /\ Tell(s, "no")
    BY <1>21, <2>1, <2>4 DEF Discard, write, Quiet, OnlyConnectionsWrite
  <2> QED BY <1>21, <2>3, <2>4 DEF Accept
<1>22. ASSUME NEW s \in Streams, Receive(s)
      PROVE  OnlyConnectionsWrite'
  BY <1>22 DEF Quiet, OnlyConnectionsWrite, OneClosed, Receive, conns, write
<1> QED
  BY <1>1, <1>2, <1>3, <1>4, <1>5, <1>6, <1>7, <1>8, <1>9, <1>10, <1>11, <1>12, <1>13, <1>14,
     <1>15, <1>16, <1>17, <1>18, <1>19, <1>20, <1>21, <1>22
     DEF Next, User, Loop, Report, Return, Network

\* The user has been told what is true.
LEMMA ToldRightStep ==
  ASSUME Types, CountRight, FiledRight, RunningRight, Quiet, hz = {}, hz' = {}, Next
  PROVE  ToldRight'
<1>1. ASSUME NEW s \in Unused, NEW f \in FreeFds, Listen(s, f)
      PROVE  ToldRight'
  BY <1>1, OpensQuiet DEF Listen, Calling, FreeFds, Unused, Connections, Quiet
<1>2. ASSUME NEW s \in Unused, ListenFails(s)
      PROVE  ToldRight'
  BY <1>2 DEF Quiet, ToldRight, AllFiled, OneClosed, FiledRight, RunningRight, Asking, Types,
     HandlesOK, ListenFails, Discard, Tell, Unused
<1>3. ASSUME NEW s \in Unused, NEW f \in FreeFds, Connect(s, f)
      PROVE  ToldRight'
  BY <1>3 DEF Quiet, ToldRight, AllFiled, OneClosed, FiledRight, RunningRight, Asking, Types,
     HandlesOK, Connect, Tell, Unused, FreeFds
<1>4. ASSUME NEW s \in Unused, ConnectFails(s)
      PROVE  ToldRight'
  BY <1>4 DEF Quiet, ToldRight, AllFiled, OneClosed, FiledRight, RunningRight, Asking, Types,
     HandlesOK, ConnectFails, Discard, Tell, Unused
<1>5. ASSUME NEW s \in Unused, NEW k \in {"listen", "connect"}, Lookup(s, k)
      PROVE  ToldRight'
  BY <1>5 DEF Quiet, ToldRight, AllFiled, Asking, Types, HandlesOK, Lookup, Tell
<1>6. ASSUME NEW s \in Streams, Disconnect(s)
      PROVE  ToldRight'
  BY <1>6 DEF Quiet, ToldRight, RunningRight, Asking, Disconnect, Closing
<1>7. ASSUME NEW s \in Streams, Send(s)
      PROVE  ToldRight'
  BY <1>7 DEF Quiet, ToldRight, HandlesOK, Send, conns
<1>8. CASE CloseBegin
  BY <1>8 DEF Quiet, ToldRight, RunningRight, Asking, CloseBegin, Closing
<1>9. CASE Reopen
  BY <1>9 DEF Quiet, ToldRight, HandlesOK, Reopen, conns
<1>10. ASSUME NEW s \in Streams, LookedUpListen(s)
      PROVE  ToldRight'
  <2>1. CASE LookupFails(s)
    BY <1>10, <2>1 DEF LookupFails, Discard, Tell, write, Types, HandlesOK, Quiet, ToldRight,
       RunningRight, Asking
  <2>2. ASSUME NEW f \in FreeFds, MakeConnection(s, f, "listen"), Tell(s, "open"), phase = "open"
        PROVE  ToldRight'
    BY <1>10, <2>2, OpensQuiet DEF FreeFds, LookedUpListen, Connections, Quiet
  <2> QED BY <1>10, <2>1, <2>2 DEF LookedUpListen
<1>11. ASSUME NEW s \in Streams, LookedUpConnect(s)
      PROVE  ToldRight'
  BY <1>11 DEF Quiet, ToldRight, AllFiled, OneClosed, Told, RunningRight, Asking, Types,
     HandlesOK, LookedUpConnect, LookupFails, Discard, Tell
<1>12. ASSUME NEW s \in Streams, Connected(s)
      PROVE  ToldRight'
  <2>1. CASE phase = "open" /\ MakeConnection(s, fd[s], "connect") /\ Tell(s, "open")
    <3>1. fd[s] \in Fds
      BY DEF Types, HandlesOK
    <3> QED BY <1>12, <2>1, <3>1, OpensQuiet DEF Connected, Connections, Quiet
  <2>2. CASE Discard(s) /\ Tell(s, "failed")
    BY <1>12, <2>2 DEF Discard, Tell, write, Types, HandlesOK, Quiet, ToldRight, AllFiled, Asking,
       Looping
  <2> QED BY <1>12, <2>1, <2>2 DEF Connected
<1>13. ASSUME NEW s \in Streams, Written(s)
      PROVE  ToldRight'
  BY <1>13 DEF Quiet, ToldRight, AllFiled, Written, Looping, conns
<1>14. ASSUME NEW s \in Streams, Closed(s)
      PROVE  ToldRight'
  BY <1>14 DEF Quiet, ToldRight, AllFiled, OneClosed, Told, Connections, PoolOK, FiledRight,
     RunningRight, Asking, Types, HandlesOK, Closed
<1>15. ASSUME NEW s \in Streams, Discarded(s)
      PROVE  ToldRight'
  BY <1>15 DEF Quiet, ToldRight, AllFiled, Asking, Types, HandlesOK, Discarded
<1>16. CASE WrittenPop
  BY <1>16 DEF Quiet, ToldRight, HandlesOK, WrittenPop, conns
<1>17. CASE ClosedErase
  BY <1>17 DEF Quiet, ToldRight, AllFiled, Connections, PoolOK, FiledRight, RunningRight, Asking,
     Types, HandlesOK, ClosedErase
<1>18. CASE Received
  BY <1>18 DEF Quiet, ToldRight, RunningRight, Asking, Received, Closing
<1>19. CASE PoolEmpty
  BY <1>19 DEF Quiet, ToldRight, HandlesOK, PoolEmpty, conns
<1>20. CASE CloseEnd
  BY <1>20 DEF Quiet, ToldRight, HandlesOK, CloseEnd, conns
<1>21. ASSUME NEW l \in Streams, NEW s \in Unused, NEW f \in FreeFds, Accept(l, s, f)
      PROVE  ToldRight'
  <2>1. f \in Fds /\ s \in Streams /\ stage[s] = "none"
    BY DEF FreeFds, Unused
  <2>2. phase = "open"
    BY <1>21 DEF Accept, Quiet, ClosingRight
  <2>3. CASE MakeConnection(s, f, "accept") /\ Tell(s, "open")
    BY <1>21, <2>1, <2>2, <2>3, OpensQuiet DEF Accept, Connections, Quiet
  <2>4. CASE Discard(s) /\ Tell(s, "no")
    BY <1>21, <2>1, <2>4 DEF Discard, Tell, HandlesOK, Quiet, ToldRight, AllFiled, Asking, Looping
  <2> QED BY <1>21, <2>3, <2>4 DEF Accept
<1>22. ASSUME NEW s \in Streams, Receive(s)
      PROVE  ToldRight'
  BY <1>22 DEF Quiet, ToldRight, AllFiled, Receive, Looping, conns
<1> QED
  BY <1>1, <1>2, <1>3, <1>4, <1>5, <1>6, <1>7, <1>8, <1>9, <1>10, <1>11, <1>12, <1>13, <1>14,
     <1>15, <1>16, <1>17, <1>18, <1>19, <1>20, <1>21, <1>22
     DEF Next, User, Loop, Report, Return, Network

\* io_stream_close goes on as far as it says.
LEMMA ClosingRightStep ==
  ASSUME Types, CountRight, FiledRight, RunningRight, Quiet, hz = {}, hz' = {}, Next
  PROVE  ClosingRight'
<1>1. ASSUME NEW s \in Unused, NEW f \in FreeFds, Listen(s, f)
      PROVE  ClosingRight'
  BY <1>1, OpensQuiet DEF Listen, Calling, FreeFds, Unused, Connections, Quiet
<1>2. ASSUME NEW s \in Unused, ListenFails(s)
      PROVE  ClosingRight'
  BY <1>2 DEF ClosingRight, Types, HandlesOK, ListenFails, Calling
<1>3. ASSUME NEW s \in Unused, NEW f \in FreeFds, Connect(s, f)
      PROVE  ClosingRight'
  BY <1>3 DEF ClosingRight, Types, HandlesOK, Connect, Calling
<1>4. ASSUME NEW s \in Unused, ConnectFails(s)
      PROVE  ClosingRight'
  BY <1>4 DEF ClosingRight, Types, HandlesOK, ConnectFails, Calling
<1>5. ASSUME NEW s \in Unused, NEW k \in {"listen", "connect"}, Lookup(s, k)
      PROVE  ClosingRight'
  BY <1>5 DEF ClosingRight, AllFiled, OneClosed, Lookup, Tell, Calling
<1>6. ASSUME NEW s \in Streams, Disconnect(s)
      PROVE  ClosingRight'
  BY <1>6 DEF Quiet, ClosingRight, Disconnect
<1>7. ASSUME NEW s \in Streams, Send(s)
      PROVE  ClosingRight'
  BY <1>7 DEF Quiet, ClosingRight, AllFiled, HandlesOK, Send, conns
<1>8. CASE CloseBegin
  BY <1>8 DEF Quiet, ClosingRight, AllFiled, OneClosed, Connections, ChannelOK, RunningRight,
     Filed, Types, HandlesOK, CloseBegin, Closing
<1>9. CASE Reopen
  BY <1>9 DEF ClosingRight, Reopen
<1>10. ASSUME NEW s \in Streams, LookedUpListen(s)
      PROVE  ClosingRight'
  <2>1. CASE LookupFails(s)
    BY <1>10, <2>1 DEF LookedUpListen, LookupFails, Discard, Tell, write, Types, HandlesOK, Quiet,
       ClosingRight, AllFiled, OneClosed, Asking
  <2>2. ASSUME NEW f \in FreeFds, MakeConnection(s, f, "listen"), Tell(s, "open"), phase = "open"
        PROVE  ClosingRight'
    BY <1>10, <2>2, OpensQuiet DEF FreeFds, LookedUpListen, Connections, Quiet
  <2> QED BY <1>10, <2>1, <2>2 DEF LookedUpListen
<1>11. ASSUME NEW s \in Streams, LookedUpConnect(s)
      PROVE  ClosingRight'
  BY <1>11 DEF Quiet, ClosingRight, AllFiled, OneClosed, Connections, Asking, RunningRight, Filed,
     Types, HandlesOK, LookedUpConnect, LookupFails
<1>12. ASSUME NEW s \in Streams, Connected(s)
      PROVE  ClosingRight'
  <2>1. CASE phase = "open" /\ MakeConnection(s, fd[s], "connect") /\ Tell(s, "open")
    <3>1. fd[s] \in Fds
      BY DEF Types, HandlesOK
    <3> QED BY <1>12, <2>1, <3>1, OpensQuiet DEF Connected, Connections, Quiet
  <2>2. CASE Discard(s) /\ Tell(s, "failed")
    BY <1>12, <2>2 DEF Connected, Discard, Tell, Quiet, ClosingRight, Asking
  <2> QED BY <1>12, <2>1, <2>2 DEF Connected
<1>13. ASSUME NEW s \in Streams, Written(s)
      PROVE  ClosingRight'
  BY <1>13 DEF Quiet, ClosingRight, Types, HandlesOK, Written, Looping, conns
<1>14. ASSUME NEW s \in Streams, Closed(s)
      PROVE  ClosingRight'
  BY <1>14 DEF Quiet, ClosingRight, AllFiled, OneClosed, Connections, Asking, RunningRight, Filed,
     Types, HandlesOK, Closed
<1>15. ASSUME NEW s \in Streams, Discarded(s)
      PROVE  ClosingRight'
  BY <1>15 DEF Quiet, ClosingRight, AllFiled, Asking, Types, HandlesOK, Discarded
<1>16. CASE WrittenPop
  BY <1>16 DEF Quiet, ClosingRight, AllFiled, HandlesOK, WrittenPop, conns
<1>17. CASE ClosedErase
  BY <1>17 DEF Quiet, ClosingRight, AllFiled, Asking, Types, HandlesOK, ClosedErase
<1>18. CASE Received
  BY <1>18 DEF Quiet, ClosingRight, Types, HandlesOK, Received, Closing
<1>19. CASE PoolEmpty
  BY <1>19 DEF Quiet, ClosingRight, AllFiled, HandlesOK, PoolEmpty, conns
<1>20. CASE CloseEnd
  <2>1. /\ phase' = "closed" /\ phase # "open" /\ running = Idle
        /\ UNCHANGED <<stage, pool, running>>
        /\ LoopEmpty \/ (phase = "draining" /\ active = 0)
    BY <1>20 DEF CloseEnd, conns
  <2>2. CASE LoopEmpty
    <3>1. DOMAIN pool = {}
      BY <2>2 DEF LoopEmpty, FiledRight, Connections, Types, PoolOK
    <3> QED BY <2>1, <2>2, <3>1 DEF ClosingRight, LoopEmpty, Asking
  <2>3. CASE phase = "draining" /\ active = 0
    <3>1. \A s \in Streams : stage[s] \notin Asking
      BY <2>3, NothingPending
    <3> QED BY <2>1, <2>3, <3>1 DEF ClosingRight, Quiet
  <2> QED BY <2>1, <2>2, <2>3
<1>21. ASSUME NEW l \in Streams, NEW s \in Unused, NEW f \in FreeFds, Accept(l, s, f)
      PROVE  ClosingRight'
  <2>1. f \in Fds /\ s \in Streams /\ stage[s] = "none"
    BY DEF FreeFds, Unused
  <2>2. phase = "open"
    BY <1>21 DEF Accept, Quiet, ClosingRight
  <2>3. CASE MakeConnection(s, f, "accept") /\ Tell(s, "open")
    BY <1>21, <2>1, <2>2, <2>3, OpensQuiet DEF Accept, Connections, Quiet
  <2>4. CASE Discard(s) /\ Tell(s, "no")
    BY <1>21, <2>1, <2>4 DEF Accept, Discard, Quiet, ClosingRight
  <2> QED BY <1>21, <2>3, <2>4 DEF Accept
<1>22. ASSUME NEW s \in Streams, Receive(s)
      PROVE  ClosingRight'
  BY <1>22 DEF Quiet, ClosingRight, Receive
<1> QED
  BY <1>1, <1>2, <1>3, <1>4, <1>5, <1>6, <1>7, <1>8, <1>9, <1>10, <1>11, <1>12, <1>13, <1>14,
     <1>15, <1>16, <1>17, <1>18, <1>19, <1>20, <1>21, <1>22
     DEF Next, User, Loop, Report, Return, Network

\* What the user is told next follows on what it was told before.
LEMMA OrderStep ==
  ASSUME Types, FiledRight, Quiet, Next
  PROVE  \A t \in Streams : told[t] # told'[t] => ToldNext(t)
<1>1. ASSUME NEW s \in Unused, NEW f \in FreeFds, Listen(s, f)
      PROVE  \A t \in Streams : told[t] # told'[t] => ToldNext(t)
  <2>1. s \in Streams /\ stage[s] = "none" /\ Tell(s, "open")
    BY <1>1 DEF Listen, Unused
  <2> QED BY <2>1 DEF ToldNext, Tell, Quiet, ToldRight, Types, HandlesOK, Told
<1>2. ASSUME NEW s \in Unused, ListenFails(s)
      PROVE  \A t \in Streams : told[t] # told'[t] => ToldNext(t)
  BY <1>2 DEF Quiet, ToldRight, Types, HandlesOK, Told, Asking, ToldNext, ListenFails, Discard,
     Tell, Unused, Calling
<1>3. ASSUME NEW s \in Unused, NEW f \in FreeFds, Connect(s, f)
      PROVE  \A t \in Streams : told[t] # told'[t] => ToldNext(t)
  BY <1>3 DEF Quiet, ToldRight, Types, HandlesOK, Told, Asking, ToldNext, Connect, Tell, Unused
<1>4. ASSUME NEW s \in Unused, ConnectFails(s)
      PROVE  \A t \in Streams : told[t] # told'[t] => ToldNext(t)
  BY <1>4 DEF Quiet, ToldRight, Types, HandlesOK, Told, Asking, ToldNext, ConnectFails, Discard,
     Tell, Unused, Calling
<1>5. ASSUME NEW s \in Unused, NEW k \in {"listen", "connect"}, Lookup(s, k)
      PROVE  \A t \in Streams : told[t] # told'[t] => ToldNext(t)
  BY <1>5 DEF Quiet, ToldRight, AllFiled, Connections, Types, HandlesOK, Told, Asking, ToldNext,
     Lookup, Tell, Unused, Calling
<1>6. ASSUME NEW s \in Streams, Disconnect(s)
      PROVE  \A t \in Streams : told[t] # told'[t] => ToldNext(t)
  BY <1>6 DEF Disconnect
<1>7. ASSUME NEW s \in Streams, Send(s)
      PROVE  \A t \in Streams : told[t] # told'[t] => ToldNext(t)
  BY <1>7 DEF Send
<1>8. CASE CloseBegin
  BY <1>8 DEF CloseBegin
<1>9. CASE Reopen
  BY <1>9 DEF Reopen
<1>10. ASSUME NEW s \in Streams, LookedUpListen(s)
      PROVE  \A t \in Streams : told[t] # told'[t] => ToldNext(t)
  <2>1. stage[s] = "lookup" /\ (Tell(s, "failed") \/ Tell(s, "open"))
    BY <1>10 DEF LookedUpListen, LookupFails
  <2> QED BY <2>1 DEF Tell, Quiet, ToldRight, Types, HandlesOK, Asking, ToldNext
<1>11. ASSUME NEW s \in Streams, LookedUpConnect(s)
      PROVE  \A t \in Streams : told[t] # told'[t] => ToldNext(t)
  BY <1>11 DEF Quiet, ToldRight, AllFiled, Connections, Types, HandlesOK, Told, Asking, ToldNext,
     LookedUpConnect, LookupFails, Discard, Tell
<1>12. ASSUME NEW s \in Streams, Connected(s)
      PROVE  \A t \in Streams : told[t] # told'[t] => ToldNext(t)
  <2>1. stage[s] = "connecting" /\ (Tell(s, "failed") \/ Tell(s, "open"))
    BY <1>12 DEF Connected
  <2> QED BY <2>1 DEF Tell, Quiet, ToldRight, Types, HandlesOK, Asking, ToldNext
<1>13. ASSUME NEW s \in Streams, Written(s)
      PROVE  \A t \in Streams : told[t] # told'[t] => ToldNext(t)
  BY <1>13 DEF Written
<1>14. ASSUME NEW s \in Streams, Closed(s)
      PROVE  \A t \in Streams : told[t] # told'[t] => ToldNext(t)
  BY <1>14 DEF Quiet, ToldRight, AllFiled, Connections, Types, HandlesOK, ToldNext, Closed
<1>15. ASSUME NEW s \in Streams, Discarded(s)
      PROVE  \A t \in Streams : told[t] # told'[t] => ToldNext(t)
  BY <1>15 DEF Discarded
<1>16. CASE WrittenPop
  BY <1>16 DEF WrittenPop
<1>17. CASE ClosedErase
  BY <1>17 DEF ClosedErase
<1>18. CASE Received
  BY <1>18 DEF Received
<1>19. CASE PoolEmpty
  BY <1>19 DEF PoolEmpty
<1>20. CASE CloseEnd
  BY <1>20 DEF CloseEnd
<1>21. ASSUME NEW l \in Streams, NEW s \in Unused, NEW f \in FreeFds, Accept(l, s, f)
      PROVE  \A t \in Streams : told[t] # told'[t] => ToldNext(t)
  <2>1. s \in Streams /\ stage[s] = "none" /\ (Tell(s, "no") \/ Tell(s, "open"))
    BY <1>21 DEF Accept, Unused
  <2> QED BY <2>1 DEF Tell, Quiet, ToldRight, Types, HandlesOK, Told, Asking, ToldNext
<1>22. ASSUME NEW s \in Streams, Receive(s)
      PROVE  \A t \in Streams : told[t] # told'[t] => ToldNext(t)
  BY <1>22 DEF Receive
<1> QED
  BY <1>1, <1>2, <1>3, <1>4, <1>5, <1>6, <1>7, <1>8, <1>9, <1>10, <1>11, <1>12, <1>13, <1>14,
     <1>15, <1>16, <1>17, <1>18, <1>19, <1>20, <1>21, <1>22
     DEF Next, User, Loop, Report, Return, Network

\* A window that was hit stays recorded.
LEMMA WindowsStep ==
  ASSUME Next
  PROVE  hz' = {} => hz = {}
<1>1. ASSUME NEW s \in Unused, NEW f \in FreeFds, Listen(s, f)
      PROVE  hz' = {} => hz = {}
  BY <1>1 DEF Listen, MakeConnection
<1>2. ASSUME NEW s \in Unused, ListenFails(s)
      PROVE  hz' = {} => hz = {}
  BY <1>2 DEF ListenFails, Discard
<1>3. ASSUME NEW s \in Unused, NEW f \in FreeFds, Connect(s, f)
      PROVE  hz' = {} => hz = {}
  BY <1>3 DEF Connect
<1>4. ASSUME NEW s \in Unused, ConnectFails(s)
      PROVE  hz' = {} => hz = {}
  BY <1>4 DEF ConnectFails, Discard
<1>5. ASSUME NEW s \in Unused, NEW k \in {"listen", "connect"}, Lookup(s, k)
      PROVE  hz' = {} => hz = {}
  BY <1>5 DEF Lookup
<1>6. ASSUME NEW s \in Streams, Disconnect(s)
      PROVE  hz' = {} => hz = {}
  BY <1>6 DEF Disconnect
<1>7. ASSUME NEW s \in Streams, Send(s)
      PROVE  hz' = {} => hz = {}
  BY <1>7 DEF Send
<1>8. CASE CloseBegin
  BY <1>8 DEF CloseBegin
<1>9. CASE Reopen
  BY <1>9 DEF Reopen
<1>10. ASSUME NEW s \in Streams, LookedUpListen(s)
      PROVE  hz' = {} => hz = {}
  BY <1>10 DEF LookedUpListen, LookupFails, Discard, MakeConnection
<1>11. ASSUME NEW s \in Streams, LookedUpConnect(s)
      PROVE  hz' = {} => hz = {}
  BY <1>11 DEF LookedUpConnect, LookupFails, Discard
<1>12. ASSUME NEW s \in Streams, Connected(s)
      PROVE  hz' = {} => hz = {}
  BY <1>12 DEF Connected, Discard, MakeConnection
<1>13. ASSUME NEW s \in Streams, Written(s)
      PROVE  hz' = {} => hz = {}
  BY <1>13 DEF Written
<1>14. ASSUME NEW s \in Streams, Closed(s)
      PROVE  hz' = {} => hz = {}
  BY <1>14 DEF Closed
<1>15. ASSUME NEW s \in Streams, Discarded(s)
      PROVE  hz' = {} => hz = {}
  BY <1>15 DEF Discarded
<1>16. CASE WrittenPop
  BY <1>16 DEF WrittenPop
<1>17. CASE ClosedErase
  BY <1>17 DEF ClosedErase
<1>18. CASE Received
  BY <1>18 DEF Received
<1>19. CASE PoolEmpty
  BY <1>19 DEF PoolEmpty
<1>20. CASE CloseEnd
  BY <1>20 DEF CloseEnd
<1>21. ASSUME NEW l \in Streams, NEW s \in Unused, NEW f \in FreeFds, Accept(l, s, f)
      PROVE  hz' = {} => hz = {}
  BY <1>21 DEF Accept, Discard, MakeConnection
<1>22. ASSUME NEW s \in Streams, Receive(s)
      PROVE  hz' = {} => hz = {}
  BY <1>22 DEF Receive
<1> QED
  BY <1>1, <1>2, <1>3, <1>4, <1>5, <1>6, <1>7, <1>8, <1>9, <1>10, <1>11, <1>12, <1>13, <1>14,
     <1>15, <1>16, <1>17, <1>18, <1>19, <1>20, <1>21, <1>22
     DEF Next, User, Loop, Report, Return, Network

-----------------------------------------------------------------------------
\* The inductive invariant, which TypeOK and the rest of it follow from.
IInv == Types /\ AlwaysInv /\ QuietInv

\* The parts are all of TypeOK.
LEMMA TypeParts == TypeOK <=> Types /\ active \in Nat
<1>1. Filed \subseteq Streams <=> \A f \in DOMAIN pool : pool[f] \in Streams
  BY DEF Filed
<1> QED BY <1>1 DEF TypeOK, Types, HandlesOK, PoolOK, QueuesOK, ChannelOK, Runs

\* A new channel.
LEMMA InitInv == Init => IInv
<1> SUFFICES ASSUME Init PROVE IInv
  OBVIOUS
<1>1. /\ stage = [s \in Streams |-> "none"] /\ uv = [s \in Streams |-> <<>>]
      /\ told = [s \in Streams |-> "no"] /\ DOMAIN pool = {} /\ running = Idle
      /\ active = 0 /\ phase = "open" /\ hz = {}
  BY DEF Init
<1>2. Types
  <2>1. (CHOOSE f \in Fds : TRUE) \in Fds
    BY StreamAssumption
  <2>2. fd \in [Streams -> Fds]
    BY <2>1 DEF Init
  <2>3. HandlesOK
    BY <2>2, SendAssumption DEF Init, HandlesOK, Stages, Told
  <2>4. QueuesOK
    <3>1. <<>> \in Seq(1 .. 0)
      OBVIOUS
    <3> QED BY <3>1 DEF Init, QueuesOK
  <2>5. PoolOK /\ ChannelOK
    BY <1>1, IdleOK DEF Init, PoolOK, ChannelOK
  <2> QED BY <2>3, <2>4, <2>5 DEF Types
<1>3. CountRight
  <2>1. \A s \in Streams : Pending[s] = {}
    BY <1>1, PendingOf DEF Asking
  <2>2. Requests = {}
    BY <2>1, InPairs DEF Requests
  <2> QED BY <1>1, <2>2, FS_EmptySet DEF CountRight, Counted, Exact
<1>4. FiledRight /\ RunningRight /\ WriteQueuesAgree
  BY <1>1 DEF FiledRight, RunningRight, WriteQueuesAgree, Idle
<1>5. Quiet
  BY <1>1, StreamAssumption DEF Quiet, AllFiled, OneClosed, OnlyConnectionsWrite, ToldRight,
     ClosingRight, Idle, Connections, Asking
<1> QED BY <1>2, <1>3, <1>4, <1>5 DEF IInv, AlwaysInv, QuietInv

\* Every step keeps the invariant.
LEMMA NextInv == IInv /\ [Next]_vars => IInv'
<1> SUFFICES ASSUME IInv, [Next]_vars PROVE IInv'
  OBVIOUS
<1>1. CASE Next
  <2>1. Types /\ FiledRight /\ RunningRight /\ WriteQueuesAgree /\ CountRight /\ (hz = {} => Quiet)
    BY DEF IInv, AlwaysInv, QuietInv
  <2>2. Types'
    BY <1>1, <2>1, HandlesStep, PoolStep, ChannelStep, QueuesStep DEF Types
  <2>3. hz = {} => OnlyConnectionsWrite
    BY <2>1 DEF Quiet
  <2>4. AlwaysInv'
    BY <1>1, <2>1, <2>3, FiledStep, RunningStep, AgreeStep, CountStep DEF AlwaysInv
  <2>5. ASSUME hz' = {} PROVE Quiet'
    <3>1. hz = {}
      BY <1>1, <2>5, WindowsStep
    <3> QED BY <1>1, <2>1, <2>5, <3>1, AllFiledStep, OneClosedStep, OnlyConnectionsWriteStep,
               ToldRightStep, ClosingRightStep
            DEF Quiet
  <2> QED BY <2>2, <2>4, <2>5 DEF IInv, QuietInv
<1>2. CASE UNCHANGED vars
  <2>1. Types'
    BY <1>2 DEF vars, conns, write, IInv, Types, HandlesOK, PoolOK, QueuesOK, ChannelOK
  <2>2. FiledRight' /\ RunningRight' /\ WriteQueuesAgree'
    BY <1>2 DEF vars, conns, write, IInv, AlwaysInv, FiledRight, RunningRight, WriteQueuesAgree,
       Reported
  <2>3. CountRight'
    BY <1>2, CountKept DEF vars, conns, write, IInv, AlwaysInv
  <2>4. QuietInv'
    BY <1>2 DEF vars, conns, write, IInv, QuietInv, Quiet, AllFiled, OneClosed,
       OnlyConnectionsWrite, ToldRight, ClosingRight
  <2> QED BY <2>1, <2>2, <2>3, <2>4 DEF IInv, AlwaysInv
<1> QED BY <1>1, <1>2

\* The pool, the callback that is running, the write queues, the counter and what
\* the user was told agree, in every behaviour of one io channel.
THEOREM StreamsCoherent == Spec => []IInv
  BY InitInv, NextInv, PTL DEF Spec

\* Every variable keeps its type; active_reqs, which is lowered in callbacks,
\* never goes below zero, also when a descriptor is given out again too early.
THEOREM TypeCorrect == Spec => []TypeOK
<1>1. IInv => TypeOK
  BY TypeParts DEF IInv, AlwaysInv, CountRight
<1> QED BY <1>1, StreamsCoherent, PTL

\* The blocks io_stream_on_written_fn finds are those of the writes libuv reports.
THEOREM QueuesAgree == Spec => []WriteQueuesAgree
<1>1. IInv => WriteQueuesAgree
  BY DEF IInv, AlwaysInv
<1> QED BY <1>1, StreamsCoherent, PTL

\* When io_stream_close has returned no connection and no request is left, and
\* the user knows the end of all of them.
THEOREM CloseLeavesNothing == Spec => []ClosedIsQuiet
<1>1. ASSUME IInv, hz = {}, phase = "closed"
      PROVE  /\ DOMAIN pool = {} /\ active = 0
             /\ \A s \in Streams : stage[s] \in {"none", "discard"} /\ told[s] \notin {"asked", "open"}
  <2>1. Types /\ CountRight /\ AllFiled /\ OnlyConnectionsWrite /\ ToldRight /\ ClosingRight
    BY <1>1 DEF IInv, AlwaysInv, QuietInv, Quiet
  <2>2. DOMAIN pool = {} /\ \A s \in Streams : stage[s] \notin Asking
    BY <1>1, <2>1 DEF ClosingRight
  <2>3. \A s \in Streams : stage[s] \in {"none", "discard"}
    BY <2>1, <2>2 DEF AllFiled, Connections, Asking, Types, HandlesOK, Stages
  <2>4. \A s \in Streams : told[s] \notin {"asked", "open"}
    BY <2>1, <2>2, <2>3 DEF ToldRight
  <2>5. \A s \in Streams : uv[s] = <<>>
    BY <2>1, <2>3 DEF OnlyConnectionsWrite
  <2>6. \A s \in Streams : Pending[s] = {}
    BY <2>2, <2>5, PendingOf
  <2>7. Requests = {}
    BY <2>6, InPairs DEF Requests
  <2>8. active = 0
    BY <1>1, <2>1, <2>7, FS_EmptySet DEF CountRight, Exact
  <2> QED BY <2>2, <2>3, <2>4, <2>8
<1>2. IInv => ClosedIsQuiet
  BY <1>1 DEF ClosedIsQuiet
<1> QED BY <1>2, StreamsCoherent, PTL

\* Every request is answered once, every connection reported open once and gone
\* once.
THEOREM ReportsOnce == Spec => ReportedOnce
<1>1. IInv /\ [Next]_vars => [\A s \in Streams : hz = {} /\ told[s] # told'[s] => ToldNext(s)]_vars
  <2> SUFFICES ASSUME IInv, Next, NEW s \in Streams, hz = {}, told[s] # told'[s]
               PROVE  ToldNext(s)
    OBVIOUS
  <2>1. Types /\ FiledRight /\ Quiet
    BY DEF IInv, AlwaysInv, QuietInv
  <2> QED BY <2>1, OrderStep
<1> QED BY <1>1, StreamsCoherent, PTL DEF Spec, ReportedOnce

(***************************************************************************)
(* The bytes of one stream.                                                *)
(***************************************************************************)
\* Every set of natural numbers has a least one.
LEMMA LeastElement ==
  ASSUME NEW T, T \subseteq Nat, T # {}
  PROVE  \E x \in T : \A y \in T : x <= y
<1> DEFINE R == OpToRel(<, Nat)
<1>1. \E x \in T : \A y \in T : ~ (<<y, x>> \in R)
  <2>1. IsWellFoundedOn(R, Nat)
    BY NatLessThanWellFounded
  <2> HIDE DEF R
  <2> QED BY <2>1, WFMin
<1>2. \A x, y \in Nat : <<y, x>> \in R <=> y < x
  BY DEF OpToRel
<1> HIDE DEF R
<1>3. PICK x \in T : \A y \in T : ~ (<<y, x>> \in R)
  BY <1>1
<1>4. x \in Nat /\ \A y \in T : y \in Nat /\ ~(y < x)
  BY <1>2, <1>3, Zenon
<1>5. \A y \in T : x <= y
  BY <1>4
<1> QED BY <1>5

\* A number that is in S when all smaller ones are is in S.
LEMMA FromBelow ==
  ASSUME NEW S, S \subseteq Nat, \A n \in Nat : 0 .. n - 1 \subseteq S => n \in S
  PROVE  S = Nat
<1> SUFFICES ASSUME Nat \ S # {} PROVE FALSE
  OBVIOUS
<1>1. PICK x \in Nat \ S : \A y \in Nat \ S : x <= y
  BY LeastElement
<1>2. 0 .. x - 1 \subseteq S
  BY <1>1
<1> QED BY <1>1, <1>2

\* A function on 0 .. n that computes each value from those before it exists.
Looks(G, n, X) ==
  /\ G \in [[0 .. n -> X] \X (0 .. n) -> X]
  /\ \A f, g \in [0 .. n -> X], i \in 0 .. n :
       (\A j \in 0 .. i - 1 : f[j] = g[j]) => G[<<f, i>>] = G[<<g, i>>]

Solves(f, G, n, X) == f \in [0 .. n -> X] /\ \A i \in 0 .. n : f[i] = G[<<f, i>>]

LEMMA RecursionExists ==
  ASSUME NEW n \in Nat, NEW X, X # {}, NEW G, Looks(G, n, X)
  PROVE  \E f : Solves(f, G, n, X)
<1> DEFINE Upto(f, k) == \A i \in 0 .. k - 1 : f[i] = G[<<f, i>>]
           S == {k \in Nat : k <= n + 1 => \E f \in [0 .. n -> X] : Upto(f, k)}
<1>1. ASSUME NEW k \in Nat, 0 .. k - 1 \subseteq S PROVE k \in S
  <2> SUFFICES ASSUME k <= n + 1 PROVE \E f \in [0 .. n -> X] : Upto(f, k)
    OBVIOUS
  <2>1. CASE k = 0
    <3>1. PICK x \in X : TRUE
      OBVIOUS
    <3>2. [i \in 0 .. n |-> x] \in [0 .. n -> X]
      OBVIOUS
    <3>3. \A f : Upto(f, k)
      BY <2>1
    <3> QED BY <3>2, <3>3
  <2>2. CASE k > 0
    <3>1. k - 1 \in S /\ k - 1 \in Nat /\ k - 1 \in 0 .. n
      BY <1>1, <2>2
    <3>2. PICK f \in [0 .. n -> X] : Upto(f, k - 1)
      BY <3>1
    <3>3. G[<<f, k - 1>>] \in X
      BY <3>1 DEF Looks
    <3> DEFINE h == [f EXCEPT ![k - 1] = G[<<f, k - 1>>]]
    <3>4. /\ h \in [0 .. n -> X] /\ h[k - 1] = G[<<f, k - 1>>]
          /\ \A i \in 0 .. n : i # k - 1 => h[i] = f[i]
      BY <3>1, <3>3
    <3> HIDE DEF h
    <3>5. ASSUME NEW i \in 0 .. k - 1 PROVE h[i] = G[<<h, i>>]
      <4>1. i \in 0 .. n /\ \A j \in 0 .. i - 1 : h[j] = f[j]
        BY <3>1, <3>4
      <4>2. G[<<h, i>>] = G[<<f, i>>]
        BY <3>4, <4>1 DEF Looks
      <4>3. CASE i = k - 1
        BY <3>4, <4>2, <4>3
      <4>4. CASE i # k - 1
        BY <3>2, <3>4, <4>1, <4>2, <4>4
      <4> QED BY <4>3, <4>4
    <3> QED BY <3>4, <3>5
  <2> QED BY <2>1, <2>2
<1>2. S = Nat
  <2>1. S \subseteq Nat
    OBVIOUS
  <2> HIDE DEF S
  <2> QED BY <1>1, <2>1, FromBelow
<1>3. \E f \in [0 .. n -> X] : Upto(f, n + 1)
  <2>1. n + 1 \in S
    <3> HIDE DEF S
    <3> QED BY <1>2
  <2> QED BY <2>1
<1>4. 0 .. n = 0 .. (n + 1) - 1
  OBVIOUS
<1> QED BY <1>3, <1>4 DEF Solves

-----------------------------------------------------------------------------
DigitType == [more : BOOLEAN, digit : Nat]

\* val[i] is the number the first i digits of d stand for.
Values(val, d) == val[0] = 0 /\ \A i \in 1 .. Len(d) : val[i] = val[i - 1] * Base + d[i].digit
Means(d, n)    == \A val : Values(val, d) => val[Len(d)] = n

LEMMA DivMod ==
  ASSUME NEW b \in Nat \ {0}, NEW n \in Nat
  PROVE  n \div b \in Nat /\ n % b \in Nat /\ n = b * (n \div b) + (n % b)
OBVIOUS

LEMMA Twice ==
  ASSUME NEW b \in Nat, NEW q \in Nat, b >= 2
  PROVE  b * q >= q + q
<1>1. b * q = (b - 2) * q + 2 * q
  OBVIOUS
<1>2. (b - 2) * q >= 0
  OBVIOUS
<1> QED BY <1>1, <1>2

LEMMA Smaller ==
  ASSUME Sizes, NEW n \in Nat
  PROVE  /\ n \div Base \in Nat /\ n \div Base <= n /\ (n > 0 => n \div Base < n)
         /\ n % Base \in Nat /\ (n \div Base) * Base + (n % Base) = n
<1>1. Base \in Nat \ {0} /\ Base >= 2
  BY DEF Sizes
<1> DEFINE q == n \div Base
           r == n % Base
<1>2. q \in Nat /\ r \in Nat /\ n = Base * q + r
  BY <1>1, DivMod
<1> HIDE DEF q, r
<1>3. Base * q >= q + q
  BY <1>1, <1>2, Twice
<1>4. q * Base = Base * q
  BY <1>1, <1>2
<1>5. q <= n /\ (n > 0 => q < n)
  <2>1. PICK w : w = Base * q
    OBVIOUS
  <2>2. w \in Int
    BY <1>1, <1>2, <2>1
  <2> QED BY <1>2, <1>3, <2>1, <2>2
<1> QED BY <1>2, <1>4, <1>5 DEF q, r

\* Only the last digit is unmarked.
LastOnly(d) == \A i \in 1 .. Len(d) : d[i].more <=> i # Len(d)

\* A digit more.
LEMMA OneDigitMore ==
  ASSUME Sizes, NEW s \in Seq(DigitType), NEW n \in Nat, Means(s, n \div Base),
         NEW e \in DigitType, e.digit = n % Base
  PROVE  Append(s, e) \in Seq(DigitType) /\ Means(Append(s, e), n)
<1>1. PICK t : t = Append(s, e)
  OBVIOUS
<1>2. /\ t \in Seq(DigitType) /\ Len(t) = Len(s) + 1 /\ t[Len(s) + 1] = e /\ Len(s) \in Nat
      /\ \A i \in 1 .. Len(s) : t[i] = s[i]
  BY <1>1, AppendProperties
<1>3. ASSUME NEW val, Values(val, t) PROVE val[Len(t)] = n
  <2>1. Values(val, s)
    BY <1>2, <1>3 DEF Values
  <2>2. val[Len(s)] = n \div Base
    BY <2>1 DEF Means
  <2>3. Len(s) + 1 \in 1 .. Len(t) /\ (Len(s) + 1) - 1 = Len(s)
    BY <1>2
  <2>4. val[Len(t)] = (n \div Base) * Base + (n % Base)
    BY <1>2, <1>3, <2>2, <2>3 DEF Values
  <2> QED BY <2>4, Smaller
<1> QED BY <1>1, <1>2, <1>3 DEF Means


\* The digits of a number: only the last is unmarked, and they mean the number.
LEMMA DigitsMean ==
  ASSUME Sizes, NEW n \in Nat
  PROVE  /\ Digits(n) \in Seq(DigitType) /\ Len(Digits(n)) > 0
         /\ LastOnly(Digits(n)) /\ Means(Digits(n), n)
<1> DEFINE X == Seq(DigitType)
           Mark(f, m) == IF m = 0 THEN <<>>
                         ELSE Append(f[m \div Base], [more |-> TRUE, digit |-> m % Base])
           G == [z \in [0 .. n -> X] \X (0 .. n) |-> Mark(z[1], z[2])]
<1>1. Looks(G, n, X)
  <2>1. ASSUME NEW f \in [0 .. n -> X], NEW m \in 0 .. n
        PROVE  Mark(f, m) \in X /\ G[<<f, m>>] = Mark(f, m)
    <3>1. CASE m = 0
      BY <3>1
    <3>2. CASE m # 0
      <4>1. m \div Base \in 0 .. n /\ m % Base \in Nat
        <5>1. m \in Nat /\ m <= n
          OBVIOUS
        <5>2. m \div Base \in Nat /\ m \div Base <= m /\ m % Base \in Nat
          BY <5>1, Smaller
        <5> QED BY <5>1, <5>2
      <4>2. f[m \div Base] \in X /\ [more |-> TRUE, digit |-> m % Base] \in DigitType
        BY <4>1 DEF DigitType
      <4> QED BY <3>2, <4>2, AppendProperties
    <3> QED BY <3>1, <3>2
  <2>2. ASSUME NEW f \in [0 .. n -> X], NEW g \in [0 .. n -> X], NEW m \in 0 .. n,
               \A j \in 0 .. m - 1 : f[j] = g[j]
        PROVE  Mark(f, m) = Mark(g, m)
    <3>1. CASE m = 0
      BY <3>1
    <3>2. CASE m # 0
      <4>1. m \div Base \in 0 .. m - 1
        <5>1. m \in Nat /\ m > 0
          BY <3>2
        <5>2. m \div Base \in Nat /\ m \div Base < m
          BY <5>1, Smaller
        <5> QED BY <5>1, <5>2
      <4>2. f[m \div Base] = g[m \div Base]
        BY <2>2, <4>1
      <4> QED BY <4>2
    <3> QED BY <3>1, <3>2
  <2> HIDE DEF Mark
  <2>3. G \in [[0 .. n -> X] \X (0 .. n) -> X]
    BY <2>1
  <2> HIDE DEF G, X
  <2>4. ASSUME NEW f \in [0 .. n -> X], NEW g \in [0 .. n -> X], NEW m \in 0 .. n,
               \A j \in 0 .. m - 1 : f[j] = g[j]
        PROVE  G[<<f, m>>] = G[<<g, m>>]
    <3>1. G[<<f, m>>] = Mark(f, m) /\ G[<<g, m>>] = Mark(g, m)
      BY <2>1
    <3>2. Mark(f, m) = Mark(g, m)
      BY <2>2, <2>4
    <3> QED BY <3>1, <3>2
  <2> QED BY <2>3, <2>4 DEF Looks
<1>2. X # {}
  BY EmptySeq
<1>3. PICK f \in [0 .. n -> X] : \A m \in 0 .. n : f[m] = Mark(f, m)
  <2> HIDE DEF Mark, X, G
  <2>1. PICK f \in [0 .. n -> X] : \A m \in 0 .. n : f[m] = G[<<f, m>>]
    <3>1. PICK x, g : x = X /\ g = G
      OBVIOUS
    <3>2. Looks(g, n, x) /\ x # {}
      BY <1>1, <1>2, <3>1
    <3>3. \E f : Solves(f, g, n, x)
      BY <3>2, RecursionExists
    <3> QED BY <3>1, <3>3 DEF Solves
  <2>2. \A m \in 0 .. n : G[<<f, m>>] = Mark(f, m)
    BY DEF G
  <2> QED BY <2>1, <2>2
<1>4. f = [m \in 0 .. n |-> IF m = 0 THEN <<>>
            ELSE Append(f[m \div Base], [more |-> TRUE, digit |-> m % Base])]
  BY <1>3
<1> DEFINE rest == CHOOSE h : h = [m \in 0 .. n |-> IF m = 0 THEN <<>>
            ELSE Append(h[m \div Base], [more |-> TRUE, digit |-> m % Base])]
<1>5. rest = [m \in 0 .. n |-> IF m = 0 THEN <<>>
            ELSE Append(rest[m \div Base], [more |-> TRUE, digit |-> m % Base])]
  BY <1>4
<1>6. Digits(n) = Append(rest[n \div Base], [more |-> FALSE, digit |-> n % Base])
  BY DEF Digits
<1> HIDE DEF rest, X, G, Mark
<1> DEFINE Good(m) == /\ rest[m] \in Seq(DigitType) /\ Means(rest[m], m)
                      /\ \A i \in 1 .. Len(rest[m]) : rest[m][i].more
           S == {m \in Nat : m <= n => Good(m)}
<1>7. ASSUME NEW m \in Nat, 0 .. m - 1 \subseteq S PROVE m \in S
  <2> SUFFICES ASSUME m <= n PROVE Good(m)
    OBVIOUS
  <2>1. m \in 0 .. n
    OBVIOUS
  <2>2. CASE m = 0
    <3>1. rest[m] = <<>>
      BY <1>5, <2>1, <2>2
    <3>2. Means(<<>>, 0)
      BY DEF Means, Values
    <3> QED BY <2>2, <3>1, <3>2
  <2>3. CASE m # 0
    <3>1. PICK q, e : q = m \div Base /\ e = [more |-> TRUE, digit |-> m % Base]
      OBVIOUS
    <3>2. q \in 0 .. m - 1 /\ q <= n
      <4>1. m > 0
        BY <2>3
      <4>2. q \in Nat /\ q < m
        BY <3>1, <4>1, Smaller
      <4> QED BY <4>2
    <3>3. Good(q)
      BY <1>7, <3>2
    <3>4. e \in DigitType /\ e.more /\ e.digit = m % Base
      BY <3>1, Smaller DEF DigitType
    <3>5. rest[m] = Append(rest[q], e)
      BY <1>5, <2>1, <2>3, <3>1
    <3>6. PICK s : s = rest[q]
      OBVIOUS
    <3>7. s \in Seq(DigitType) /\ Means(s, m \div Base) /\ \A i \in 1 .. Len(s) : s[i].more
      BY <3>1, <3>3, <3>6
    <3>8. Append(s, e) \in Seq(DigitType) /\ Means(Append(s, e), m)
      BY <3>4, <3>7, OneDigitMore
    <3>9. \A i \in 1 .. Len(Append(s, e)) : Append(s, e)[i].more
      BY <3>4, <3>7, AppendProperties
    <3> QED BY <3>5, <3>6, <3>8, <3>9
  <2> QED BY <2>2, <2>3
<1>8. S = Nat
  <2>1. S \subseteq Nat
    OBVIOUS
  <2> HIDE DEF S
  <2> QED BY <1>7, <2>1, FromBelow
<1>9. PICK q, e, s : /\ q = n \div Base /\ e = [more |-> FALSE, digit |-> n % Base]
                     /\ s = rest[q]
  OBVIOUS
<1>10. q \in Nat /\ q <= n
  BY <1>9, Smaller
<1>11. Good(q)
  BY <1>8, <1>10
<1>12. s \in Seq(DigitType) /\ Means(s, n \div Base) /\ \A i \in 1 .. Len(s) : s[i].more
  BY <1>9, <1>11
<1>13. e \in DigitType /\ ~e.more /\ e.digit = n % Base
  BY <1>9, Smaller DEF DigitType
<1>14. Append(s, e) \in Seq(DigitType) /\ Means(Append(s, e), n)
  BY <1>12, <1>13, OneDigitMore
<1>15. /\ Len(Append(s, e)) = Len(s) + 1 /\ Len(s) \in Nat
       /\ \A i \in 1 .. Len(Append(s, e)) : Append(s, e)[i].more <=> i # Len(Append(s, e))
  BY <1>12, <1>13, AppendProperties
<1>16. Digits(n) = Append(s, e)
  BY <1>6, <1>9
<1> QED BY <1>14, <1>15, <1>16 DEF LastOnly

\* A number computed in n steps, each from the one before.
Counts(g, h, n) ==
  g \in [0 .. n -> Nat] /\ g[0] = 0 /\ \A i \in 1 .. n : g[i] = h[<<g[i - 1], i>>]

LEMMA CountExists ==
  ASSUME NEW n \in Nat, NEW h \in [Nat \X (1 .. n) -> Nat]
  PROVE  \E g : Counts(g, h, n)
<1> DEFINE Pick(f, i) == IF i = 0 THEN 0 ELSE h[<<f[i - 1], i>>]
           G == [z \in [0 .. n -> Nat] \X (0 .. n) |-> Pick(z[1], z[2])]
<1>1. ASSUME NEW f \in [0 .. n -> Nat], NEW i \in 0 .. n
      PROVE  Pick(f, i) \in Nat /\ G[<<f, i>>] = Pick(f, i)
  <2>1. CASE i = 0
    BY <2>1
  <2>2. CASE i # 0
    <3>1. i \in 1 .. n /\ i - 1 \in 0 .. n
      BY <2>2
    <3>2. f[i - 1] \in Nat
      BY <3>1
    <3>3. h[<<f[i - 1], i>>] \in Nat
      BY <3>1, <3>2
    <3> QED BY <2>2, <3>3
  <2> QED BY <2>1, <2>2
<1>2. ASSUME NEW f \in [0 .. n -> Nat], NEW g \in [0 .. n -> Nat], NEW i \in 0 .. n,
             \A j \in 0 .. i - 1 : f[j] = g[j]
      PROVE  G[<<f, i>>] = G[<<g, i>>]
  <2>1. Pick(f, i) = Pick(g, i)
    <3>1. CASE i = 0
      BY <3>1
    <3>2. CASE i # 0
      <4>1. i - 1 \in 0 .. i - 1
        BY <3>2
      <4> QED BY <1>2, <4>1
    <3> QED BY <3>1, <3>2
  <2> HIDE DEF Pick, G
  <2>2. G[<<f, i>>] = Pick(f, i) /\ G[<<g, i>>] = Pick(g, i)
    BY <1>1
  <2> QED BY <2>1, <2>2
<1>3. Looks(G, n, Nat)
  <2> HIDE DEF Pick
  <2>1. G \in [[0 .. n -> Nat] \X (0 .. n) -> Nat]
    BY <1>1
  <2> HIDE DEF G
  <2> QED BY <1>2, <2>1 DEF Looks
<1> HIDE DEF Pick, G
<1>4. PICK g : Solves(g, G, n, Nat)
  BY <1>3, RecursionExists
<1>5. g \in [0 .. n -> Nat] /\ \A i \in 0 .. n : g[i] = Pick(g, i)
  BY <1>1, <1>4 DEF Solves
<1>6. g[0] = 0
  <2>1. 0 \in 0 .. n
    OBVIOUS
  <2> QED BY <1>5, <2>1 DEF Pick
<1>7. ASSUME NEW i \in 1 .. n PROVE g[i] = h[<<g[i - 1], i>>]
  <2>1. i \in 0 .. n /\ i # 0
    OBVIOUS
  <2> QED BY <1>5, <2>1 DEF Pick
<1> QED BY <1>5, <1>6, <1>7 DEF Counts

\* Its values, one by one.
LEMMA CountSteps ==
  ASSUME NEW n \in Nat, NEW h, NEW g, Counts(g, h, n)
  PROVE  /\ g \in [0 .. n -> Nat]
         /\ \A i \in 0 .. n : g[i] = IF i = 0 THEN 0 ELSE h[<<g[i - 1], i>>]
         /\ \A i \in 0 .. n : i # 0 => i \in 1 .. n /\ g[i - 1] \in Nat
<1>1. g \in [0 .. n -> Nat] /\ g[0] = 0 /\ \A i \in 1 .. n : g[i] = h[<<g[i - 1], i>>]
  BY DEF Counts
<1>2. ASSUME NEW i \in 0 .. n, i # 0 PROVE i \in 1 .. n /\ g[i - 1] \in Nat
  <2>1. i \in 1 .. n /\ i - 1 \in 0 .. n
    BY <1>2
  <2> QED BY <1>1, <2>1
<1>3. \A i \in 0 .. n : g[i] = IF i = 0 THEN 0 ELSE h[<<g[i - 1], i>>]
  BY <1>1, <1>2
<1> QED BY <1>1, <1>2, <1>3

\* A number is read from its digits.
LEMMA ReadsVint ==
  ASSUME Sizes, NEW d \in Seq(DigitType), Len(d) > 0, LastOnly(d), NEW n, Means(d, n)
  PROVE  ReadVint(d) = [size |-> Len(d), val |-> n]
<1>0. PICK l : l = Len(d)
  OBVIOUS
<1>1. l \in Nat /\ l > 0 /\ DOMAIN d = 1 .. l /\ \A i \in 1 .. l : d[i].digit \in Nat
  <2>1. l \in Nat /\ DOMAIN d = 1 .. l
    BY <1>0, LenProperties
  <2>2. \A i \in 1 .. l : d[i] \in DigitType
    BY <1>0, ElementOfSeq
  <2> QED BY <1>0, <2>1, <2>2 DEF DigitType
<1> DEFINE h == [z \in Nat \X (1 .. l) |-> z[1] * Base + d[z[2]].digit]
<1>2. Base \in Nat
  BY DEF Sizes
<1>3. /\ h \in [Nat \X (1 .. l) -> Nat]
      /\ \A x \in Nat, i \in 1 .. l : h[<<x, i>>] = x * Base + d[i].digit
  <2>1. \A x \in Nat, i \in 1 .. l : x * Base + d[i].digit \in Nat
    BY <1>1, <1>2
  <2> QED BY <2>1
<1> HIDE DEF h
<1>4. PICK g : Counts(g, h, l)
  BY <1>1, <1>3, CountExists
<1>5. /\ g \in [0 .. l -> Nat]
      /\ \A i \in 0 .. l : g[i] = IF i = 0 THEN 0 ELSE g[i - 1] * Base + d[i].digit
  <2>1. /\ g \in [0 .. l -> Nat]
        /\ \A i \in 0 .. l : g[i] = IF i = 0 THEN 0 ELSE h[<<g[i - 1], i>>]
        /\ \A i \in 0 .. l : i # 0 => i \in 1 .. l /\ g[i - 1] \in Nat
    BY <1>1, <1>4, CountSteps
  <2>2. ASSUME NEW i \in 0 .. l, i # 0 PROVE h[<<g[i - 1], i>>] = g[i - 1] * Base + d[i].digit
    <3>1. i \in 1 .. l /\ g[i - 1] \in Nat
      BY <2>1, <2>2
    <3> QED BY <1>3, <3>1
  <2> QED BY <2>1, <2>2
<1>6. g = [i \in 0 .. Len(d) |-> IF i = 0 THEN 0 ELSE g[i - 1] * Base + d[i].digit]
  BY <1>0, <1>5
<1> DEFINE val == CHOOSE f : f = [i \in 0 .. Len(d) |-> IF i = 0 THEN 0 ELSE f[i - 1] * Base + d[i].digit]
           ends == {i \in DOMAIN d : ~d[i].more}
<1>7. val = [i \in 0 .. Len(d) |-> IF i = 0 THEN 0 ELSE val[i - 1] * Base + d[i].digit]
  BY <1>6
<1>8. ReadVint(d) = IF ends = {} THEN NoVint ELSE [size |-> Min(ends), val |-> val[Min(ends)]]
  BY DEF ReadVint
<1> HIDE DEF val
<1>9. \A i \in 0 .. l : val[i] = IF i = 0 THEN 0 ELSE val[i - 1] * Base + d[i].digit
  BY <1>0, <1>7
<1>10. Values(val, d)
  <2>1. 0 \in 0 .. l /\ \A i \in 1 .. l : i \in 0 .. l /\ i # 0
    BY <1>1
  <2> QED BY <1>0, <1>9, <2>1 DEF Values
<1>11. val[l] = n
  BY <1>0, <1>10 DEF Means
<1>12. ends = {l}
  BY <1>0, <1>1 DEF LastOnly
<1> HIDE DEF ends
<1>13. Min(ends) = l
  BY <1>1, <1>12 DEF Min
<1> QED BY <1>0, <1>8, <1>11, <1>12, <1>13

\* Of marked digits alone nothing is read.
LEMMA ReadsNothing ==
  ASSUME NEW d, \A i \in DOMAIN d : d[i].more
  PROVE  ReadVint(d) = NoVint
<1> DEFINE ends == {i \in DOMAIN d : ~d[i].more}
<1>1. ends = {}
  OBVIOUS
<1> QED BY <1>1 DEF ReadVint

-----------------------------------------------------------------------------
MsgType == [len : Lengths, good : BOOLEAN]

LEMMA MsgSizes ==
  ASSUME Sizes, NEW m, m.len \in Nat
  PROVE  /\ HeaderOf(m) \in Nat /\ HeaderOf(m) > Crc /\ Crc \in Nat
         /\ HeaderOf(m) = Crc + Len(Digits(m.len)) /\ Len(Digits(m.len)) \in Nat \ {0}
         /\ SizeOf(m) = HeaderOf(m) + m.len /\ SizeOf(m) \in Nat
<1>1. Crc \in Nat
  BY DEF Sizes
<1>2. Len(Digits(m.len)) \in Nat \ {0}
  <2>1. PICK d : d = Digits(m.len)
    OBVIOUS
  <2>2. d \in Seq(DigitType) /\ Len(d) > 0
    BY <2>1, DigitsMean
  <2>3. Len(d) \in Nat
    BY <2>2, LenProperties
  <2> QED BY <2>1, <2>2, <2>3
<1> QED BY <1>1, <1>2 DEF HeaderOf, SizeOf, WriteVint

\* Where the messages of s end.
LEMMA EndSteps ==
  ASSUME Sizes, NEW s \in Seq(MsgType)
  PROVE  /\ \A k \in 0 .. Len(s) : EndIn(s, k) \in Nat
         /\ EndIn(s, 0) = 0
         /\ \A k \in 1 .. Len(s) : EndIn(s, k) = EndIn(s, k - 1) + SizeOf(s[k])
<1>0. PICK n : n = Len(s)
  OBVIOUS
<1>1. n \in Nat /\ \A i \in 1 .. n : SizeOf(s[i]) \in Nat
  <2>1. n \in Nat
    BY <1>0, LenProperties
  <2>2. \A i \in 1 .. n : s[i] \in MsgType
    BY <1>0, ElementOfSeq
  <2>3. \A i \in 1 .. n : s[i].len \in Nat
    BY <2>2 DEF MsgType, Sizes
  <2> QED BY <2>1, <2>3, MsgSizes
<1> DEFINE h == [z \in Nat \X (1 .. n) |-> z[1] + SizeOf(s[z[2]])]
<1>2. /\ h \in [Nat \X (1 .. n) -> Nat]
      /\ \A x \in Nat, i \in 1 .. n : h[<<x, i>>] = x + SizeOf(s[i])
  BY <1>1
<1> HIDE DEF h
<1>3. PICK g : Counts(g, h, n)
  BY <1>1, <1>2, CountExists
<1>4. /\ g \in [0 .. n -> Nat]
      /\ \A i \in 0 .. n : g[i] = IF i = 0 THEN 0 ELSE g[i - 1] + SizeOf(s[i])
  <2>1. /\ g \in [0 .. n -> Nat]
        /\ \A i \in 0 .. n : g[i] = IF i = 0 THEN 0 ELSE h[<<g[i - 1], i>>]
        /\ \A i \in 0 .. n : i # 0 => i \in 1 .. n /\ g[i - 1] \in Nat
    BY <1>1, <1>3, CountSteps
  <2>2. ASSUME NEW i \in 0 .. n, i # 0 PROVE h[<<g[i - 1], i>>] = g[i - 1] + SizeOf(s[i])
    <3>1. i \in 1 .. n /\ g[i - 1] \in Nat
      BY <2>1, <2>2
    <3> QED BY <1>2, <3>1
  <2> QED BY <2>1, <2>2
<1>5. g = [i \in 0 .. Len(s) |-> IF i = 0 THEN 0 ELSE g[i - 1] + SizeOf(s[i])]
  BY <1>0, <1>4
<1> DEFINE end == CHOOSE f : f = [i \in 0 .. Len(s) |-> IF i = 0 THEN 0 ELSE f[i - 1] + SizeOf(s[i])]
<1>6. end = [i \in 0 .. Len(s) |-> IF i = 0 THEN 0 ELSE end[i - 1] + SizeOf(s[i])]
  BY <1>5
<1>7. \A k : EndIn(s, k) = end[k]
  BY DEF EndIn
<1> HIDE DEF end
<1>8. \A i \in 0 .. n : end[i] = IF i = 0 THEN 0 ELSE end[i - 1] + SizeOf(s[i])
  BY <1>0, <1>6
<1>9. end[0] = 0 /\ \A i \in 1 .. n : end[i] = end[i - 1] + SizeOf(s[i])
  <2>1. 0 \in 0 .. n /\ \A i \in 1 .. n : i \in 0 .. n /\ i # 0
    BY <1>1
  <2> QED BY <1>8, <2>1
<1> DEFINE S == {k \in Nat : k <= n => end[k] \in Nat}
<1>10. ASSUME NEW k \in Nat, 0 .. k - 1 \subseteq S PROVE k \in S
  <2> SUFFICES ASSUME k <= n PROVE end[k] \in Nat
    OBVIOUS
  <2>1. CASE k = 0
    BY <1>9, <2>1
  <2>2. CASE k > 0
    <3>1. k \in 1 .. n /\ k - 1 \in 0 .. k - 1 /\ k - 1 <= n
      BY <1>1, <2>2
    <3>2. end[k - 1] \in Nat
      BY <1>10, <3>1
    <3> QED BY <1>1, <1>9, <3>1, <3>2
  <2> QED BY <2>1, <2>2
<1>11. S = Nat
  <2>1. S \subseteq Nat
    OBVIOUS
  <2> HIDE DEF S
  <2> QED BY <1>10, <2>1, FromBelow
<1>12. \A k \in 0 .. n : end[k] \in Nat
  BY <1>1, <1>11
<1> QED BY <1>0, <1>7, <1>9, <1>12

\* They end one behind the other.
LEMMA EndsInOrder ==
  ASSUME Sizes, NEW s \in Seq(MsgType), NEW j \in 0 .. Len(s), NEW k \in 0 .. Len(s), j < k
  PROVE  EndIn(s, j) < EndIn(s, k)
<1>0. PICK n : n = Len(s)
  OBVIOUS
<1>1. n \in Nat /\ j \in Nat /\ k \in Nat /\ j <= n /\ k <= n
  BY <1>0, LenProperties
<1>2. ASSUME NEW i \in Nat, i < n
      PROVE  EndIn(s, i) \in Nat /\ EndIn(s, i + 1) \in Nat /\ EndIn(s, i) < EndIn(s, i + 1)
  <2>1. i + 1 \in 1 .. n /\ i \in 0 .. n /\ i + 1 \in 0 .. n /\ (i + 1) - 1 = i
    BY <1>1, <1>2
  <2>2. EndIn(s, i) \in Nat /\ EndIn(s, i + 1) \in Nat /\ EndIn(s, i + 1) = EndIn(s, i) + SizeOf(s[i + 1])
    BY <1>0, <2>1, EndSteps
  <2>3. s[i + 1] \in MsgType
    BY <1>0, <2>1, ElementOfSeq
  <2>4. s[i + 1].len \in Nat
    BY <2>3 DEF MsgType, Sizes
  <2>5. SizeOf(s[i + 1]) \in Nat /\ SizeOf(s[i + 1]) > 0
    BY <2>4, MsgSizes
  <2> QED BY <2>2, <2>5
<1> DEFINE S == {i \in Nat : j < i /\ i <= n => EndIn(s, j) < EndIn(s, i)}
<1>3. ASSUME NEW i \in Nat, 0 .. i - 1 \subseteq S PROVE i \in S
  <2> SUFFICES ASSUME j < i, i <= n PROVE EndIn(s, j) < EndIn(s, i)
    OBVIOUS
  <2>1. i - 1 \in Nat /\ i - 1 < n /\ (i - 1) + 1 = i /\ i - 1 \in 0 .. i - 1
    BY <1>1
  <2>2. EndIn(s, i - 1) \in Nat /\ EndIn(s, i) \in Nat /\ EndIn(s, i - 1) < EndIn(s, i)
    BY <1>2, <2>1
  <2>3. CASE j = i - 1
    BY <2>2, <2>3
  <2>4. CASE j < i - 1
    <3>1. EndIn(s, j) < EndIn(s, i - 1)
      BY <1>1, <1>3, <2>1, <2>4
    <3>2. EndIn(s, j) \in Nat
      BY <1>0, EndSteps
    <3> QED BY <2>2, <3>1, <3>2
  <2> QED BY <1>1, <2>1, <2>3, <2>4
<1>4. S = Nat
  <2>1. S \subseteq Nat
    OBVIOUS
  <2> HIDE DEF S
  <2> QED BY <1>3, <2>1, FromBelow
<1> QED BY <1>1, <1>4

\* A message more does not move the others.
LEMMA EndsStay ==
  ASSUME Sizes, NEW s \in Seq(MsgType), NEW m \in MsgType, NEW k \in 0 .. Len(s)
  PROVE  EndIn(Append(s, m), k) = EndIn(s, k)
<1>0. PICK n, t : n = Len(s) /\ t = Append(s, m)
  OBVIOUS
<1>1. /\ n \in Nat /\ k \in Nat /\ k <= n /\ t \in Seq(MsgType) /\ Len(t) = n + 1
      /\ \A i \in 1 .. n : t[i] = s[i]
  BY <1>0, LenProperties, AppendProperties
<1> DEFINE S == {i \in Nat : i <= n => EndIn(t, i) = EndIn(s, i)}
<1>2. ASSUME NEW i \in Nat, 0 .. i - 1 \subseteq S PROVE i \in S
  <2> SUFFICES ASSUME i <= n PROVE EndIn(t, i) = EndIn(s, i)
    OBVIOUS
  <2>1. CASE i = 0
    BY <1>1, <2>1, EndSteps
  <2>2. CASE i > 0
    <3>1. i - 1 \in 0 .. i - 1 /\ i - 1 <= n /\ i \in 1 .. n /\ i \in 1 .. n + 1
      BY <1>1, <2>2
    <3>2. EndIn(t, i - 1) = EndIn(s, i - 1)
      BY <1>2, <3>1
    <3>3. EndIn(t, i) = EndIn(t, i - 1) + SizeOf(t[i]) /\ EndIn(s, i) = EndIn(s, i - 1) + SizeOf(s[i])
      BY <1>0, <1>1, <3>1, EndSteps
    <3> QED BY <1>1, <3>1, <3>2, <3>3
  <2> QED BY <2>1, <2>2
<1>3. S = Nat
  <2>1. S \subseteq Nat
    OBVIOUS
  <2> HIDE DEF S
  <2> QED BY <1>2, <2>1, FromBelow
<1> QED BY <1>0, <1>1, <1>3

-----------------------------------------------------------------------------
\* What stands where a message begins.
LEMMA AtBegin ==
  ASSUME Sizes, stream \in Seq(MsgType), NEW k \in 1 .. Len(stream)
  PROVE  At(EndOf(k - 1)) = stream[k]
<1> DEFINE T == {i \in DOMAIN stream : EndOf(i - 1) = EndOf(k - 1)}
<1>1. DOMAIN stream = 1 .. Len(stream) /\ Len(stream) \in Nat /\ k \in Nat
  BY LenProperties
<1>2. ASSUME NEW i \in 1 .. Len(stream), i # k PROVE EndOf(i - 1) # EndOf(k - 1)
  <2>1. i - 1 \in 0 .. Len(stream) /\ k - 1 \in 0 .. Len(stream) /\ (i - 1 < k - 1 \/ k - 1 < i - 1)
    BY <1>1, <1>2
  <2>2. EndIn(stream, i - 1) \in Nat /\ EndIn(stream, k - 1) \in Nat
    BY <2>1, EndSteps
  <2>3. EndIn(stream, i - 1) < EndIn(stream, k - 1) \/ EndIn(stream, k - 1) < EndIn(stream, i - 1)
    BY <2>1, EndsInOrder
  <2> QED BY <2>2, <2>3 DEF EndOf
<1>3. T = {k}
  BY <1>1, <1>2
<1>4. At(EndOf(k - 1)) = IF T = {} THEN [len |-> 0, good |-> FALSE] ELSE stream[Min(T)]
  BY DEF At
<1> HIDE DEF T
<1>5. Min(T) = k
  BY <1>1, <1>3 DEF Min
<1> QED BY <1>3, <1>4, <1>5

\* There is always something.
LEMMA AtTypes ==
  ASSUME Sizes, stream \in Seq(MsgType), NEW p
  PROVE  At(p).len \in Nat /\ At(p).good \in BOOLEAN
<1> DEFINE T == {i \in DOMAIN stream : EndOf(i - 1) = p}
<1>1. At(p) = IF T = {} THEN [len |-> 0, good |-> FALSE] ELSE stream[Min(T)]
  BY DEF At
<1>2. T \subseteq 1 .. Len(stream)
  BY LenProperties
<1> HIDE DEF T
<1>3. CASE T = {}
  BY <1>1, <1>3
<1>4. CASE T # {}
  <2>1. T \subseteq Nat
    BY <1>2
  <2>2. Min(T) \in T
    BY <1>4, <2>1, LeastElement DEF Min
  <2>3. stream[Min(T)] \in MsgType
    BY <1>2, <2>2, ElementOfSeq
  <2> QED BY <1>1, <1>4, <2>3 DEF MsgType, Sizes
<1> QED BY <1>3, <1>4

\* The length of a message is known as soon as its header is there.
LEMMA LengthRead ==
  ASSUME Sizes, stream \in Seq(MsgType), NEW p, NEW n \in Nat
  PROVE  LengthAt(p, n) = IF n < HeaderOf(At(p)) THEN NoVint
                          ELSE [size |-> HeaderOf(At(p)) - Crc, val |-> At(p).len]
<1>1. PICK d, l, v : d = Digits(At(p).len) /\ l = Len(d) /\ v = At(p).len
  OBVIOUS
<1>2. /\ d \in Seq(DigitType) /\ l > 0 /\ LastOnly(d) /\ Means(d, v) /\ v \in Nat
  BY <1>1, AtTypes, DigitsMean
<1>3. l \in Nat /\ DOMAIN d = 1 .. l /\ Crc \in Nat /\ HeaderOf(At(p)) = Crc + l
  BY <1>1, <1>2, LenProperties DEF Sizes, HeaderOf, WriteVint
<1>4. LengthAt(p, n) = IF n <= Crc THEN NoVint
                       ELSE ReadVint(IF n - Crc < l THEN SubSeq(d, 1, n - Crc) ELSE d)
  BY <1>1 DEF LengthAt, WriteVint
<1>5. CASE n <= Crc
  BY <1>2, <1>3, <1>4, <1>5
<1>6. CASE n > Crc /\ n - Crc < l
  <2>1. PICK e, k : e = SubSeq(d, 1, k) /\ k = n - Crc
    OBVIOUS
  <2>2. k \in 1 .. l /\ k < l
    BY <1>3, <1>6, <2>1
  <2>3. \A i \in 1 .. k : d[i] \in DigitType
    BY <1>1, <1>2, <2>2, ElementOfSeq
  <2>4. DOMAIN e = 1 .. k /\ \A i \in 1 .. k : e[i] = d[i]
    BY <1>1, <2>1, <2>2 
  <2>5. \A i \in DOMAIN e : e[i].more
    <3>1. \A i \in 1 .. l : i # l => d[i].more
      BY <1>1, <1>2 DEF LastOnly
    <3>2. \A i \in 1 .. k : i \in 1 .. l /\ i # l
      BY <1>3, <2>2
    <3> QED BY <2>4, <3>1, <3>2
  <2>6. ReadVint(e) = NoVint
    BY <2>5, ReadsNothing
  <2> QED BY <1>3, <1>4, <1>6, <2>1, <2>6
<1>7. CASE n - Crc >= l
  <2>1. ReadVint(d) = [size |-> l, val |-> v]
    BY <1>1, <1>2, ReadsVint
  <2>2. ~(n <= Crc) /\ ~(n - Crc < l) /\ ~(n < Crc + l) /\ (Crc + l) - Crc = l
    BY <1>2, <1>3, <1>7
  <2> QED BY <1>1, <1>3, <1>4, <2>1, <2>2
<1> QED BY <1>3, <1>5, <1>6, <1>7

-----------------------------------------------------------------------------
Codes      == {"SUCCESS", "BAD_DATA", "INVALID_SIZE", "READ_FAILED"}
CallType   == [at : Nat, len : Nat, is : Codes]
BlockType  == [at : Nat, len : Nat, want : Nat, good : BOOLEAN]
ResultType == [calls : Seq(CallType), left : Nat, then : {"wait", "free"}, big : BlockType]
Waiting(l) == [calls |-> <<>>, left |-> l, then |-> "wait", big |-> NoBig]
GivenUp(l) == [calls |-> <<>>, left |-> l, then |-> "free", big |-> NoBig]
InBlock(at, m, want) ==
  [calls |-> <<>>, left |-> 0, then |-> "wait",
   big |-> [at |-> at, len |-> m.len, want |-> want, good |-> m.good]]
Handed(at, m, rest) == [rest EXCEPT !.calls = <<Call(at, m.len, Verdict(m.len, m.good))>> \o @]

\* The message that begins `left` bytes before `end`, with m what is there.
Begins(end, left, m) ==
  /\ end - left \in Nat /\ left \in Nat /\ m = At(end - left)
  /\ m.len \in Nat /\ m.good \in BOOLEAN

\* What CutOne makes of it: r, with p where it begins and `at` its bytes.
Cuts(r, cut, left, m, h, z, at) ==
  /\ left < h => r = Waiting(left)
  /\ left >= z => r = Handed(at, m, cut[left - z])
  /\ (h <= left /\ left < z /\ Crc + m.len <= MaxBuffer) => r = InBlock(at, m, z - left)
  /\ (h <= left /\ left < z /\ ~(Crc + m.len <= MaxBuffer)) => r = GivenUp(left - h)

LEMMA CutCases ==
  ASSUME Sizes, stream \in Seq(MsgType), NEW end, NEW cut, NEW left, NEW m, Begins(end, left, m)
  PROVE  Cuts(CutOne(end, cut, left), cut, left, m, HeaderOf(m), SizeOf(m),
              (end - left) + HeaderOf(m))
<1>1. PICK p, v, h, z, r : /\ p = end - left /\ v = LengthAt(p, left) /\ h = HeaderOf(m)
                           /\ z = SizeOf(m) /\ r = CutOne(end, cut, left)
  OBVIOUS
<1>2. /\ p \in Nat /\ left \in Nat /\ m = At(p) /\ m.len \in Nat
      /\ h \in Nat /\ Crc \in Nat /\ h > Crc /\ z = h + m.len
  BY <1>1, MsgSizes DEF Begins
<1>3. v = IF left < h THEN NoVint ELSE [size |-> h - Crc, val |-> m.len]
  BY <1>1, <1>2, LengthRead
<1>4. r = IF v.size = 0 THEN Waiting(left)
          ELSE IF left >= Crc + v.size + v.val
            THEN [cut[left - (Crc + v.size + v.val)] EXCEPT
                    !.calls = <<Call(p + Crc + v.size, v.val, Verdict(v.val, m.good))>> \o @]
          ELSE IF Crc + v.val <= MaxBuffer
            THEN [calls |-> <<>>, left |-> 0, then |-> "wait",
                  big |-> [at |-> p + Crc + v.size, len |-> v.val,
                           want |-> (Crc + v.size + v.val) - left, good |-> m.good]]
            ELSE GivenUp(left - Crc - v.size)
  BY <1>1, <1>2 DEF CutOne, Whole, Waiting, GivenUp
<1>5. CASE left < h
  <2>1. v.size = 0
    BY <1>3, <1>5 DEF NoVint
  <2>2. r = Waiting(left)
    BY <1>4, <2>1
  <2>3. ~(left >= z) /\ ~(h <= left)
    BY <1>2, <1>5
  <2>4. Cuts(r, cut, left, m, h, z, p + h)
    BY <2>2, <2>3 DEF Cuts
  <2> QED BY <1>1, <2>4
<1>6. CASE left >= h
  <2>1. v.size = h - Crc /\ v.val = m.len
    BY <1>2, <1>3, <1>6
  <2>2. PICK a, b, c : a = Crc + v.size + v.val /\ b = p + Crc + v.size /\ c = left - Crc - v.size
    OBVIOUS
  <2>3. v.size # 0 /\ a = z /\ b = p + h /\ c = left - h /\ ~(left < h)
    BY <1>2, <1>6, <2>1, <2>2
  <2>4. r = IF left >= z THEN Handed(p + h, m, cut[left - z])
            ELSE IF Crc + m.len <= MaxBuffer THEN InBlock(p + h, m, z - left)
            ELSE GivenUp(left - h)
    <3>1. r = IF left >= a
            THEN [cut[left - a] EXCEPT !.calls = <<Call(b, v.val, Verdict(v.val, m.good))>> \o @]
          ELSE IF Crc + v.val <= MaxBuffer
            THEN [calls |-> <<>>, left |-> 0, then |-> "wait",
                  big |-> [at |-> b, len |-> v.val, want |-> a - left, good |-> m.good]]
            ELSE GivenUp(c)
      BY <1>4, <2>2, <2>3
    <3>2. r = IF left >= z
            THEN [cut[left - z] EXCEPT
                    !.calls = <<Call(p + h, m.len, Verdict(m.len, m.good))>> \o @]
          ELSE IF Crc + m.len <= MaxBuffer
            THEN [calls |-> <<>>, left |-> 0, then |-> "wait",
                  big |-> [at |-> p + h, len |-> m.len, want |-> z - left, good |-> m.good]]
            ELSE GivenUp(left - h)
      BY <2>1, <2>3, <3>1, Zenon
    <3> QED BY <3>2 DEF Handed, InBlock
  <2>5. left >= z <=> ~(left < z)
    BY <1>2
  <2>6. Cuts(r, cut, left, m, h, z, p + h)
    BY <2>3, <2>4, <2>5, Zenon DEF Cuts
  <2> QED BY <1>1, <2>6
<1> QED BY <1>2, <1>5, <1>6

LEMMA CutTypes ==
  ASSUME Sizes, stream \in Seq(MsgType), NEW n \in Nat, NEW end \in Nat, n <= end,
         NEW cut \in [0 .. n -> ResultType], NEW left \in 0 .. n
  PROVE  CutOne(end, cut, left) \in ResultType
<1>1. PICK m : m = At(end - left)
  OBVIOUS
<1>2. Begins(end, left, m)
  BY <1>1, AtTypes DEF Begins
<1>3. PICK h, z, at, r : /\ h = HeaderOf(m) /\ z = SizeOf(m) /\ at = (end - left) + h
                         /\ r = CutOne(end, cut, left)
  OBVIOUS
<1>4. /\ at \in Nat /\ left \in Nat /\ m.len \in Nat /\ m.good \in BOOLEAN
      /\ h \in Nat /\ Crc \in Nat /\ h > Crc /\ z = h + m.len /\ NoBig \in BlockType
  <2>1. end - left \in Nat /\ left \in Nat /\ m.len \in Nat /\ m.good \in BOOLEAN
    BY <1>2 DEF Begins
  <2>2. h \in Nat /\ Crc \in Nat /\ h > Crc /\ z = h + m.len
    BY <1>3, <2>1, MsgSizes
  <2>3. NoBig \in BlockType
    BY DEF NoBig, BlockType
  <2>4. at \in Nat
    BY <1>3, <2>1, <2>2
  <2> QED BY <2>1, <2>2, <2>3, <2>4
<1>5. Cuts(r, cut, left, m, h, z, at)
  BY <1>2, <1>3, CutCases
<1>6. <<>> \in Seq(CallType)
  BY EmptySeq
<1>7. CASE r = Waiting(left) \/ (h <= left /\ r = GivenUp(left - h))
  <2>1. \A l \in Nat : Waiting(l) \in ResultType /\ GivenUp(l) \in ResultType
    BY <1>4, <1>6 DEF Waiting, GivenUp, ResultType
  <2>2. h <= left => left - h \in Nat
    BY <1>4
  <2> QED BY <1>3, <1>4, <1>7, <2>1, <2>2
<1>8. CASE left >= z /\ r = Handed(at, m, cut[left - z])
  <2>1. PICK c, q : c = Call(at, m.len, Verdict(m.len, m.good)) /\ q = cut[left - z]
    OBVIOUS
  <2>2. r = [q EXCEPT !.calls = <<c>> \o @]
    BY <1>8, <2>1 DEF Handed
  <2>3. c \in CallType
    BY <1>4, <2>1 DEF Call, Verdict, CallType, Codes
  <2>4. q \in ResultType
    <3>1. left - z \in 0 .. n
      BY <1>4, <1>8
    <3> QED BY <2>1, <3>1
  <2>5. <<c>> \o q.calls \in Seq(CallType)
    <3>1. q.calls \in Seq(CallType) /\ <<c>> \in Seq(CallType)
      BY <2>3, <2>4 DEF ResultType
    <3> QED BY <3>1, ConcatProperties
  <2>6. [q EXCEPT !.calls = <<c>> \o @] \in ResultType
    BY <2>4, <2>5 DEF ResultType
  <2> QED BY <1>3, <2>2, <2>6
<1>9. CASE left < z /\ r = InBlock(at, m, z - left)
  <2>1. z - left \in Nat
    BY <1>4, <1>9
  <2>2. [at |-> at, len |-> m.len, want |-> z - left, good |-> m.good] \in BlockType
    BY <1>4, <2>1 DEF BlockType
  <2> QED BY <1>3, <1>6, <1>9, <2>2 DEF InBlock, ResultType
<1> QED
  <2>1. left < h \/ h <= left
    BY <1>4
  <2>2. left < z \/ left >= z
    BY <1>4
  <2> QED BY <1>5, <1>7, <1>8, <1>9, <2>1, <2>2, Zenon DEF Cuts

\* What is made of the head is what the definition says.
LEMMA CutExists ==
  ASSUME Sizes, stream \in Seq(MsgType), NEW n \in Nat, NEW end \in Nat, n <= end
  PROVE  \E cut : /\ Cut(end, n) = cut[n]
                  /\ \A left \in 0 .. n : cut[left] = CutOne(end, cut, left)
<1> DEFINE X == [0 .. n -> ResultType]
           G == [z \in X \X (0 .. n) |-> CutOne(end, z[1], z[2])]
<1>1. ASSUME NEW f \in X, NEW left \in 0 .. n
      PROVE  CutOne(end, f, left) \in ResultType /\ G[<<f, left>>] = CutOne(end, f, left)
  BY CutTypes
<1>2. ASSUME NEW f \in X, NEW g \in X, NEW left \in 0 .. n,
             \A j \in 0 .. left - 1 : f[j] = g[j]
      PROVE  CutOne(end, f, left) = CutOne(end, g, left)
  <2> HIDE DEF G
  <2>1. PICK m, z, h, at, x, y :
          /\ m = At(end - left) /\ z = SizeOf(m) /\ h = HeaderOf(m) /\ at = (end - left) + h
          /\ x = CutOne(end, f, left) /\ y = CutOne(end, g, left)
    OBVIOUS
  <2>2. Begins(end, left, m)
    BY <2>1, AtTypes DEF Begins
  <2>3. z \in Nat /\ z > 0 /\ h \in Nat /\ left \in Nat /\ h <= z
    <3>1. m.len \in Nat
      BY <2>2 DEF Begins
    <3> QED BY <2>1, <3>1, MsgSizes
  <2>4. Cuts(x, f, left, m, h, z, at)
    BY <2>1, <2>2, CutCases
  <2>5. Cuts(y, g, left, m, h, z, at)
    BY <2>1, <2>2, CutCases
  <2>6. left >= z => f[left - z] = g[left - z]
    <3>1. left >= z => left - z \in 0 .. left - 1
      BY <2>3
    <3> QED BY <1>2, <3>1
  <2>7. (left < h \/ h <= left) /\ (left < z \/ left >= z)
    BY <2>3
  <2>8. x = y
    <3>1. CASE left < h
      <4>1. x = Waiting(left) /\ y = Waiting(left)
        BY <2>4, <2>5, <3>1 DEF Cuts
      <4> QED BY <4>1
    <3>2. CASE left >= z
      <4>1. x = Handed(at, m, f[left - z]) /\ y = Handed(at, m, g[left - z])
        BY <2>4, <2>5, <3>2 DEF Cuts
      <4> QED BY <2>6, <3>2, <4>1
    <3>3. CASE h <= left /\ left < z
      <4>1. \/ x = InBlock(at, m, z - left) /\ y = InBlock(at, m, z - left)
            \/ x = GivenUp(left - h) /\ y = GivenUp(left - h)
        BY <2>4, <2>5, <3>3 DEF Cuts
      <4> QED BY <4>1
    <3> QED BY <2>7, <3>1, <3>2, <3>3
  <2> QED BY <2>1, <2>8
<1>3. G \in [X \X (0 .. n) -> ResultType]
  BY <1>1
<1> HIDE DEF G
<1>4. Looks(G, n, ResultType)
  <2>1. ASSUME NEW f \in X, NEW g \in X, NEW left \in 0 .. n,
               \A j \in 0 .. left - 1 : f[j] = g[j]
        PROVE  G[<<f, left>>] = G[<<g, left>>]
    <3> HIDE DEF X
    <3>1. G[<<f, left>>] = CutOne(end, f, left) /\ G[<<g, left>>] = CutOne(end, g, left)
      BY <1>1
    <3>2. CutOne(end, f, left) = CutOne(end, g, left)
      BY <1>2, <2>1
    <3> QED BY <3>1, <3>2
  <2> QED BY <1>3, <2>1 DEF Looks
<1>5. ResultType # {}
  <2>1. <<>> \in Seq(CallType) /\ NoBig \in BlockType
    BY EmptySeq DEF NoBig, BlockType
  <2>2. Waiting(0) \in ResultType
    BY <2>1 DEF Waiting, ResultType
  <2> QED BY <2>2
<1>6. PICK f : Solves(f, G, n, ResultType)
  <2>1. PICK t : t = ResultType
    OBVIOUS
  <2>2. \E f : Solves(f, G, n, t)
    BY <1>4, <1>5, <2>1, RecursionExists
  <2> QED BY <2>1, <2>2
<1>7. f \in X /\ \A left \in 0 .. n : f[left] = CutOne(end, f, left)
  <2>1. f \in X /\ \A left \in 0 .. n : f[left] = G[<<f, left>>]
    BY <1>6 DEF Solves
  <2> HIDE DEF X
  <2> QED BY <1>1, <2>1
<1>8. f = [left \in 0 .. n |-> CutOne(end, f, left)]
  BY <1>7
<1> DEFINE cut == CHOOSE g : g = [left \in 0 .. n |-> CutOne(end, g, left)]
<1>9. cut = [left \in 0 .. n |-> CutOne(end, cut, left)]
  BY <1>8
<1>10. Cut(end, n) = cut[n]
  BY DEF Cut
<1> HIDE DEF cut
<1>11. \A left \in 0 .. n : cut[left] = CutOne(end, cut, left)
  BY <1>9
<1> QED BY <1>10, <1>11

\* The calls for the messages after the a-th up to the b-th of s.
CallOf(s, i)        == Call(EndIn(s, i) - s[i].len, s[i].len, Verdict(s[i].len, s[i].good))
Calls(s, a, b)      == [i \in 1 .. b - a |-> CallOf(s, a + i)]
BlockOf(s, i, want) ==
  [at |-> EndIn(s, i) - s[i].len, len |-> s[i].len, want |-> want, good |-> s[i].good]

\* A message of s.
LEMMA Message ==
  ASSUME Sizes, NEW s \in Seq(MsgType), NEW k \in 1 .. Len(s)
  PROVE  /\ s[k] \in MsgType /\ s[k].len \in Nat /\ s[k].good \in BOOLEAN
         /\ HeaderOf(s[k]) \in Nat /\ HeaderOf(s[k]) > 0
         /\ EndIn(s, k - 1) \in Nat /\ EndIn(s, k) \in Nat
         /\ SizeOf(s[k]) = HeaderOf(s[k]) + s[k].len
         /\ EndIn(s, k) = EndIn(s, k - 1) + HeaderOf(s[k]) + s[k].len
<1>1. s[k] \in MsgType
  BY ElementOfSeq
<1>2. s[k].len \in Nat /\ s[k].good \in BOOLEAN
  BY <1>1 DEF MsgType, Sizes
<1>3. /\ HeaderOf(s[k]) \in Nat /\ HeaderOf(s[k]) > Crc /\ Crc \in Nat
      /\ SizeOf(s[k]) = HeaderOf(s[k]) + s[k].len
  BY <1>2, MsgSizes
<1>4. k \in 0 .. Len(s) /\ k - 1 \in 0 .. Len(s)
  BY LenProperties
<1>5. EndIn(s, k - 1) \in Nat /\ EndIn(s, k) \in Nat /\ EndIn(s, k) = EndIn(s, k - 1) + SizeOf(s[k])
  BY <1>4, EndSteps
<1> QED BY <1>1, <1>2, <1>3, <1>5

LEMMA CallTypes ==
  ASSUME Sizes, NEW s \in Seq(MsgType), NEW k \in 1 .. Len(s)
  PROVE  CallOf(s, k) \in CallType
<1>1. /\ s[k].len \in Nat /\ s[k].good \in BOOLEAN /\ HeaderOf(s[k]) \in Nat
      /\ EndIn(s, k - 1) \in Nat /\ EndIn(s, k) \in Nat
      /\ EndIn(s, k) = EndIn(s, k - 1) + HeaderOf(s[k]) + s[k].len
  BY Message
<1>2. EndIn(s, k) - s[k].len \in Nat
  BY <1>1
<1> QED BY <1>1, <1>2 DEF CallOf, Call, Verdict, CallType, Codes

LEMMA CallsTypes ==
  ASSUME Sizes, NEW s \in Seq(MsgType), NEW a \in Nat, NEW b \in Nat, a <= b, b <= Len(s)
  PROVE  /\ Calls(s, a, b) \in Seq(CallType) /\ Len(Calls(s, a, b)) = b - a
         /\ \A i \in 1 .. b - a : Calls(s, a, b)[i] = CallOf(s, a + i)
<1>1. \A i \in 1 .. b - a : CallOf(s, a + i) \in CallType
  <2>1. \A i \in 1 .. b - a : a + i \in 1 .. Len(s)
    BY LenProperties
  <2> QED BY <2>1, CallTypes
<1>2. b - a \in Nat
  OBVIOUS
<1>3. PICK c : c = Calls(s, a, b)
  OBVIOUS
<1>4. DOMAIN c = 1 .. b - a /\ \A i \in 1 .. b - a : c[i] = CallOf(s, a + i)
  BY <1>3 DEF Calls
<1>5. c \in [1 .. b - a -> CallType]
  BY <1>1, <1>3 DEF Calls
<1>6. c \in Seq(CallType)
  BY <1>2, <1>5, IsASeq
<1>7. Len(c) = b - a
  BY <1>2, <1>4, <1>6, LenProperties
<1> QED BY <1>3, <1>4, <1>6, <1>7

LEMMA CallsJoin ==
  ASSUME Sizes, NEW s \in Seq(MsgType), NEW a \in Nat, NEW b \in Nat, NEW c \in Nat,
         a <= b, b <= c, c <= Len(s)
  PROVE  Calls(s, a, b) \o Calls(s, b, c) = Calls(s, a, c)
<1>0. Len(s) \in Nat
  BY LenProperties
<1>1. PICK x, y, z, w : /\ x = Calls(s, a, b) /\ y = Calls(s, b, c) /\ z = Calls(s, a, c)
                        /\ w = x \o y
  OBVIOUS
<1>2. /\ x \in Seq(CallType) /\ Len(x) = b - a /\ \A i \in 1 .. b - a : x[i] = CallOf(s, a + i)
  <2>1. b <= Len(s)
    BY <1>0
  <2> QED BY <1>1, <2>1, CallsTypes
<1>3. /\ y \in Seq(CallType) /\ Len(y) = c - b /\ \A i \in 1 .. c - b : y[i] = CallOf(s, b + i)
  BY <1>1, CallsTypes
<1>4. /\ z \in Seq(CallType) /\ Len(z) = c - a /\ \A i \in 1 .. c - a : z[i] = CallOf(s, a + i)
  <2>1. a <= c
    OBVIOUS
  <2> QED BY <1>1, <2>1, CallsTypes
<1>5. /\ w \in Seq(CallType) /\ Len(w) = (b - a) + (c - b)
      /\ \A i \in 1 .. (b - a) + (c - b) :
            w[i] = IF i <= b - a THEN x[i] ELSE y[i - (b - a)]
  <2>1. /\ w \in Seq(CallType) /\ Len(w) = Len(x) + Len(y)
        /\ \A i \in 1 .. Len(x) + Len(y) :
              w[i] = IF i <= Len(x) THEN x[i] ELSE y[i - Len(x)]
    <3>1. x \in Seq(CallType) /\ y \in Seq(CallType)
      BY <1>2, <1>3
    <3> QED BY <1>1, <3>1, ConcatProperties
  <2> QED BY <1>2, <1>3, <2>1
<1>6. ASSUME NEW i \in 1 .. c - a PROVE w[i] = z[i]
  <2>1. CASE i <= b - a
    <3>1. i \in 1 .. b - a /\ i \in 1 .. (b - a) + (c - b)
      BY <2>1
    <3> QED BY <1>2, <1>4, <1>5, <2>1, <3>1
  <2>2. CASE ~(i <= b - a)
    <3>1. /\ i - (b - a) \in 1 .. c - b /\ i \in 1 .. (b - a) + (c - b)
          /\ b + (i - (b - a)) = a + i
      BY <2>2
    <3>2. y[i - (b - a)] = CallOf(s, a + i)
      BY <1>3, <3>1
    <3> QED BY <1>4, <1>5, <2>2, <3>1, <3>2
  <2> QED BY <2>1, <2>2
<1>7. Len(w) = Len(z) /\ Len(z) = c - a
  BY <1>4, <1>5
<1>8. w = z
  BY <1>4, <1>5, <1>6, <1>7, SeqEqual
<1> QED BY <1>1, <1>8

LEMMA OneCall ==
  ASSUME Sizes, NEW s \in Seq(MsgType), NEW a \in Nat, a + 1 <= Len(s)
  PROVE  Calls(s, a, a + 1) = <<CallOf(s, a + 1)>>
<1>1. PICK x, c : x = Calls(s, a, a + 1) /\ c = CallOf(s, a + 1)
  OBVIOUS
<1>2. a + 1 \in Nat /\ a <= a + 1 /\ (a + 1) - a = 1 /\ 1 \in 1 .. 1 /\ a + 1 \in 1 .. Len(s)
  BY LenProperties
<1>3. x \in Seq(CallType) /\ Len(x) = 1 /\ x[1] = c
  BY <1>1, <1>2, CallsTypes
<1>4. c \in CallType
  BY <1>1, <1>2, CallTypes
<1> QED BY <1>1, <1>3, <1>4

LEMMA NoCalls ==
  ASSUME Sizes, NEW s \in Seq(MsgType), NEW a \in Nat, a <= Len(s)
  PROVE  Calls(s, a, a) = <<>>
<1>1. PICK x : x = Calls(s, a, a)
  OBVIOUS
<1>2. x \in Seq(CallType) /\ Len(x) = a - a
  BY <1>1, CallsTypes
<1>3. Len(x) = 0
  BY <1>2
<1> QED BY <1>1, <1>2, <1>3, EmptySeq

-----------------------------------------------------------------------------
\* A place after the k-th message of s and before the end of the next.
Between(s, k, place) == EndIn(s, k) <= place /\ (k < Len(s) => place < EndIn(s, k + 1))

\* What can be made of the bytes from the end of the k-th message up to `end`:
\* the calls for the messages up to the j-th, and of the next one
\*  - a header that is not there yet stays in the head,
\*  - what is there is in a block, or
\*  - there is no block for it.
Outcome(s, end, k, j, r) ==
  /\ r \in ResultType /\ r.calls = Calls(s, k, j) /\ Between(s, j, end)
  /\ \/ /\ r.then = "wait" /\ r.big = NoBig /\ r.left = end - EndIn(s, j)
        /\ j < Len(s) => r.left < HeaderOf(s[j + 1])
     \/ /\ r.then = "wait" /\ r.left = 0 /\ j < Len(s)
        /\ r.big = BlockOf(s, j + 1, EndIn(s, j + 1) - end)
     \/ r.then = "free" /\ r.big = NoBig /\ j < Len(s) /\ r.left <= end

\* The cases of one message, that begins with the k-th of the stream read.
LEMMA CutSteps ==
  ASSUME Sizes, stream \in Seq(MsgType), NEW end \in Nat, end <= EndIn(stream, Len(stream)),
         NEW cut, NEW left \in Nat, NEW k \in 0 .. Len(stream), end - left = EndIn(stream, k),
         \A i \in 0 .. left - 1, q \in 0 .. Len(stream) :
            end - i = EndIn(stream, q) =>
              \E j \in q .. Len(stream) : Outcome(stream, end, q, j, cut[i])
  PROVE  \E j \in k .. Len(stream) : Outcome(stream, end, k, j, CutOne(end, cut, left))
<1>1. PICK s, l, r, m, h, z, at, e :
        /\ s = stream /\ l = Len(s) /\ r = CutOne(end, cut, left) /\ m = At(end - left)
        /\ h = HeaderOf(m) /\ z = SizeOf(m) /\ at = (end - left) + h /\ e = EndIn(s, k)
  OBVIOUS
<1>2. s \in Seq(MsgType) /\ l \in Nat /\ k \in Nat /\ k <= l /\ end - left = e
  BY <1>1, LenProperties
<1>3. e \in Nat /\ e + left = end
  <2>1. e \in Nat
    BY <1>1, <1>2, EndSteps
  <2> QED BY <1>2, <2>1
<1>4. m.len \in Nat /\ m.good \in BOOLEAN
  BY <1>1, AtTypes
<1>5. h \in Nat /\ h > 0 /\ z = h + m.len /\ z \in Nat
  BY <1>1, <1>4, MsgSizes
<1>11. at = e + h /\ at \in Nat /\ z \in Nat /\ z > 0
  <2>1. at = e + h
    BY <1>1, <1>2
  <2>2. PICK n : n = m.len
    OBVIOUS
  <2>3. n \in Nat /\ z = h + n
    BY <1>4, <1>5, <2>2
  <2>4. at \in Nat
    BY <1>3, <1>5, <2>1
  <2>5. z > 0 /\ z \in Nat
    BY <1>5, <2>3
  <2> QED BY <2>1, <2>4, <2>5
<1>12. (e + z) - m.len = at
  <2>1. PICK n : n = m.len
    OBVIOUS
  <2>2. n \in Nat /\ z = h + n
    BY <1>4, <1>5, <2>1
  <2>3. (e + z) - n = at
    BY <1>3, <1>5, <1>11, <2>2
  <2> QED BY <2>1, <2>3
<1>6. Cuts(r, cut, left, m, h, z, at)
  <2>1. Begins(end, left, m)
    BY <1>1, <1>2, <1>3, <1>4 DEF Begins
  <2> QED BY <1>1, <2>1, CutCases
<1>7. <<>> \in Seq(CallType) /\ NoBig \in BlockType
  BY EmptySeq DEF NoBig, BlockType
<1>8. Calls(s, k, k) = <<>>
  BY <1>1, <1>2, NoCalls
<1>9. CASE k = l
  <2>1. left = 0
    BY <1>1, <1>3, <1>9
  <2>2. r = Waiting(0)
    BY <1>5, <1>6, <2>1 DEF Cuts
  <2>3. r \in ResultType /\ r.calls = <<>> /\ r.then = "wait" /\ r.big = NoBig /\ r.left = 0
    BY <1>7, <2>2 DEF Waiting, ResultType
  <2>4. Between(s, k, end) /\ 0 = end - e /\ ~(k < l)
    BY <1>1, <1>2, <1>3, <1>9, <2>1 DEF Between
  <2>5. Outcome(s, end, k, k, r)
    BY <1>1, <1>8, <2>3, <2>4 DEF Outcome
  <2> QED BY <1>1, <1>2, <2>5
<1>10. CASE k < l
  <2>1. k + 1 \in 1 .. l /\ (k + 1) - 1 = k /\ k + 1 \in 0 .. l /\ k + 1 \in Nat
    BY <1>2, <1>10
  <2>2. m = s[k + 1]
    <3>1. At(EndOf((k + 1) - 1)) = stream[k + 1]
      BY <1>1, <2>1, AtBegin
    <3> QED BY <1>1, <1>2, <2>1, <3>1 DEF EndOf
  <2>3. PICK f : f = EndIn(s, k + 1)
    OBVIOUS
  <2>4. f \in Nat /\ f = e + z
    <3>1. EndIn(s, k + 1) \in Nat /\ EndIn(s, k + 1) = EndIn(s, (k + 1) - 1) + SizeOf(s[k + 1])
      BY <1>1, <1>2, <2>1, EndSteps
    <3> QED BY <1>1, <2>1, <2>2, <2>3, <3>1
  <2>5. CASE left < h
    <3>1. r = Waiting(left)
      BY <1>6, <2>5 DEF Cuts
    <3>2. r \in ResultType /\ r.calls = <<>> /\ r.then = "wait" /\ r.big = NoBig /\ r.left = left
      BY <1>7, <3>1 DEF Waiting, ResultType
    <3>3. Between(s, k, end) /\ left = end - e
      <4>1. e <= end /\ end < f /\ left = end - e
        BY <1>3, <1>4, <1>5, <2>4, <2>5
      <4> QED BY <1>1, <2>3, <4>1 DEF Between
    <3>4. Outcome(s, end, k, k, r)
      BY <1>1, <1>8, <2>2, <2>5, <3>2, <3>3 DEF Outcome
    <3> QED BY <1>1, <1>2, <3>4
  <2>6. CASE left >= z
    <3>1. left - z \in 0 .. left - 1 /\ end - (left - z) = f
      <4>1. left \in Nat /\ z \in Nat /\ z > 0 /\ e \in Nat /\ f = e + z /\ end = e + left
        BY <1>3, <1>11, <2>4
      <4> QED BY <2>6, <4>1
    <3>2. PICK j, q : j \in k + 1 .. l /\ q = cut[left - z] /\ Outcome(s, end, k + 1, j, q)
      BY <1>1, <2>1, <2>3, <3>1
    <3>3. PICK c : c = CallOf(s, k + 1)
      OBVIOUS
    <3>4. c = Call(at, m.len, Verdict(m.len, m.good))
      <4>1. at = f - m.len
        BY <1>12, <2>4
      <4> QED BY <2>2, <2>3, <3>3, <4>1 DEF CallOf
    <3>5. r = [q EXCEPT !.calls = <<c>> \o @]
      BY <1>6, <2>6, <3>2, <3>4 DEF Cuts, Handed
    <3>6. <<c>> \o q.calls = Calls(s, k, j) /\ Calls(s, k, j) \in Seq(CallType)
      <4>1. k + 1 \in Nat /\ j \in Nat /\ k <= k + 1 /\ k + 1 <= j /\ j <= l /\ k + 1 <= l /\ k <= j
        BY <1>2, <2>1, <3>2
      <4>2. Calls(s, k, k + 1) = <<c>>
        BY <1>1, <1>2, <3>3, <4>1, OneCall
      <4>3. q.calls = Calls(s, k + 1, j)
        BY <3>2 DEF Outcome
      <4>4. Calls(s, k, k + 1) \o Calls(s, k + 1, j) = Calls(s, k, j)
        <5>1. PICK b : b = k + 1
          OBVIOUS
        <5>2. k \in Nat /\ b \in Nat /\ j \in Nat /\ k <= b /\ b <= j /\ j <= Len(s)
          BY <1>1, <1>2, <4>1, <5>1
        <5>3. Calls(s, k, b) \o Calls(s, b, j) = Calls(s, k, j)
          BY <1>2, <5>2, CallsJoin
        <5> QED BY <5>1, <5>3
      <4>5. Calls(s, k, j) \in Seq(CallType)
        BY <1>1, <1>2, <4>1, CallsTypes
      <4> QED BY <4>2, <4>3, <4>4, <4>5
    <3>7. q \in ResultType
      BY <3>2 DEF Outcome
    <3>8. /\ r \in ResultType /\ r.calls = Calls(s, k, j)
          /\ r.then = q.then /\ r.big = q.big /\ r.left = q.left
      BY <3>5, <3>6, <3>7 DEF ResultType
    <3>9. Outcome(s, end, k, j, r)
      BY <3>2, <3>8 DEF Outcome
    <3>10. j \in k .. l
      BY <1>2, <3>2
    <3> QED BY <1>1, <3>9, <3>10
  <2>7. CASE h <= left /\ left < z
    <3>1. Between(s, k, end)
      <4>1. e <= end /\ end < f
        BY <1>3, <1>5, <2>4, <2>7
      <4> QED BY <1>1, <2>3, <4>1 DEF Between
    <3>2. CASE r = InBlock(at, m, z - left)
      <4>1. PICK b : b = BlockOf(s, k + 1, f - end)
        OBVIOUS
      <4>2. f - end = z - left /\ at = f - m.len /\ z - left \in Nat /\ at \in Nat
        <5>1. at = f - m.len /\ at \in Nat
          BY <1>11, <1>12, <2>4
        <5>2. left \in Nat /\ z \in Nat /\ e \in Nat /\ f = e + z /\ end = e + left
          BY <1>3, <1>11, <2>4
        <5>3. f - end = z - left /\ z - left \in Nat
          BY <2>7, <5>2
        <5> QED BY <5>1, <5>3
      <4>3. b = [at |-> at, len |-> m.len, want |-> z - left, good |-> m.good]
        BY <2>2, <2>3, <4>1, <4>2 DEF BlockOf
      <4>4. b \in BlockType
        BY <1>4, <4>2, <4>3 DEF BlockType
      <4>5. r = [calls |-> <<>>, left |-> 0, then |-> "wait", big |-> b]
        BY <3>2, <4>3 DEF InBlock
      <4>6. r \in ResultType /\ r.calls = <<>> /\ r.then = "wait" /\ r.big = b /\ r.left = 0
        BY <1>7, <4>4, <4>5 DEF ResultType
      <4>7. Outcome(s, end, k, k, r)
        BY <1>1, <1>8, <1>10, <2>3, <3>1, <4>1, <4>6 DEF Outcome
      <4> QED BY <1>1, <1>2, <4>7
    <3>3. CASE r = GivenUp(left - h)
      <4>1. left - h \in Nat /\ left - h <= end
        BY <1>3, <1>5, <2>7
      <4>2. /\ r \in ResultType /\ r.calls = <<>> /\ r.then = "free" /\ r.big = NoBig
            /\ r.left <= end
        BY <1>7, <3>3, <4>1 DEF GivenUp, ResultType
      <4>3. Outcome(s, end, k, k, r)
        BY <1>1, <1>8, <1>10, <3>1, <4>2 DEF Outcome
      <4> QED BY <1>1, <1>2, <4>3
    <3> QED BY <1>6, <2>7, <3>2, <3>3 DEF Cuts
  <2> QED BY <1>5, <2>5, <2>6, <2>7
<1> QED BY <1>2, <1>9, <1>10

\* Whatever piece arrives, the messages whose bytes are all there are taken out of
\* it in order, and nothing else.
LEMMA CutMakes ==
  ASSUME Sizes, stream \in Seq(MsgType), NEW end \in Nat, end <= EndIn(stream, Len(stream)),
         NEW n \in Nat, n <= end, NEW k \in 0 .. Len(stream), end - n = EndIn(stream, k)
  PROVE  \E j \in k .. Len(stream) : Outcome(stream, end, k, j, Cut(end, n))
<1>1. PICK cut : /\ Cut(end, n) = cut[n]
                 /\ \A left \in 0 .. n : cut[left] = CutOne(end, cut, left)
  BY CutExists
<1> DEFINE Good(i) == \A q \in 0 .. Len(stream) :
                        end - i = EndIn(stream, q) =>
                          \E j \in q .. Len(stream) : Outcome(stream, end, q, j, cut[i])
           S == {i \in Nat : i <= n => Good(i)}
<1>2. ASSUME NEW i \in Nat, 0 .. i - 1 \subseteq S PROVE i \in S
  <2> SUFFICES ASSUME i <= n, NEW q \in 0 .. Len(stream), end - i = EndIn(stream, q)
               PROVE  \E j \in q .. Len(stream) : Outcome(stream, end, q, j, cut[i])
    OBVIOUS
  <2>1. \A x \in 0 .. i - 1 : Good(x)
    <3> HIDE DEF Good
    <3>1. \A x \in 0 .. i - 1 : x <= n
      OBVIOUS
    <3> QED BY <1>2, <3>1
  <2>2. \E j \in q .. Len(stream) : Outcome(stream, end, q, j, CutOne(end, cut, i))
    BY <2>1, CutSteps
  <2>3. cut[i] = CutOne(end, cut, i)
    BY <1>1
  <2> QED BY <2>2, <2>3
<1>3. S = Nat
  <2> HIDE DEF S
  <2>1. S \subseteq Nat
    BY DEF S
  <2> QED BY <1>2, <2>1, FromBelow
<1>4. Good(n)
  <2> HIDE DEF Good
  <2> QED BY <1>3
<1> QED BY <1>1, <1>4

-----------------------------------------------------------------------------
FramesTypes ==
  /\ stream \in Seq(MsgType) /\ got \in Nat /\ head \in Nat /\ big \in BlockType
  /\ heard \in Seq(CallType) /\ closed \in BOOLEAN

\* The user has heard of the first k messages, and perhaps of the end.
ErrorCall == [at : Nat, len : Nat, is : {"INVALID_SIZE", "READ_FAILED"}]
HeardOf(s, k, h, c) ==
  \/ h = Calls(s, 0, k)
  \/ c /\ \E e \in ErrorCall : h = Append(Calls(s, 0, k), e)

\* What is kept of the next one: its first bytes in the head, or the last ones
\* missing from its block.
Keeps(s, k, place, h, b) ==
  \/ k < Len(s) /\ h = 0 /\ b = BlockOf(s, k + 1, EndIn(s, k + 1) - place)
  \/ b = NoBig /\ h = place - EndIn(s, k) /\ (k < Len(s) => h < HeaderOf(s[k + 1]))

Reads(k) ==
  /\ Between(stream, k, got) /\ HeardOf(stream, k, heard, closed)
  /\ closed \/ Keeps(stream, k, got, head, big)

FramesInv ==
  /\ FramesTypes /\ got <= EndIn(stream, Len(stream))
  /\ \E k \in 0 .. Len(stream) : Reads(k)

LEMMA FramesInit == ASSUME Sizes, FramingInit PROVE FramesInv
<1>1. /\ stream = <<>> /\ got = 0 /\ head = 0 /\ big = NoBig /\ heard = <<>> /\ closed = FALSE
  BY DEF FramingInit
<1>2. /\ <<>> \in Seq(MsgType) /\ <<>> \in Seq(CallType) /\ Len(<<>>) = 0 /\ NoBig \in BlockType
  <2>1. NoBig \in BlockType
    BY DEF NoBig, BlockType
  <2> QED BY <2>1, EmptySeq
<1>3. EndIn(stream, 0) = 0
  BY <1>1, <1>2, EndSteps
<1>4. Calls(stream, 0, 0) = <<>>
  <2>1. 0 <= Len(stream)
    BY <1>1, <1>2
  <2> QED BY <1>1, <1>2, <2>1, NoCalls
<1>5. Reads(0)
  <2>1. Len(stream) = 0
    BY <1>1, <1>2
  <2>2. Between(stream, 0, got) /\ Keeps(stream, 0, got, head, big)
    BY <1>1, <1>3, <2>1 DEF Between, Keeps
  <2> QED BY <1>1, <1>4, <2>2 DEF Reads, HeardOf
<1>6. FramesTypes
  BY <1>1, <1>2 DEF FramesTypes
<1> QED BY <1>1, <1>2, <1>3, <1>5, <1>6 DEF FramesInv

\* Sending leaves the places and the calls of the messages already written.
LEMMA Grows ==
  ASSUME Sizes, NEW s \in Seq(MsgType), NEW m \in MsgType
  PROVE  /\ Append(s, m) \in Seq(MsgType) /\ Len(Append(s, m)) = Len(s) + 1
         /\ \A k \in 1 .. Len(s) : Append(s, m)[k] = s[k] /\ CallOf(Append(s, m), k) = CallOf(s, k)
         /\ \A k \in 0 .. Len(s) :
              /\ EndIn(Append(s, m), k) = EndIn(s, k)
              /\ Calls(Append(s, m), 0, k) = Calls(s, 0, k)
<1>1. PICK t, l : t = Append(s, m) /\ l = Len(s)
  OBVIOUS
<1>2. l \in Nat /\ t \in Seq(MsgType) /\ Len(t) = l + 1 /\ \A k \in 1 .. l : t[k] = s[k]
  BY <1>1, AppendProperties, LenProperties
<1>3. \A k \in 0 .. l : EndIn(t, k) = EndIn(s, k)
  BY <1>1, EndsStay
<1>4. \A k \in 1 .. l : CallOf(t, k) = CallOf(s, k)
  <2>1. \A k \in 1 .. l : k \in 0 .. l
    BY <1>2
  <2> QED BY <1>2, <1>3, <2>1 DEF CallOf
<1>5. ASSUME NEW k \in 0 .. l PROVE Calls(t, 0, k) = Calls(s, 0, k)
  <2>1. \A i \in 1 .. k - 0 : 0 + i \in 1 .. l
    BY <1>2
  <2> QED BY <1>4, <2>1 DEF Calls
<1> QED BY <1>1, <1>2, <1>3, <1>4, <1>5

LEMMA SendInv ==
  ASSUME Sizes, FramesInv, NEW n \in Lengths, NEW good \in BOOLEAN, SendMessage(n, good)
  PROVE  FramesInv'
<1>1. PICK s, t, l, m : /\ s = stream /\ t = stream' /\ l = Len(s)
                        /\ m = [len |-> n, good |-> good]
  OBVIOUS
<1>2. /\ t = Append(s, m) /\ m \in MsgType /\ got' = got /\ head' = head /\ big' = big
      /\ heard' = heard /\ closed' = closed
  BY <1>1 DEF SendMessage, MsgType
<1>3. FramesTypes /\ s \in Seq(MsgType) /\ l \in Nat
  BY <1>1, LenProperties DEF FramesInv, FramesTypes
<1>4. /\ t \in Seq(MsgType) /\ Len(t) = l + 1
      /\ \A k \in 1 .. l : t[k] = s[k] /\ CallOf(t, k) = CallOf(s, k)
      /\ \A k \in 0 .. l : EndIn(t, k) = EndIn(s, k) /\ Calls(t, 0, k) = Calls(s, 0, k)
  BY <1>1, <1>2, <1>3, Grows
<1>5. PICK k \in 0 .. l : Reads(k)
  BY <1>1 DEF FramesInv
<1>6. k \in Nat /\ got \in Nat /\ got <= EndIn(s, l)
  BY <1>1, <1>3 DEF FramesInv, FramesTypes
<1>7. EndIn(s, l) < EndIn(t, l + 1) /\ EndIn(t, l + 1) \in Nat /\ EndIn(s, l) \in Nat
  <2>1. l \in 0 .. l + 1 /\ l + 1 \in 0 .. l + 1 /\ l < l + 1 /\ l \in 0 .. l
    BY <1>3
  <2>2. EndIn(t, l) < EndIn(t, l + 1)
    BY <1>4, <2>1, EndsInOrder
  <2>3. EndIn(t, l + 1) \in Nat /\ EndIn(t, l) \in Nat
    BY <1>4, <2>1, EndSteps
  <2> QED BY <1>4, <2>1, <2>2, <2>3
<1>8. Between(t, k, got)
  <2>1. EndIn(t, k) <= got
    BY <1>1, <1>4, <1>5 DEF Reads, Between
  <2>2. CASE k < l
    <3>1. k + 1 \in 0 .. l
      BY <1>6, <1>3, <2>2
    <3>2. got < EndIn(t, k + 1)
      BY <1>1, <1>4, <1>5, <2>2, <3>1 DEF Reads, Between
    <3> QED BY <2>1, <3>2 DEF Between
  <2>3. CASE k = l
    <3>1. got < EndIn(t, k + 1)
      BY <1>6, <1>7, <2>3
    <3> QED BY <2>1, <3>1 DEF Between
  <2> QED BY <1>3, <2>2, <2>3
<1>9. HeardOf(t, k, heard, closed)
  BY <1>1, <1>4, <1>5 DEF Reads, HeardOf
<1>10. closed \/ Keeps(t, k, got, head, big)
  <2> SUFFICES ASSUME ~closed PROVE Keeps(t, k, got, head, big)
    OBVIOUS
  <2>1. Keeps(s, k, got, head, big)
    BY <1>1, <1>5 DEF Reads
  <2>2. CASE k < l
    <3>1. k + 1 \in 1 .. l /\ k + 1 \in 0 .. l /\ k < l + 1
      BY <1>3, <1>6, <2>2
    <3>2. t[k + 1] = s[k + 1] /\ EndIn(t, k + 1) = EndIn(s, k + 1) /\ EndIn(t, k) = EndIn(s, k)
      BY <1>4, <3>1
    <3>3. k < Len(s) /\ k < Len(t)
      BY <1>1, <1>4, <2>2, <3>1
    <3> QED BY <2>1, <3>2, <3>3 DEF Keeps, BlockOf
  <2>3. CASE k = l
    <3>1. ~(k < Len(s)) /\ EndIn(t, k) = EndIn(s, k)
      BY <1>1, <1>3, <1>4, <2>3
    <3>2. big = NoBig /\ head = got - EndIn(s, k)
      BY <2>1, <3>1 DEF Keeps
    <3>3. got = EndIn(s, k)
      BY <1>1, <1>5, <1>6, <1>7, <2>3 DEF Reads, Between
    <3>4. head = 0
      BY <1>6, <3>2, <3>3
    <3>5. HeaderOf(t[l + 1]) > 0
      <4>1. l + 1 \in 1 .. Len(t)
        BY <1>3, <1>4
      <4> QED BY <1>4, <4>1, Message
    <3> QED BY <2>3, <3>1, <3>2, <3>4, <3>5 DEF Keeps
  <2> QED BY <1>3, <2>2, <2>3
<1>11. Reads(k)'
  BY <1>1, <1>2, <1>8, <1>9, <1>10 DEF Reads
<1>12. FramesTypes'
  BY <1>1, <1>2, <1>3, <1>4 DEF FramesTypes
<1>13. got' <= EndIn(stream', Len(stream')) /\ k \in 0 .. Len(stream')
  <2>1. got <= EndIn(t, l + 1) /\ k \in 0 .. l + 1
    BY <1>3, <1>6, <1>7
  <2> QED BY <1>1, <1>2, <1>4, <2>1
<1> QED BY <1>11, <1>12, <1>13 DEF FramesInv

\* A stream that is open keeps what has been read of the next message.
LEMMA Open ==
  ASSUME Sizes, FramesInv, ~closed
  PROVE  \E k \in 0 .. Len(stream) :
           /\ Reads(k) /\ heard = Calls(stream, 0, k)
           /\ \/ /\ Reading /\ k < Len(stream) /\ head = 0
                 /\ big = BlockOf(stream, k + 1, EndIn(stream, k + 1) - got)
                 /\ got < EndIn(stream, k + 1) /\ EndIn(stream, k + 1) \in Nat
              \/ /\ ~Reading /\ got = EndIn(stream, k) + head
                 /\ k < Len(stream) => head < HeaderOf(stream[k + 1])
<1>1. PICK k \in 0 .. Len(stream) : Reads(k)
  BY DEF FramesInv
<1>2. stream \in Seq(MsgType) /\ Len(stream) \in Nat /\ got \in Nat /\ head \in Nat
  BY LenProperties DEF FramesInv, FramesTypes
<1>3. heard = Calls(stream, 0, k) /\ Keeps(stream, k, got, head, big) /\ Between(stream, k, got)
  BY <1>1 DEF Reads, HeardOf
<1>4. CASE k < Len(stream) /\ head = 0 /\ big = BlockOf(stream, k + 1, EndIn(stream, k + 1) - got)
  <2>1. PICK f : f = EndIn(stream, k + 1)
    OBVIOUS
  <2>2. f \in Nat /\ got < f
    <3>1. k + 1 \in 0 .. Len(stream)
      BY <1>2, <1>4
    <3> QED BY <1>2, <1>3, <1>4, <2>1, <3>1, EndSteps DEF Between
  <2>3. f - got # 0
    BY <1>2, <2>2
  <2>4. big.want # NoBig.want
    BY <1>4, <2>1, <2>3 DEF BlockOf, NoBig
  <2>5. Reading
    BY <2>4 DEF Reading
  <2> QED BY <1>1, <1>3, <1>4, <2>1, <2>2, <2>5
<1>5. CASE /\ big = NoBig /\ head = got - EndIn(stream, k)
           /\ k < Len(stream) => head < HeaderOf(stream[k + 1])
  <2>1. ~Reading
    BY <1>5 DEF Reading
  <2>2. PICK e : e = EndIn(stream, k)
    OBVIOUS
  <2>3. e \in Nat
    BY <1>2, <2>2, EndSteps
  <2>4. got = e + head
    BY <1>2, <1>5, <2>2, <2>3
  <2> QED BY <1>1, <1>3, <1>5, <2>1, <2>2, <2>4
<1> QED BY <1>3, <1>4, <1>5 DEF Keeps

\* There is always a byte of room.
LEMMA RoomInv ==
  ASSUME Sizes, HeadFits, FramesInv
  PROVE  HeadHasRoom /\ (~closed => Room \in Nat)
<1> SUFFICES ASSUME ~closed PROVE Room \in Nat /\ Room > 0 /\ head <= HeadSize
  BY DEF HeadHasRoom
<1>1. /\ stream \in Seq(MsgType) /\ Len(stream) \in Nat /\ got \in Nat /\ head \in Nat
      /\ HeadSize \in Nat /\ HeadSize > 0 /\ got <= EndIn(stream, Len(stream))
  BY LenProperties DEF FramesInv, FramesTypes, Sizes
<1>2. PICK k \in 0 .. Len(stream) :
           \/ /\ Reading /\ k < Len(stream) /\ head = 0
              /\ big = BlockOf(stream, k + 1, EndIn(stream, k + 1) - got)
              /\ got < EndIn(stream, k + 1) /\ EndIn(stream, k + 1) \in Nat
           \/ /\ ~Reading /\ got = EndIn(stream, k) + head
              /\ k < Len(stream) => head < HeaderOf(stream[k + 1])
  BY Open
<1>3. CASE /\ Reading /\ head = 0 /\ big = BlockOf(stream, k + 1, EndIn(stream, k + 1) - got)
           /\ got < EndIn(stream, k + 1) /\ EndIn(stream, k + 1) \in Nat
  <2>1. PICK w : w = EndIn(stream, k + 1) - got
    OBVIOUS
  <2>2. w \in Nat /\ w > 0
    BY <1>1, <1>3, <2>1
  <2>3. Room = w
    BY <1>3, <2>1 DEF Room, BlockOf
  <2> QED BY <1>1, <1>3, <2>2, <2>3
<1>4. CASE ~Reading /\ got = EndIn(stream, k) + head /\ (k < Len(stream) => head < HeaderOf(stream[k + 1]))
  <2>1. Room = HeadSize - head
    BY <1>4 DEF Room
  <2>2. head < HeadSize
    <3>1. CASE k < Len(stream)
      <4>1. k + 1 \in 1 .. Len(stream)
        BY <1>1, <3>1
      <4>2. PICK m, h : m = stream[k + 1] /\ h = HeaderOf(m)
        OBVIOUS
      <4>3. m \in MsgType /\ h \in Nat
        BY <1>1, <4>1, <4>2, Message
      <4>4. m.len \in Lengths
        BY <4>3 DEF MsgType
      <4>5. h <= HeadSize
        BY <4>2, <4>4 DEF HeadFits, HeaderOf
      <4> QED BY <1>1, <1>4, <3>1, <4>2, <4>3, <4>5
    <3>2. CASE k = Len(stream)
      <4>1. PICK e : e = EndIn(stream, k)
        OBVIOUS
      <4>2. e \in Nat /\ got = e + head /\ got <= e
        BY <1>1, <1>4, <3>2, <4>1, EndSteps
      <4> QED BY <1>1, <4>2
    <3> QED BY <1>1, <3>1, <3>2
  <2> QED BY <1>1, <2>1, <2>2
<1> QED BY <1>2, <1>3, <1>4

\* A piece that arrives fits where it goes, and is on the stream.
LEMMA Arrives ==
  ASSUME Sizes, HeadFits, FramesInv, ~closed, NEW n \in 1 .. Min({Room, EndOf(Len(stream)) - got})
  PROVE  /\ n \in Nat /\ n > 0 /\ Room \in Nat /\ n <= Room
         /\ got + n <= EndIn(stream, Len(stream))
<1>1. PICK a, b, e : a = Room /\ b = EndOf(Len(stream)) - got /\ e = EndIn(stream, Len(stream))
  OBVIOUS
<1>2. got \in Nat /\ e \in Nat /\ b = e - got /\ got <= e /\ a \in Nat /\ b \in Nat
  <2>1. stream \in Seq(MsgType) /\ Len(stream) \in Nat /\ got \in Nat /\ got <= e
    BY <1>1, LenProperties DEF FramesInv, FramesTypes
  <2>2. Len(stream) \in 0 .. Len(stream)
    BY <2>1
  <2>3. e \in Nat
    BY <1>1, <2>1, <2>2, EndSteps
  <2>4. b = e - got
    BY <1>1 DEF EndOf
  <2>5. a \in Nat
    BY <1>1, RoomInv
  <2> QED BY <2>1, <2>3, <2>4, <2>5
<1>3. Min({a, b}) \in {a, b} /\ \A y \in {a, b} : Min({a, b}) <= y
  <2>1. {a, b} \subseteq Nat /\ {a, b} # {}
    BY <1>2
  <2>2. \E x \in {a, b} : \A y \in {a, b} : x <= y
    BY <2>1, LeastElement
  <2> QED BY <2>2 DEF Min
<1>4. PICK m : m = Min({a, b})
  OBVIOUS
<1>5. m \in Nat /\ m <= a /\ m <= b
  BY <1>2, <1>3, <1>4
<1>6. n \in 1 .. m
  BY <1>1, <1>4
<1> QED BY <1>1, <1>2, <1>5, <1>6

LEMMA ReadHeadInv ==
  ASSUME Sizes, HeadFits, FramesInv, ~closed, NEW n \in 1 .. Min({Room, EndOf(Len(stream)) - got}),
         ReadHead(n)
  PROVE  FramesInv'
<1>1. PICK s, l, r, end :
        s = stream /\ l = Len(s) /\ end = got + n /\ r = Cut(got + n, head + n)
  OBVIOUS
<1>2. /\ s \in Seq(MsgType) /\ l \in Nat /\ got \in Nat /\ head \in Nat
      /\ n \in Nat /\ end \in Nat /\ end <= EndIn(s, l)
  <2>1. s \in Seq(MsgType) /\ l \in Nat /\ got \in Nat /\ head \in Nat
    BY <1>1, LenProperties DEF FramesInv, FramesTypes
  <2>2. n \in Nat /\ got + n <= EndIn(s, l)
    BY <1>1, Arrives
  <2> QED BY <1>1, <2>1, <2>2
<1>3. /\ ~Reading /\ stream' = s /\ got' = end /\ head' = r.left /\ big' = r.big
      /\ IF r.then = "free"
           THEN /\ heard' = (heard \o r.calls) \o
                     (IF r.left > 0 THEN <<Call(end - r.left, r.left, "INVALID_SIZE")>> ELSE <<>>)
                /\ closed' = TRUE
           ELSE heard' = heard \o r.calls /\ closed' \in BOOLEAN
  BY <1>1 DEF ReadHead, Afterwards
<1>4. PICK k \in 0 .. l : heard = Calls(s, 0, k) /\ got = EndIn(s, k) + head
  BY <1>1, <1>3, Open
<1>5. PICK j \in k .. l : Outcome(s, end, k, j, r)
  <2>1. PICK x, e : x = head + n /\ e = EndIn(s, k)
    OBVIOUS
  <2>2. e \in Nat
    BY <1>1, <1>2, <2>1, EndSteps
  <2>3. x \in Nat /\ x <= end /\ end - x = e
    BY <1>1, <1>2, <1>4, <2>1, <2>2
  <2>4. \E j \in k .. Len(stream) : Outcome(stream, end, k, j, Cut(end, x))
    BY <1>1, <1>2, <2>1, <2>3, CutMakes
  <2> QED BY <1>1, <2>1, <2>4
<1>6. /\ r \in ResultType /\ r.calls = Calls(s, k, j) /\ Between(s, j, end)
  BY <1>5 DEF Outcome
<1>7. j \in 0 .. l /\ j \in Nat /\ k \in Nat /\ k <= j /\ j <= l
  BY <1>2, <1>5
<1>8. PICK c : c = Calls(s, 0, j)
  OBVIOUS
<1>9. c \in Seq(CallType) /\ heard \o r.calls = c
  <2>1. 0 \in Nat /\ 0 <= k /\ 0 <= j /\ j <= Len(s) /\ k <= j
    BY <1>1, <1>7
  <2>2. Calls(s, 0, k) \o Calls(s, k, j) = Calls(s, 0, j)
    BY <1>2, <1>7, <2>1, CallsJoin
  <2>3. Calls(s, 0, j) \in Seq(CallType)
    BY <1>2, <1>7, <2>1, CallsTypes
  <2> QED BY <1>4, <1>6, <1>8, <2>2, <2>3
<1>10. FramesTypes' /\ HeardOf(s, j, heard', closed')
  <2>1. stream' \in Seq(MsgType) /\ got' \in Nat /\ head' \in Nat /\ big' \in BlockType
    BY <1>2, <1>3, <1>6 DEF ResultType
  <2>2. CASE r.then # "free"
    <3>1. heard' = c /\ closed' \in BOOLEAN
      BY <1>3, <1>9, <2>2
    <3> QED BY <1>8, <1>9, <2>1, <3>1 DEF FramesTypes, HeardOf
  <2>3. CASE r.then = "free" /\ ~(r.left > 0)
    <3>1. heard' = c \o <<>> /\ closed' = TRUE
      BY <1>3, <1>9, <2>3
    <3>2. heard' = c
      BY <1>9, <3>1, ConcatEmptySeq
    <3> QED BY <1>8, <1>9, <2>1, <3>1, <3>2 DEF FramesTypes, HeardOf
  <2>4. CASE r.then = "free" /\ r.left > 0
    <3>1. PICK e : e = Call(end - r.left, r.left, "INVALID_SIZE")
      OBVIOUS
    <3>2. heard' = c \o <<e>> /\ closed' = TRUE
      BY <1>3, <1>9, <2>4, <3>1
    <3>3. end - r.left \in Nat /\ r.left \in Nat
      <4>1. r.left \in Nat /\ r.left <= end
        BY <1>5, <1>6, <2>4 DEF Outcome, ResultType
      <4> QED BY <1>2, <4>1
    <3>4. e \in CallType /\ e \in ErrorCall
      BY <3>1, <3>3 DEF Call, CallType, Codes, ErrorCall
    <3>5. heard' = Append(c, e) /\ heard' \in Seq(CallType)
      BY <1>9, <3>2, <3>4, AppendIsConcat, AppendProperties
    <3> QED BY <1>8, <2>1, <3>2, <3>4, <3>5 DEF FramesTypes, HeardOf
  <2> QED BY <2>2, <2>3, <2>4
<1>11. closed' \/ Keeps(s, j, end, head', big')
  <2> SUFFICES ASSUME ~closed' PROVE Keeps(s, j, end, head', big')
    OBVIOUS
  <2>1. r.then # "free"
    BY <1>3
  <2> QED BY <1>3, <1>5, <2>1 DEF Outcome, Keeps
<1>12. Reads(j)'
  BY <1>3, <1>6, <1>10, <1>11 DEF Reads
<1>13. got' <= EndIn(stream', Len(stream')) /\ j \in 0 .. Len(stream')
  BY <1>1, <1>2, <1>3, <1>7
<1> QED BY <1>10, <1>12, <1>13 DEF FramesInv

LEMMA ReadBigInv ==
  ASSUME Sizes, HeadFits, FramesInv, ~closed, NEW n \in 1 .. Min({Room, EndOf(Len(stream)) - got}),
         ReadBig(n)
  PROVE  FramesInv'
<1>1. PICK s, l, end : s = stream /\ l = Len(s) /\ end = got + n
  OBVIOUS
<1>2. /\ s \in Seq(MsgType) /\ l \in Nat /\ got \in Nat /\ big \in BlockType
      /\ heard \in Seq(CallType) /\ n \in Nat /\ end \in Nat /\ end <= EndIn(s, l)
  <2>1. /\ s \in Seq(MsgType) /\ l \in Nat /\ got \in Nat /\ big \in BlockType
        /\ heard \in Seq(CallType)
    BY <1>1, LenProperties DEF FramesInv, FramesTypes
  <2>2. n \in Nat /\ got + n <= EndIn(s, l)
    BY <1>1, Arrives
  <2> QED BY <1>1, <2>1, <2>2
<1>3. /\ Reading /\ stream' = s /\ got' = end /\ head' = head
      /\ IF n = big.want
           THEN /\ big' = NoBig
                /\ heard' = Append(heard, Call(big.at, big.len, Verdict(big.len, big.good)))
                /\ closed' \in BOOLEAN
           ELSE /\ big' = [big EXCEPT !.want = @ - n]
                /\ heard' = heard /\ closed' = closed
  BY <1>1 DEF ReadBig
<1>4. PICK k \in 0 .. l :
        /\ heard = Calls(s, 0, k) /\ k < l /\ head = 0 /\ Between(s, k, got)
        /\ big = BlockOf(s, k + 1, EndIn(s, k + 1) - got)
        /\ got < EndIn(s, k + 1) /\ EndIn(s, k + 1) \in Nat
  BY <1>1, <1>3, Open DEF Reads
<1>5. PICK m, f, w : m = s[k + 1] /\ f = EndIn(s, k + 1) /\ w = f - got
  OBVIOUS
<1>6. /\ k \in Nat /\ k + 1 \in 1 .. l /\ k + 1 \in 0 .. l /\ f \in Nat /\ w \in Nat /\ w > 0
      /\ f = got + w
  BY <1>2, <1>4, <1>5
<1>7. /\ m \in MsgType /\ m.len \in Nat /\ m.good \in BOOLEAN
      /\ CallOf(s, k + 1) \in CallType
  BY <1>1, <1>2, <1>5, <1>6, Message, CallTypes
<1>8. big = [at |-> f - m.len, len |-> m.len, want |-> w, good |-> m.good]
  BY <1>4, <1>5 DEF BlockOf
<1>9. n <= w
  <2>1. n <= Room
    BY Arrives
  <2>2. Room = w
    BY <1>3, <1>8 DEF Room
  <2> QED BY <2>1, <2>2
<1>10. CASE n = w
  <2>1. /\ big' = NoBig /\ closed' \in BOOLEAN
        /\ heard' = Append(heard, Call(big.at, big.len, Verdict(big.len, big.good)))
    BY <1>3, <1>8, <1>10
  <2>2. Call(big.at, big.len, Verdict(big.len, big.good)) = CallOf(s, k + 1)
    BY <1>5, <1>8 DEF CallOf
  <2>3. heard' = Append(heard, CallOf(s, k + 1))
    BY <2>1, <2>2
  <2>4. heard' = Calls(s, 0, k + 1) /\ heard' \in Seq(CallType)
    <3>1. heard' = heard \o <<CallOf(s, k + 1)>> /\ heard' \in Seq(CallType)
      BY <1>2, <1>7, <2>3, AppendIsConcat, AppendProperties
    <3>2. PICK b : b = k + 1
      OBVIOUS
    <3>3. 0 \in Nat /\ 0 <= k /\ k <= b /\ b \in Nat /\ b <= Len(s) /\ k + 1 <= Len(s)
      BY <1>1, <1>6, <3>2
    <3>4. Calls(s, k, b) = <<CallOf(s, b)>>
      BY <1>2, <1>6, <3>2, <3>3, OneCall
    <3>5. Calls(s, 0, k) \o Calls(s, k, b) = Calls(s, 0, b)
      <4>1. PICK o : o = 0
        OBVIOUS
      <4>2. o \in Nat /\ k \in Nat /\ b \in Nat /\ o <= k /\ k <= b /\ b <= Len(s)
        BY <1>6, <3>3, <4>1
      <4>3. Calls(s, o, k) \o Calls(s, k, b) = Calls(s, o, b)
        BY <1>2, <4>2, CallsJoin
      <4> QED BY <4>1, <4>3
    <3> QED BY <1>4, <3>1, <3>2, <3>4, <3>5
  <2>5. end = f
    BY <1>1, <1>6, <1>10
  <2>6. Between(s, k + 1, end)
    <3>1. CASE k + 1 < l
      <4>1. k + 1 \in 0 .. l /\ (k + 1) + 1 \in 0 .. l /\ k + 1 < (k + 1) + 1
        BY <1>2, <1>6, <3>1
      <4>2. EndIn(s, k + 1) < EndIn(s, (k + 1) + 1)
        BY <1>1, <1>2, <4>1, EndsInOrder
      <4> QED BY <1>5, <1>6, <2>5, <4>2 DEF Between
    <3>2. CASE k + 1 = l
      <4>1. ~(k + 1 < Len(s))
        BY <1>1, <1>2, <3>2
      <4> QED BY <1>5, <1>6, <2>5, <4>1 DEF Between
    <3> QED BY <1>2, <1>6, <3>1, <3>2
  <2>7. Keeps(s, k + 1, end, head', big')
    <3>1. k + 1 < Len(s) => HeaderOf(s[(k + 1) + 1]) > 0
      <4> SUFFICES ASSUME k + 1 < Len(s) PROVE HeaderOf(s[(k + 1) + 1]) > 0
        OBVIOUS
      <4>1. (k + 1) + 1 \in 1 .. Len(s)
        BY <1>1, <1>2, <1>6
      <4> QED BY <1>2, <4>1, Message
    <3>2. 0 = end - EndIn(s, k + 1)
      BY <1>5, <1>6, <2>5
    <3> QED BY <1>3, <1>4, <2>1, <3>1, <3>2 DEF Keeps
  <2>8. Reads(k + 1)'
    BY <1>3, <2>4, <2>6, <2>7 DEF Reads, HeardOf
  <2>9. NoBig \in BlockType
    BY DEF NoBig, BlockType
  <2>10. FramesTypes'
    BY <1>2, <1>3, <1>4, <2>1, <2>4, <2>9 DEF FramesTypes
  <2>11. got' <= EndIn(stream', Len(stream')) /\ k + 1 \in 0 .. Len(stream')
    BY <1>1, <1>2, <1>3, <1>6
  <2> QED BY <2>8, <2>10, <2>11 DEF FramesInv
<1>11. CASE n < w
  <2>1. big' = [big EXCEPT !.want = @ - n] /\ heard' = heard /\ closed' = closed
    BY <1>2, <1>3, <1>6, <1>8, <1>11
  <2>2. w - n = f - end /\ w - n \in Nat /\ EndIn(s, k) <= end /\ end < f
    <3>1. EndIn(s, k) \in Nat /\ EndIn(s, k) <= got
      BY <1>1, <1>2, <1>4, EndSteps DEF Between
    <3> QED BY <1>1, <1>2, <1>6, <1>11, <3>1
  <2>3. big' = [at |-> f - m.len, len |-> m.len, want |-> f - end, good |-> m.good]
    BY <1>8, <2>1, <2>2
  <2>4. big' = BlockOf(s, k + 1, EndIn(s, k + 1) - end)
    BY <1>5, <2>3 DEF BlockOf
  <2>5. Keeps(s, k, end, head', big')
    BY <1>1, <1>3, <1>4, <2>4 DEF Keeps
  <2>6. Between(s, k, end)
    BY <1>5, <2>2 DEF Between
  <2>7. Reads(k)'
    BY <1>3, <1>4, <2>1, <2>5, <2>6 DEF Reads, HeardOf
  <2>8. big' \in BlockType
    BY <1>2, <2>1, <2>2, <1>8 DEF BlockType
  <2>9. FramesTypes'
    BY <1>2, <1>3, <1>4, <2>1, <2>8 DEF FramesTypes, FramesInv
  <2>10. got' <= EndIn(stream', Len(stream')) /\ k \in 0 .. Len(stream')
    BY <1>1, <1>2, <1>3, <1>6
  <2> QED BY <2>7, <2>9, <2>10 DEF FramesInv
<1> QED BY <1>2, <1>6, <1>9, <1>10, <1>11

LEMMA ReadFailsInv ==
  ASSUME Sizes, FramesInv, ReadFails
  PROVE  FramesInv'
<1>1. PICK e : e = Call(got, 0, "READ_FAILED")
  OBVIOUS
<1>2. /\ ~closed /\ heard' = Append(heard, e) /\ closed' = TRUE
      /\ UNCHANGED <<stream, got, head, big>>
  BY <1>1 DEF ReadFails
<1>3. FramesTypes /\ got \in Nat
  BY DEF FramesInv, FramesTypes
<1>4. e \in CallType /\ e \in ErrorCall
  BY <1>1, <1>3 DEF Call, CallType, Codes, ErrorCall
<1>5. PICK k \in 0 .. Len(stream) : Reads(k)
  BY DEF FramesInv
<1>6. heard = Calls(stream, 0, k)
  BY <1>2, <1>5 DEF Reads, HeardOf
<1>7. Reads(k)'
  BY <1>2, <1>4, <1>5, <1>6 DEF Reads, HeardOf
<1>8. heard' \in Seq(CallType)
  BY <1>2, <1>3, <1>4, AppendProperties DEF FramesTypes
<1>9. FramesTypes'
  BY <1>2, <1>3, <1>8 DEF FramesTypes
<1> QED BY <1>2, <1>5, <1>7, <1>9 DEF FramesInv

LEMMA FramesNext ==
  ASSUME Sizes, HeadFits, FramesInv, [FramingNext]_framing
  PROVE  FramesInv'
<1>1. CASE \E n \in Lengths, good \in BOOLEAN : SendMessage(n, good)
  BY <1>1, SendInv
<1>2. CASE Read
  <2>1. ~closed /\ \E n \in 1 .. Min({Room, EndOf(Len(stream)) - got}) : ReadHead(n) \/ ReadBig(n)
    BY <1>2 DEF Read
  <2> QED BY <2>1, ReadHeadInv, ReadBigInv
<1>3. CASE ReadFails
  BY <1>3, ReadFailsInv
<1>4. CASE UNCHANGED framing
  <2>1. UNCHANGED <<stream, got, head, big, heard, closed>>
    BY <1>4 DEF framing
  <2> QED BY <2>1 DEF FramesInv, FramesTypes, Reads
<1> QED BY <1>1, <1>2, <1>3, <1>4 DEF FramingNext

LEMMA InvHeard ==
  ASSUME Sizes, FramesInv
  PROVE  HeardIsRead
<1>1. PICK k \in 0 .. Len(stream) : Reads(k)
  BY DEF FramesInv
<1>2. /\ stream \in Seq(MsgType) /\ Len(stream) \in Nat /\ got \in Nat /\ k \in Nat /\ k <= Len(stream)
      /\ DOMAIN stream = 1 .. Len(stream)
  BY LenProperties DEF FramesInv, FramesTypes
<1>3. Arrived = 1 .. k
  <2>1. ASSUME NEW i \in 1 .. Len(stream) PROVE EndIn(stream, i) <= got <=> i <= k
    <3>1. i \in 0 .. Len(stream) /\ EndIn(stream, i) \in Nat /\ EndIn(stream, k) \in Nat
      BY <1>2, EndSteps
    <3>2. EndIn(stream, k) <= got
      BY <1>1 DEF Reads, Between
    <3>3. CASE i = k
      BY <3>2, <3>3
    <3>4. CASE i < k
      <4>1. EndIn(stream, i) < EndIn(stream, k)
        BY <1>2, <3>1, <3>4, EndsInOrder
      <4> QED BY <1>2, <3>1, <3>2, <3>4, <4>1
    <3>5. CASE i > k
      <4>1. k + 1 \in 0 .. Len(stream) /\ k < Len(stream) /\ (i = k + 1 \/ k + 1 < i)
        BY <1>2, <3>5
      <4>2. EndIn(stream, k + 1) \in Nat /\ got < EndIn(stream, k + 1)
        BY <1>1, <1>2, <4>1, EndSteps DEF Reads, Between
      <4>3. i = k + 1 \/ EndIn(stream, k + 1) < EndIn(stream, i)
        BY <1>2, <3>1, <4>1, EndsInOrder
      <4>4. got < EndIn(stream, i)
        BY <1>2, <3>1, <4>2, <4>3
      <4> QED BY <1>2, <3>1, <3>5, <4>4
    <3> QED BY <1>2, <3>3, <3>4, <3>5
  <2>2. Arrived = {i \in 1 .. Len(stream) : EndIn(stream, i) <= got}
    BY <1>2 DEF Arrived, EndOf
  <2> QED BY <1>2, <2>1, <2>2
<1> DEFINE whole == [i \in Arrived |->
                       Call(EndOf(i) - stream[i].len, stream[i].len,
                            Verdict(stream[i].len, stream[i].good))]
<1>4. whole = Calls(stream, 0, k)
  <2>1. whole = [i \in 1 .. k |-> CallOf(stream, i)]
    BY <1>3 DEF CallOf, EndOf
  <2>2. k - 0 = k /\ \A i \in 1 .. k : 0 + i = i
    BY <1>2
  <2>3. Calls(stream, 0, k) = [i \in 1 .. k |-> CallOf(stream, i)]
    BY <2>2 DEF Calls
  <2> QED BY <2>1, <2>3
<1>5. CASE heard = Calls(stream, 0, k)
  BY <1>4, <1>5 DEF HeardIsRead
<1>6. ASSUME closed, NEW e \in ErrorCall, heard = Append(Calls(stream, 0, k), e)
      PROVE  HeardIsRead
  <2>1. PICK c : c = Calls(stream, 0, k)
    OBVIOUS
  <2>2. c \in Seq(CallType)
    <3>1. 0 \in Nat /\ 0 <= k
      BY <1>2
    <3> QED BY <1>2, <2>1, <3>1, CallsTypes
  <2>3. e \in CallType /\ e.is \in {"INVALID_SIZE", "READ_FAILED"}
    BY DEF ErrorCall, CallType, Codes
  <2>4. PICK h, l : h = Append(c, e) /\ l = Len(h)
    OBVIOUS
  <2>5. h # <<>> /\ l \in Nat /\ h[l] = e /\ SubSeq(h, 1, l - 1) = c
    <3>1. Len(c) \in Nat /\ l = Len(c) + 1 /\ h # <<>>
      BY <2>2, <2>3, <2>4, AppendProperties, LenProperties
    <3>2. h[l] = e
      BY <2>2, <2>3, <2>4, <3>1, AppendProperties
    <3>3. SubSeq(h, 1, l - 1) = c
      <4>1. PICK n, d : n = Len(c) /\ d = SubSeq(h, 1, n)
        OBVIOUS
      <4>2. n \in Nat /\ l - 1 = n /\ \A i \in 1 .. n : h[i] = c[i] /\ h[i] \in CallType
        BY <2>2, <2>3, <2>4, <3>1, <4>1, AppendProperties, ElementOfSeq
      <4>3. CASE n = 0
        <5>1. 1 \in Int /\ n \in Int /\ n < 1
          BY <4>3
        <5>2. SubSeq(h, 1, n) = <<>>
          BY <5>1, SubSeqEmpty
        <5>3. c = <<>>
          BY <2>2, <4>1, <4>3, EmptySeq
        <5> QED BY <4>2, <5>2, <5>3
      <4>4. CASE n > 0
        <5>1. /\ d \in Seq(CallType) /\ Len(d) = n
              /\ \A i \in 1 .. n : d[i] = h[i]
          <6>1. 1 \in Int /\ n \in Int /\ 1 <= n /\ n - 1 + 1 = n
            BY <4>2, <4>4
          <6>2. /\ d \in Seq(CallType) /\ Len(d) = (n - 1) + 1
                /\ \A i \in 1 .. (n - 1) + 1 : d[i] = h[(1 + i) - 1]
            BY <4>1, <4>2, <6>1, SubSeqProperties
          <6>3. (n - 1) + 1 = n /\ \A i \in 1 .. n : (1 + i) - 1 = i
            BY <4>2
          <6> QED BY <6>2, <6>3
        <5>2. d = c
          BY <2>2, <4>1, <4>2, <5>1, SeqEqual
        <5> QED BY <4>1, <4>2, <5>2
      <4> QED BY <4>2, <4>3, <4>4
    <3> QED BY <2>4, <3>1, <3>2, <3>3
  <2>6. heard = h /\ Len(heard) = l
    BY <1>6, <2>1, <2>4
  <2> HIDE DEF whole
  <2>7. heard # <<>> /\ SubSeq(heard, 1, Len(heard) - 1) = whole
        /\ heard[Len(heard)].is \in {"INVALID_SIZE", "READ_FAILED"}
    BY <1>4, <2>1, <2>3, <2>5, <2>6
  <2> QED BY <1>6, <2>7 DEF HeardIsRead, whole
<1> QED BY <1>1, <1>5, <1>6 DEF Reads, HeardOf

LEMMA InvAlways ==
  FramingSpec => []FramesInv
<1>1. FramingInit => FramesInv
  BY SizeAssumption, FramesInit
<1>2. FramesInv /\ [FramingNext]_framing => FramesInv'
  BY SizeAssumption, HeadAssumption, FramesNext
<1> QED BY <1>1, <1>2, PTL DEF FramingSpec

\* io_stream_on_recv_read_fn makes of the bytes what io_stream_send made bytes of: however
\* they are cut into pieces, whatever the lengths of the messages and the size of the head,
\* the user is called with the messages that have arrived, whole, in order and at once, and
\* after them at most with the error that ends the stream.
THEOREM HeardInOrder ==
  FramingSpec => []HeardIsRead
<1>1. FramesInv => HeardIsRead
  BY SizeAssumption, InvHeard
<1>2. FramingSpec => []FramesInv
  BY InvAlways
<1> QED BY <1>1, <1>2, PTL

\* io_stream_on_recv_alloc_fn never offers an empty piece, if the head has room for the
\* header of the longest message.
THEOREM AlwaysRoom ==
  FramingSpec => []HeadHasRoom
<1>1. FramesInv => HeadHasRoom
  BY SizeAssumption, HeadAssumption, RoomInv
<1>2. FramingSpec => []FramesInv
  BY InvAlways
<1> QED BY <1>1, <1>2, PTL
=============================================================================
