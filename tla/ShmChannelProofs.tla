-------------------------- MODULE ShmChannelProofs --------------------------
(***************************************************************************)
(* Where mem_attach can succeed - in builds whose node size is a multiple of  *)
(* 256 - a shared memory channel is never wiped under its users, for any      *)
(* number of processes, connections, messages and deaths.                   *)
(***************************************************************************)
EXTENDS ShmChannel, TLAPS

-----------------------------------------------------------------------------
Stages == {"idle", "check", "create", "wipe", "write"}

Types ==
  /\ size \in Nat /\ sent \in Nat
  /\ at \in [Procs -> [pc : Stages, conn : Conns]]
  /\ valid \subseteq open

\* What the theorems assume, kept at hand for every step.
Assumed == Parameters /\ Terminated

\* The processes that are making the channel and whose shmget will not be refused.
Makers == {p \in Making : size = 0 \/ Size[p] <= size}

\* Whoever has got past shmget has a segment that is large enough.
Large == \A p \in Procs : at[p].pc \in {"wipe", "write"} => size > 0 /\ Size[p] <= size

\* One process makes the channel while there is none, and before anybody uses it.
Kept ==
  /\ ring \cup got = 1 .. sent
  /\ left \subseteq ring \cup got
  /\ magic => size > 0
  /\ ~magic => open = {} /\ ring = {}
  /\ Makers # {} => ~magic
  /\ \A p, q \in Makers : p = q

IInv == Assumed /\ Types /\ Large /\ ("overlap" \notin hz => Kept)

-----------------------------------------------------------------------------
LEMMA IdleType == Assumed => Idle \in [pc : Stages, conn : Conns] /\ Idle.pc = "idle"
  BY DEF Assumed, Parameters, Idle, Stages

\* A call of p that goes on.
LEMMA GoesOn ==
  ASSUME Types, NEW p \in Procs, NEW pc \in Stages, at' = [at EXCEPT ![p].pc = pc]
  PROVE  LET s == [pc |-> pc, conn |-> at[p].conn]
         IN s \in [pc : Stages, conn : Conns] /\ at' = [at EXCEPT ![p] = s]
<1> DEFINE s == [pc |-> pc, conn |-> at[p].conn]
<1>1. at[p] \in [pc : Stages, conn : Conns]
  BY DEF Types
<1>2. [at[p] EXCEPT !.pc = pc] = s
  BY <1>1
<1>3. at' = [at EXCEPT ![p] = [at[p] EXCEPT !.pc = pc]]
  OBVIOUS
<1>4. s \in [pc : Stages, conn : Conns]
  BY <1>1
<1> HIDE DEF s
<1>5. at' = [at EXCEPT ![p] = s]
  BY <1>2, <1>3
<1> QED BY <1>4, <1>5 DEF s

\* Where everybody else is when p has moved on.
LEMMA Moved ==
  ASSUME Types, NEW p \in Procs, NEW s \in [pc : Stages, conn : Conns],
         at' = [at EXCEPT ![p] = s]
  PROVE  /\ at' \in [Procs -> [pc : Stages, conn : Conns]]
         /\ at'[p] = s /\ \A q \in Procs \ {p} : at'[q] = at[q]
  BY DEF Types

\* What shmat gives back was the connections' before.
LEMMA MapValid ==
  ASSUME valid \subseteq open, NEW p \in Procs, Map(p) \/ valid' = valid
  PROVE  valid' \subseteq open
  BY DEF Map

LEMMA OpenInv ==
  ASSUME IInv, NEW p \in Procs, NEW c \in Conns, Open(p, c)
  PROVE  IInv'
<1> DEFINE s == [pc |-> IF Found(p) THEN "check" ELSE "create", conn |-> c]
<1>1. s \in [pc : Stages, conn : Conns] /\ s.pc \in {"check", "create"}
  BY DEF Stages
<1>2. at' = [at EXCEPT ![p] = s] /\ UNCHANGED <<size, magic, ring, open, sent, got, left>>
  BY DEF Open, segment, traffic, faults
<1>3. s.pc = "create" => size = 0 \/ ~(Size[p] <= size)
  <2>1. size \in Nat
    BY DEF IInv, Types
  <2> QED BY <2>1 DEF Found
<1>4. hz' = IF size = 0 /\ Making # {} THEN hz \cup {"overlap"} ELSE hz
  BY DEF Open
<1>a. valid' \subseteq open'
  BY <1>2, MapValid DEF Open, IInv, Types
<1> HIDE DEF s
<1>5. /\ Types' /\ at'[p] = s /\ \A q \in Procs \ {p} : at'[q] = at[q]
  BY <1>1, <1>2, <1>a, Moved DEF IInv, Types
<1>6. Large'
  BY <1>1, <1>2, <1>5 DEF IInv, Large
<1>7. ASSUME "overlap" \notin hz' PROVE Kept'
  <2>1. "overlap" \notin hz /\ ~(size = 0 /\ Making # {})
    BY <1>4, <1>7
  <2>2. Kept
    BY <2>1 DEF IInv
  <2>3. Makers' \subseteq IF size = 0 THEN {p} ELSE Makers
    BY <1>1, <1>2, <1>3, <1>5, <2>1 DEF Makers, Making
  <2>4. size = 0 => ~magic
    BY <2>2 DEF Kept, IInv, Types
  <2> QED BY <1>2, <2>2, <2>3, <2>4 DEF Kept
<1> QED BY <1>5, <1>6, <1>7 DEF IInv, Assumed

LEMMA AttachInv ==
  ASSUME IInv, NEW p \in Procs, Attach(p)
  PROVE  IInv'
<1>0. at[p].pc = "check" /\ UNCHANGED <<size, magic, ring, sent, got, left>>
  BY DEF Attach, segment, traffic, faults
<1>1. CASE magic
  <2>1. at' = [at EXCEPT ![p] = Idle] /\ open' = open \cup {<<p, at[p].conn>>} /\ hz' = hz
    BY <1>1 DEF Attach, Opened, IInv, Assumed
  <2>a. valid' \subseteq open'
    BY <1>1 DEF Attach, Opened, IInv, Assumed, Types
  <2>2. Types' /\ at'[p] = Idle /\ \A q \in Procs \ {p} : at'[q] = at[q]
    BY <1>0, <2>1, <2>a, IdleType, Moved DEF IInv, Types
  <2>3. Large'
    BY <1>0, <2>2, IdleType DEF IInv, Large
  <2>4. Makers' \subseteq Makers
    BY <1>0, <2>2, IdleType DEF IInv, Makers, Making
  <2> QED BY <1>0, <1>1, <2>1, <2>2, <2>3, <2>4 DEF IInv, Kept
<1>2. CASE ~magic
  <2> DEFINE s == [pc |-> "create", conn |-> at[p].conn]
  <2>1. at' = [at EXCEPT ![p].pc = "create"] /\ UNCHANGED open /\ "create" \in Stages
    BY <1>0, <1>2 DEF Attach, NoChannel, Stages
  <2>2. s \in [pc : Stages, conn : Conns] /\ at' = [at EXCEPT ![p] = s]
    BY <2>1, GoesOn DEF IInv
  <2>3. hz' = IF Making # {} THEN hz \cup {"overlap"} ELSE hz
    BY <1>2 DEF Attach, NoChannel
  <2>4. s.pc = "create"
    OBVIOUS
  <2>a. valid' \subseteq open'
    BY <1>2 DEF Attach, NoChannel, IInv, Types
  <2> HIDE DEF s
  <2>5. Types' /\ at'[p] = s /\ \A q \in Procs \ {p} : at'[q] = at[q]
    BY <1>0, <2>2, <2>a, Moved DEF IInv, Types
  <2>6. Large'
    BY <1>0, <2>4, <2>5 DEF IInv, Large
  <2>7. ASSUME "overlap" \notin hz' PROVE Kept'
    <3>1. Kept /\ Making = {}
      BY <2>3, <2>7 DEF IInv
    <3>2. Makers' \subseteq {p}
      BY <2>5, <3>1 DEF Makers, Making
    <3> QED BY <1>0, <1>2, <2>1, <3>1, <3>2 DEF Kept
  <2> QED BY <2>5, <2>6, <2>7 DEF IInv
<1> QED BY <1>1, <1>2

LEMMA CreateInv ==
  ASSUME IInv, NEW p \in Procs, Create(p)
  PROVE  IInv'
<1>0. at[p].pc = "create" /\ UNCHANGED <<magic, ring, open, sent, got, left, hz>>
  BY DEF Create, traffic, faults
<1>a. valid' \subseteq open'
  BY <1>0, MapValid DEF Create, IInv, Types
<1>1. CASE /\ size = 0 \/ Size[p] <= size
           /\ size' = IF size = 0 THEN Size[p] ELSE size
           /\ at' = [at EXCEPT ![p].pc = "wipe"]
  <2> DEFINE s == [pc |-> "wipe", conn |-> at[p].conn]
  <2>1. s.pc = "wipe" /\ "wipe" \in Stages
    BY DEF Stages
  <2>2. s \in [pc : Stages, conn : Conns] /\ at' = [at EXCEPT ![p] = s]
    BY <1>1, <2>1, GoesOn DEF IInv
  <2> HIDE DEF s
  <2>3. /\ size' \in Nat /\ size' > 0 /\ Size[p] <= size'
        /\ \A q \in Procs : size > 0 /\ Size[q] <= size => Size[q] <= size'
        /\ \A q \in Procs : Size[q] <= size' => size = 0 \/ Size[q] <= size
    <3>1. size \in Nat /\ \A q \in Procs : Size[q] \in Nat /\ Size[q] > 0
      BY DEF IInv, Assumed, Parameters, Types
    <3>2. CASE size = 0
      BY <1>1, <3>1, <3>2
    <3>3. CASE size # 0
      BY <1>1, <3>1, <3>3
    <3> QED BY <3>2, <3>3
  <2>4. Types' /\ at'[p] = s /\ \A q \in Procs \ {p} : at'[q] = at[q]
    BY <1>0, <1>a, <2>1, <2>2, <2>3, Moved DEF IInv, Types
  <2>5. Large'
    BY <2>1, <2>3, <2>4 DEF IInv, Large
  <2>6. p \in Makers /\ Makers' \subseteq Makers
    BY <1>0, <1>1, <2>1, <2>3, <2>4 DEF Makers, Making
  <2> QED BY <1>0, <2>3, <2>4, <2>5, <2>6 DEF IInv, Kept
<1>2. CASE at' = [at EXCEPT ![p] = Idle] /\ UNCHANGED size
  <2>1. Types' /\ at'[p] = Idle /\ \A q \in Procs \ {p} : at'[q] = at[q]
    BY <1>0, <1>a, <1>2, IdleType, Moved DEF IInv, Types
  <2>2. Large' /\ Makers' \subseteq Makers
    BY <1>2, <2>1, IdleType DEF IInv, Large, Makers, Making
  <2> QED BY <1>0, <1>2, <2>1, <2>2 DEF IInv, Kept
<1> QED BY <1>1, <1>2 DEF Create

\* mem_init, begun: the process that is making the channel is the only one, and nobody uses it.
LEMMA WipeInv ==
  ASSUME IInv, NEW p \in Procs, Wipe(p)
  PROVE  IInv'
<1> DEFINE s == [pc |-> "write", conn |-> at[p].conn]
<1>1. s.pc = "write" /\ "write" \in Stages
  BY DEF Stages
<1>2. s \in [pc : Stages, conn : Conns] /\ at' = [at EXCEPT ![p] = s]
  BY <1>1, GoesOn DEF Wipe, IInv
<1>3. at[p].pc = "wipe" /\ magic' = FALSE /\ ring' = {} /\ UNCHANGED <<size, open, valid, sent, got, left, hz>>
  BY DEF Wipe, users, traffic, faults
<1> HIDE DEF s
<1>4. Types' /\ at'[p] = s /\ \A q \in Procs \ {p} : at'[q] = at[q]
  BY <1>1, <1>2, <1>3, Moved DEF IInv, Types
<1>5. Large'
  BY <1>1, <1>3, <1>4 DEF IInv, Large
<1>6. p \in Makers /\ Makers' \subseteq Makers
  BY <1>1, <1>3, <1>4 DEF IInv, Large, Makers, Making
<1> QED BY <1>3, <1>4, <1>5, <1>6 DEF IInv, Kept

\* mem_init, done: nobody else is making it any more.
LEMMA WriteHeadInv ==
  ASSUME IInv, NEW p \in Procs, WriteHead(p)
  PROVE  IInv'
<1>1. at[p].pc = "write" /\ magic' = TRUE /\ UNCHANGED <<size, ring, sent, got, left, hz>>
  BY DEF WriteHead, traffic, faults
<1>2. at' = [at EXCEPT ![p] = Idle] /\ valid' \subseteq open'
  BY DEF WriteHead, Opened, IInv, Types
<1>3. Types' /\ at'[p] = Idle /\ \A q \in Procs \ {p} : at'[q] = at[q]
  BY <1>1, <1>2, IdleType, Moved DEF IInv, Types
<1>4. Large'
  BY <1>1, <1>3, IdleType DEF IInv, Large
<1>5. p \in Makers /\ size > 0 /\ Makers' \subseteq Makers \ {p}
  BY <1>1, <1>3, IdleType DEF IInv, Large, Makers, Making
<1> QED BY <1>1, <1>3, <1>4, <1>5 DEF IInv, Kept

\* Fewer connections and fewer calls.
LEMMA FewerInv ==
  ASSUME IInv, NEW p \in Procs, at' = at \/ at' = [at EXCEPT ![p] = Idle], open' \subseteq open, valid' \subseteq open',
         left' \subseteq left \cup ring, UNCHANGED <<size, magic, ring, sent, got, hz>>
  PROVE  IInv'
<1>1. CASE at' = at
  BY <1>1 DEF IInv, Types, Large, Kept, Makers, Making
<1>2. CASE at' = [at EXCEPT ![p] = Idle]
  <2>1. Types' /\ at'[p] = Idle /\ \A q \in Procs \ {p} : at'[q] = at[q]
    BY <1>2, IdleType, Moved DEF IInv, Types
  <2>2. Large' /\ Makers' \subseteq Makers
    BY <2>1, IdleType DEF IInv, Large, Makers, Making
  <2> QED BY <2>1, <2>2 DEF IInv, Kept
<1> QED BY <1>1, <1>2

LEMMA SendInv ==
  ASSUME IInv, NEW p \in Procs, NEW c \in Conns, Send(p, c) \/ Receive(p, c)
  PROVE  IInv'
<1>1. UNCHANGED <<size, at, open, valid, left, hz, magic>>
  BY DEF Send, Receive, users, faults
<1>2. sent' \in Nat
  BY DEF Send, Receive, IInv, Types
<1>3. ASSUME Kept PROVE Kept'
  <2>1. magic
    BY <1>3 DEF Send, Receive, Kept, IInv, Types
  <2>2. ring' \cup got' = 1 .. sent' /\ ring \cup got \subseteq ring' \cup got'
    <3>1. CASE Send(p, c)
      <4>1. sent \in Nat /\ sent' = sent + 1 /\ ring' = ring \cup {sent'} /\ got' = got
        BY <2>1, <3>1 DEF Send, IInv, Types
      <4>2. 1 .. sent + 1 = (1 .. sent) \cup {sent + 1}
        BY <4>1
      <4> QED BY <1>3, <4>1, <4>2 DEF Kept
    <3>2. CASE Receive(p, c)
      BY <1>3, <3>2 DEF Receive, Kept
    <3> QED BY <3>1, <3>2
  <2> QED BY <1>1, <1>3, <2>1, <2>2 DEF Kept, Makers, Making
<1> QED BY <1>1, <1>2, <1>3 DEF IInv, Assumed, Types, Large, Makers, Making

LEMMA InitInv == Assumed /\ Init => IInv
<1> SUFFICES ASSUME Assumed, Init PROVE IInv
  OBVIOUS
<1>1. \A p \in Procs : at[p].pc = "idle"
  BY IdleType DEF Init
<1>2. Types /\ Large /\ Makers = {}
  BY <1>1, IdleType DEF Init, Types, Large, Makers, Making
<1> QED BY <1>2 DEF Init, IInv, Kept

LEMMA NextInv == IInv /\ [Next]_vars => IInv'
<1> SUFFICES ASSUME IInv, [Next]_vars PROVE IInv'
  OBVIOUS
<1>1. CASE UNCHANGED vars
  BY <1>1 DEF vars, IInv, Assumed, Types, Large, Kept, Makers, Making
<1>2. ASSUME NEW p \in Procs, Attach(p) \/ Create(p) \/ Wipe(p) \/ WriteHead(p)
      PROVE  IInv'
  BY <1>2, AttachInv, CreateInv, WipeInv, WriteHeadInv
<1>3. ASSUME NEW p \in Procs, Die(p) PROVE IInv'
  BY <1>3, FewerInv DEF Die, segment, traffic, IInv, Types
<1>4. ASSUME NEW p \in Procs, NEW c \in Conns, Close(p, c) PROVE IInv'
  BY <1>4, FewerInv DEF Close, Of, segment, traffic, faults, IInv, Types
<1>5. ASSUME NEW p \in Procs, NEW c \in Conns, Open(p, c) \/ Send(p, c) \/ Receive(p, c)
      PROVE  IInv'
  BY <1>5, OpenInv, SendInv
<1> QED BY <1>1, <1>2, <1>3, <1>4, <1>5 DEF Next

\* What every reachable state has, where mem_attach can succeed.
LEMMA Invariant == ASSUME Assumed PROVE Spec => []IInv
  BY InitInv, NextInv, PTL DEF Spec

-----------------------------------------------------------------------------
\* shm_attach before shm_init is enough in a build whose node size ends the magic text: however
\* processes come, go and die, nobody wipes a channel that holds messages or is in use, and
\* none gets one that is half made; unless two processes found none at the same time.
THEOREM NeverWiped == ASSUME Parameters, Terminated PROVE Spec => []RingKept
<1>1. IInv => RingKept
  BY DEF IInv, Kept, RingKept
<1>2. Spec => []IInv
  BY Invariant DEF Assumed
<1> QED BY <1>1, <1>2, PTL

\* In such a build a reader that crashed goes on where it was: the promise that the build as it
\* comes breaks.
THEOREM ReaderGoesOn == ASSUME Parameters, Terminated PROVE Spec => []ReaderResumes
<1>1. IInv => ReaderResumes
  BY DEF IInv, Kept, ReaderResumes
<1>2. Spec => []IInv
  BY Invariant DEF Assumed
<1> QED BY <1>1, <1>2, PTL
=============================================================================
