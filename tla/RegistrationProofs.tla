-------------------------- MODULE RegistrationProofs --------------------------
(***************************************************************************)
(* Type correctness of the handshake between a node and its father, and its  *)
(* two safety properties, for any number of connections and of starts: a     *)
(* node goes up only when it was accepted, and the father's endpoint holds    *)
(* connections of one process.                                              *)
(*                                                                         *)
(* The inductive invariant is Coherent, stated of any two processes and the  *)
(* messages between them.  Most steps only take something away from a         *)
(* process (Calmer, Less), which cannot break it.                            *)
(***************************************************************************)
EXTENDS Registration, TLAPS

-----------------------------------------------------------------------------
\* The part of TypeOK about one process that is no type.
Well(p) == (p.has \/ p.end = NoEnd) /\ p.end.ctrl \notin p.end.data

Queues == [Conns -> Seq(Messages)]

\* On a connection the node has open, a success is under way only if the node was
\* accepted, and requests are those of the process that runs.
MessagesInv(c, qc, qf, acc) ==
  \A k \in Conns : c.at[k] = "open" =>
    /\ \A i \in DOMAIN qc[k] : qc[k][i].type = "ok" => c.start \in acc
    /\ \A i \in DOMAIN qf[k] : qf[k][i].type = "req" => qf[k][i].start = c.start

\* A request comes from a process that was started.
RequestsInv(qf) ==
  \A k \in Conns : \A i \in DOMAIN qf[k] : qf[k][i].type = "req" => qf[k][i].start \in 1 .. MaxStarts

\* What the node notes of its registration is true.
FlagsInv(c, acc) == c.regdone \/ c.actived => c.start \in acc

\* A connection of the father's endpoint is open there, and what the node is
\* connecting is not in use there.
PlacesInv(c, f) ==
  /\ \A k \in Bound(f) : f.at[k] = "open"
  /\ \A k \in Conns : c.at[k] \in {"wait", "late"} => f.at[k] = "none"

\* SameProcess, of any two processes.
ProcessInv(c, f) == \A k \in Bound(f) : c.at[k] = "open" => f.end.start = c.start

Coherent(c, f, qc, qf, acc) ==
  /\ c \in ChildType /\ Well(c)
  /\ f \in FatherType /\ Well(f)
  /\ qc \in Queues /\ qf \in Queues
  /\ MessagesInv(c, qc, qf, acc)
  /\ RequestsInv(qf)
  /\ FlagsInv(c, acc)
  /\ PlacesInv(c, f)
  /\ ProcessInv(c, f)

\* A side that has closed a connection has no messages coming on it.
Silent(c, f, qc, qf) ==
  \A k \in Conns : (qc[k] # <<>> => c.at[k] = "open") /\ (qf[k] # <<>> => f.at[k] = "open")

IInv ==
  /\ Coherent(child, father, toC, toF, accepted)
  /\ Silent(child, father, toC, toF)
  /\ calm \in BOOLEAN /\ accepted \subseteq 1 .. MaxStarts /\ hz \subseteq Windows

-----------------------------------------------------------------------------
\* d is c after it lost connections or forgot something.
Calmer(c, d) ==
  /\ d \in ChildType /\ Well(d)
  /\ d.start = c.start
  /\ d.regdone => c.regdone
  /\ d.actived => c.actived \/ c.regdone
  /\ \A k \in Conns :
       /\ d.at[k] = "open" => c.at[k] = "open"
       /\ d.at[k] \in {"wait", "late"} => c.at[k] \in {"wait", "late"}

\* The same of the father's process: what it keeps in its endpoint it keeps open.
Less(f, g) ==
  /\ g \in FatherType /\ Well(g)
  /\ Bound(g) \subseteq Bound(f)
  /\ g.end.start = f.end.start \/ Bound(g) = {}
  /\ \A k \in Conns : g.at[k] = "open" => f.at[k] = "open"
  /\ \A k \in Bound(g) : g.at[k] = f.at[k]


\* What is bound are connections.
LEMMA BoundType ==
  ASSUME NEW p, p.end \in EndType
  PROVE  Bound(p) \subseteq Conns
  BY BoundAssumption DEF Bound, EndType

LEMMA CalmerTrans ==
  ASSUME NEW c, NEW d, NEW e, Calmer(c, d), Calmer(d, e)
  PROVE  Calmer(c, e)
  BY DEF Calmer

LEMMA LessTrans ==
  ASSUME NEW f, NEW g, NEW h, Less(f, g), Less(g, h)
  PROVE  Less(f, h)
  BY DEF Less, Bound

\* Such changes keep what is coherent coherent ...
LEMMA Harmless ==
  ASSUME NEW c, NEW f, NEW qc, NEW qf, NEW acc, NEW d, NEW g,
         Coherent(c, f, qc, qf, acc), Calmer(c, d), Less(f, g)
  PROVE  Coherent(d, g, qc, qf, acc)
<1>1. d \in ChildType /\ Well(d) /\ g \in FatherType /\ Well(g) /\ qc \in Queues /\ qf \in Queues
  BY DEF Coherent, Calmer, Less
<1>2. MessagesInv(d, qc, qf, acc) /\ FlagsInv(d, acc)
  BY DEF Coherent, MessagesInv, FlagsInv, Calmer
<1>3. Bound(f) \subseteq Conns /\ Bound(g) \subseteq Conns
  BY <1>1, BoundType DEF Coherent, FatherType
<1>4. PlacesInv(d, g)
  <2>1. \A k \in Bound(g) : g.at[k] = "open"
    BY DEF Coherent, PlacesInv, Less
  <2>2. ASSUME NEW k \in Conns, d.at[k] \in {"wait", "late"} PROVE g.at[k] = "none"
    <3>1. f.at[k] = "none"
      BY <2>2 DEF Coherent, PlacesInv, Calmer
    <3>2. g.at[k] \in {"none", "open"}
      BY <1>1 DEF FatherType, FAt
    <3> QED BY <3>1, <3>2 DEF Less
  <2> QED BY <2>1, <2>2 DEF PlacesInv
<1>5. ProcessInv(d, g)
  BY <1>3 DEF Coherent, ProcessInv, Calmer, Less
<1> QED BY <1>1, <1>2, <1>4, <1>5 DEF Coherent

\* ... and so does a step, which drops what is under way to a closed connection.
LEMMA StepInv ==
  ASSUME NEW c, NEW f, NEW qc, NEW qf, Become(c, f, qc, qf), Coherent(c, f, qc, qf, accepted'),
         calm' \in BOOLEAN, accepted' \subseteq 1 .. MaxStarts, hz' \subseteq Windows
  PROVE  IInv'
<1>1. toC' = Heard(qc, c) /\ toF' = Heard(qf, f) /\ child' = c /\ father' = f
  BY DEF Become
<1>2. toC' \in Queues /\ toF' \in Queues
  BY <1>1 DEF Heard, Queues, Coherent
<1>3. \A k \in Conns : toC'[k] \in {qc[k], <<>>} /\ toF'[k] \in {qf[k], <<>>}
  BY <1>1 DEF Heard
<1>4. MessagesInv(c, toC', toF', accepted')
  <2> SUFFICES ASSUME NEW k \in Conns, c.at[k] = "open"
               PROVE  /\ \A i \in DOMAIN toC'[k] : toC'[k][i].type = "ok" => c.start \in accepted'
                      /\ \A i \in DOMAIN toF'[k] : toF'[k][i].type = "req" => toF'[k][i].start = c.start
    BY DEF MessagesInv
  <2>1. DOMAIN <<>> = {}
    OBVIOUS
  <2> QED BY <1>3, <2>1 DEF Coherent, MessagesInv
<1>5. RequestsInv(toF')
  <2>1. DOMAIN <<>> = {}
    OBVIOUS
  <2> QED BY <1>3, <2>1 DEF Coherent, RequestsInv
<1>6. Silent(c, f, toC', toF')
  BY <1>1 DEF Silent, Heard
<1> QED BY <1>1, <1>2, <1>4, <1>5, <1>6 DEF Coherent, IInv

-----------------------------------------------------------------------------
\* What the operations of the node do to a process c of the right type.

LEMMA ChildEnd ==
  ASSUME NEW c \in ChildType
  PROVE  c.end \in EndType /\ Bound(c) \subseteq Conns /\ NoEnd \in EndType
  BY BoundAssumption, BoundType DEF ChildType, EndType, NoEnd

LEMMA ChildClose ==
  ASSUME NEW c \in ChildType, Well(c), NEW K
  PROVE  Calmer(c, Close(c, K))
  BY DEF Close, ChildType, CAt, Calmer, Well

LEMMA ChildOnDisconnect ==
  ASSUME NEW c \in ChildType, Well(c)
  PROVE  Calmer(c, OnDisconnect(c))
  BY DEF OnDisconnect, ChildType, Calmer, Well

\* What is left of an endpoint that is reset.
LEMMA EmptiedEnd ==
  ASSUME NEW e \in EndType
  PROVE  /\ Emptied(e) \in EndType
         /\ Emptied(e).ctrl = None /\ Emptied(e).data = {} /\ Emptied(e).start = e.start
         /\ e = NoEnd => Emptied(e) = NoEnd
<1>1. Emptied(e).ctrl = None /\ Emptied(e).data = {} /\ Emptied(e).start = e.start
  BY DEF Emptied
<1>2. e.start \in 0 .. MaxStarts
  BY DEF EndType
<1>3. Emptied(e) \in EndType
  BY <1>2 DEF EndType, Emptied
<1>4. ASSUME e = NoEnd PROVE Emptied(e) = NoEnd
  <2>1. e.start = 0
    BY <1>4 DEF NoEnd
  <2> QED BY <2>1, Zenon DEF Emptied, NoEnd
<1> QED BY <1>1, <1>3, <1>4

LEMMA ChildResetEnd ==
  ASSUME NEW c \in ChildType, Well(c)
  PROVE  Calmer(c, ResetEnd(c))
<1> DEFINE d == LetGo(c)
           e == Emptied(c.end)
<1>1. Calmer(c, d) /\ d \in ChildType /\ Well(d)
  BY ChildClose DEF Calmer, LetGo
<1>2. e \in EndType /\ e.ctrl \notin e.data /\ (c.end = NoEnd => e = NoEnd)
  BY ChildEnd, EmptiedEnd
<1>3. ResetEnd(c) = [d EXCEPT !.end = e, !.check = TRUE]
  BY DEF ResetEnd
<1>4. d.has = c.has
  BY DEF LetGo, Close, ChildType
<1> HIDE DEF d, e
<1>5. ResetEnd(c) \in ChildType /\ Well(ResetEnd(c))
  BY <1>1, <1>2, <1>3, <1>4 DEF ChildType, Well
<1> QED BY <1>1, <1>3, <1>5 DEF Calmer, ChildType

LEMMA ChildUnbind ==
  ASSUME NEW c \in ChildType, Well(c), NEW k \in Conns
  PROVE  Calmer(c, Unbind(c, k))
<1> DEFINE left == c.end.data \ {k}
           d == [c EXCEPT !.end.data = left]
<1> DEFINE e == [c.end EXCEPT !.data = left]
<1>1. Calmer(c, d)
  <2>1. d = [c EXCEPT !.end = e]
    BY DEF ChildType
  <2>2. c.end \in EndType /\ c.end.ctrl \notin c.end.data
    BY ChildEnd DEF Well
  <2>3. e = [ctrl |-> c.end.ctrl, data |-> left, whole |-> c.end.whole, start |-> c.end.start]
    BY <2>2 DEF EndType
  <2>4. e \in EndType /\ e.ctrl \notin e.data
    BY <2>2, <2>3 DEF EndType
  <2>5. c.end = NoEnd => e = NoEnd
    BY <2>3 DEF NoEnd
  <2> HIDE DEF e, d
  <2> QED BY <2>1, <2>4, <2>5 DEF ChildType, Calmer, Well
<1>2. Unbind(c, k) = ResetEnd(c) \/ Unbind(c, k) = d
  BY DEF Unbind
<1> QED BY <1>1, <1>2, ChildResetEnd

LEMMA ChildRemove ==
  ASSUME NEW c \in ChildType, Well(c)
  PROVE  Calmer(c, Remove(c))
<1> DEFINE d == LetGo(c)
<1>1. Calmer(c, d)
  BY ChildClose DEF LetGo
<1>2. Remove(c) = [d EXCEPT !.end = NoEnd, !.has = FALSE]
  BY DEF Remove
<1>3. NoEnd.ctrl \notin NoEnd.data
  BY DEF NoEnd
<1> HIDE DEF d
<1>4. d \in ChildType
  BY <1>1 DEF Calmer
<1>5. Remove(c) \in ChildType /\ Well(Remove(c))
  BY <1>2, <1>3, <1>4, ChildEnd, ZenonT(40) DEF ChildType, Well
<1>6. /\ Remove(c).start = d.start /\ Remove(c).regdone = d.regdone
      /\ Remove(c).actived = d.actived /\ Remove(c).at = d.at
  BY <1>2, <1>4 DEF ChildType
<1> QED BY <1>1, <1>5, <1>6 DEF Calmer

LEMMA ChildRemoveFather ==
  ASSUME NEW c \in ChildType, Well(c)
  PROVE  Calmer(c, RemoveFather(c))
<1>1. Calmer(c, Remove(c))
  BY ChildRemove
<1> QED BY <1>1 DEF Calmer, ChildType, Well, RemoveFather

LEMMA ChildResetCalmer ==
  ASSUME NEW c \in ChildType, Well(c), NEW k \in Conns
  PROVE  Calmer(c, ChildReset(c, k))
<1>1. Calmer(c, Unbind(c, k))
  BY ChildUnbind
<1>2. Calmer(Unbind(c, k), Close(Unbind(c, k), {k}))
  BY <1>1, ChildClose DEF Calmer
<1>3. Calmer(Close(Unbind(c, k), {k}), ChildReset(c, k))
  BY <1>2, ChildOnDisconnect DEF Calmer, ChildReset
<1> QED BY <1>1, <1>2, <1>3, CalmerTrans

\* The process ends.
LEMMA ChildDown ==
  ASSUME NEW c \in ChildType, Well(c)
  PROVE  Calmer(c, Down(c))
<1>1. NoEnd.ctrl \notin NoEnd.data
  BY DEF NoEnd
<1> QED BY <1>1, ChildEnd DEF Calmer, ChildType, Well, Down, CAt

\* The parts of node::proc that take away.
LEMMA ChildTimedOut ==
  ASSUME NEW c \in ChildType, Well(c), NEW K
  PROVE  Calmer(c, TimedOut(c, K))
<1> DEFINE d == [c EXCEPT !.held = @ \ K, !.at = [k \in Conns |-> IF k \in K THEN IF @[k] = "wait" THEN "late" ELSE "none" ELSE @[k]]]
<1>1. Calmer(c, d)
  BY DEF Calmer, ChildType, Well, CAt
<1>2. Calmer(d, OnDisconnect(d))
  BY <1>1, ChildOnDisconnect DEF Calmer
<1>3. Calmer(c, OnDisconnect(d))
  BY <1>1, <1>2, CalmerTrans
<1>4. Calmer(c, c)
  BY DEF Calmer
<1> QED BY <1>3, <1>4 DEF TimedOut

LEMMA ChildUnlisted ==
  ASSUME NEW c \in ChildType, Well(c), NEW d \in Unlisted(c)
  PROVE  Calmer(c, d)
<1>1. PICK L : d = [c EXCEPT !.held = @ \ L]
  BY DEF Unlisted
<1> QED BY <1>1 DEF Calmer, ChildType, Well

LEMMA ChildPinged ==
  ASSUME NEW c \in ChildType, Well(c), NEW d \in Pinged(c)
  PROVE  Calmer(c, d)
<1>1. Calmer(c, c)
  BY DEF Calmer
<1>2. d \in {c, RemoveFather(c)}
  BY DEF Pinged
<1> QED BY <1>1, <1>2, ChildRemoveFather

LEMMA ChildChecked ==
  ASSUME NEW c \in ChildType, Well(c)
  PROVE  Calmer(c, Checked(c))
<1>1. Calmer(c, c) /\ Calmer(c, RemoveFather(c))
  BY ChildRemoveFather DEF Calmer
<1>2. ASSUME NEW d, Calmer(c, d) PROVE Calmer(c, [d EXCEPT !.check = FALSE, !.stale = FALSE])
  BY <1>2 DEF Calmer, ChildType, Well
<1>3. \/ Checked(c) = [c EXCEPT !.check = FALSE, !.stale = FALSE]
      \/ Checked(c) = [RemoveFather(c) EXCEPT !.check = FALSE, !.stale = FALSE]
  BY DEF Checked
<1> QED BY <1>1, <1>2, <1>3

-----------------------------------------------------------------------------
\* What they do to the father's process.  Closing is harmless there only for
\* connections that are in no endpoint.

LEMMA FatherEnd ==
  ASSUME NEW f \in FatherType
  PROVE  f.end \in EndType /\ Bound(f) \subseteq Conns /\ NoEnd \in EndType
  BY BoundAssumption, BoundType DEF FatherType, EndType, NoEnd

LEMMA FatherClose ==
  ASSUME NEW f \in FatherType, Well(f), NEW K
  PROVE  /\ Close(f, K) \in FatherType /\ Well(Close(f, K))
         /\ Close(f, K).end = f.end /\ Close(f, K).has = f.has
         /\ \A k \in Conns : Close(f, K).at[k] = IF k \in K THEN "none" ELSE f.at[k]
  BY DEF Close, FatherType, FAt, Well

LEMMA FatherCloseLess ==
  ASSUME NEW f \in FatherType, Well(f), NEW K, K \cap Bound(f) = {}
  PROVE  Less(f, Close(f, K))
<1>1. Bound(Close(f, K)) = Bound(f)
  BY FatherClose DEF Bound
<1> QED BY <1>1, FatherClose, FatherEnd DEF Less

LEMMA FatherResetEnd ==
  ASSUME NEW f \in FatherType, Well(f)
  PROVE  Less(f, ResetEnd(f)) /\ Bound(ResetEnd(f)) = {}
<1> DEFINE d == LetGo(f)
           e == Emptied(f.end)
<1>1. /\ d \in FatherType /\ Well(d) /\ d.end = f.end /\ d.has = f.has
      /\ \A k \in Conns : d.at[k] = "open" => f.at[k] = "open"
  BY FatherClose DEF LetGo
<1>2. e \in EndType /\ e.ctrl = None /\ e.data = {} /\ (f.end = NoEnd => e = NoEnd)
  BY FatherEnd, EmptiedEnd
<1>3. ResetEnd(f) = [d EXCEPT !.end = e, !.check = TRUE]
  BY DEF ResetEnd
<1> HIDE DEF d, e
<1>4. ResetEnd(f) \in FatherType /\ Well(ResetEnd(f)) /\ ResetEnd(f).end = e /\ ResetEnd(f).at = d.at
  BY <1>1, <1>2, <1>3 DEF FatherType, Well
<1>5. Bound(ResetEnd(f)) = {}
  BY <1>2, <1>4 DEF Bound
<1> QED BY <1>1, <1>4, <1>5 DEF Less

LEMMA FatherRemove ==
  ASSUME NEW f \in FatherType, Well(f)
  PROVE  Less(f, Remove(f))
<1> DEFINE d == LetGo(f)
<1>1. /\ d \in FatherType
      /\ \A k \in Conns : d.at[k] = "open" => f.at[k] = "open"
  BY FatherClose DEF LetGo
<1>2. Remove(f) = [d EXCEPT !.end = NoEnd, !.has = FALSE]
  BY DEF Remove
<1>3. NoEnd.ctrl = None /\ NoEnd.data = {}
  BY DEF NoEnd
<1> HIDE DEF d
<1>4. Remove(f) \in FatherType /\ Well(Remove(f)) /\ Remove(f).end = NoEnd /\ Remove(f).at = d.at
  BY <1>1, <1>2, <1>3, FatherEnd DEF FatherType, Well
<1>5. Bound(Remove(f)) = {}
  BY <1>3, <1>4 DEF Bound
<1> QED BY <1>1, <1>4, <1>5 DEF Less

\* After it the connection is in no endpoint.
LEMMA FatherUnbind ==
  ASSUME NEW f \in FatherType, Well(f), NEW k \in Conns
  PROVE  Less(f, Unbind(f, k)) /\ k \notin Bound(Unbind(f, k))
<1> DEFINE left == f.end.data \ {k}
           e == [f.end EXCEPT !.data = left]
           d == [f EXCEPT !.end.data = left]
<1>1. CASE k = f.end.ctrl \/ (k \in f.end.data /\ left = {} /\ ~f.end.whole)
  BY <1>1, FatherResetEnd DEF Unbind
<1>2. CASE ~(k = f.end.ctrl \/ (k \in f.end.data /\ left = {} /\ ~f.end.whole))
  <2>1. Unbind(f, k) = d
    BY <1>2 DEF Unbind
  <2>2. d = [f EXCEPT !.end = e]
    BY DEF FatherType
  <2>3. e \in EndType /\ e.ctrl = f.end.ctrl /\ e.data = left /\ e.start = f.end.start
    BY FatherEnd DEF EndType
  <2>4. ASSUME f.end = NoEnd PROVE e = NoEnd
    <3>1. left = f.end.data
      BY <2>4 DEF NoEnd
    <3>2. [f.end EXCEPT !.data = f.end.data] = f.end
      BY FatherEnd DEF EndType
    <3> HIDE DEF left
    <3> QED BY <2>4, <3>1, <3>2
  <2> HIDE DEF e, d
  <2>5. d \in FatherType /\ Well(d) /\ d.end = e /\ d.at = f.at
    <3>1. f.end.ctrl \notin left
      BY DEF Well
    <3> QED BY <2>2, <2>3, <2>4, <3>1 DEF FatherType, Well
  <2>6. Bound(d) = Bound(f) \ {k}
    BY <1>2, <2>3, <2>5 DEF Bound
  <2> QED BY <2>1, <2>3, <2>5, <2>6, FatherEnd DEF Less
<1> QED BY <1>1, <1>2

LEMMA FatherResetLess ==
  ASSUME NEW f \in FatherType, Well(f), NEW k \in Conns
  PROVE  Less(f, FatherReset(f, k))
<1> DEFINE u == Unbind(f, k)
<1>1. Less(f, u) /\ k \notin Bound(u)
  BY FatherUnbind
<1>2. u \in FatherType /\ Well(u) /\ {k} \cap Bound(u) = {}
  BY <1>1 DEF Less
<1> HIDE DEF u
<1>3. Less(u, Close(u, {k}))
  BY <1>2, FatherCloseLess
<1>4. Less(f, Close(u, {k}))
  BY <1>1, <1>3, LessTrans
<1> QED BY <1>4 DEF FatherReset, u

LEMMA LessSelf ==
  ASSUME NEW f \in FatherType, Well(f)
  PROVE  Less(f, f)
  BY DEF Less

LEMMA FatherUnlisted ==
  ASSUME NEW f \in FatherType, Well(f), NEW g \in Unlisted(f)
  PROVE  Less(f, g)
<1>1. PICK L : g = [f EXCEPT !.held = @ \ L]
  BY DEF Unlisted
<1>2. g \in FatherType /\ Well(g) /\ g.end = f.end /\ g.at = f.at
  BY <1>1 DEF FatherType, Well
<1> QED BY <1>2 DEF Less, Bound

\* node::proc at the father.
FatherChecked(f) ==
  IF ~f.check THEN f
  ELSE [(IF f.has /\ ~Available(f) THEN Remove(f) ELSE f) EXCEPT !.check = FALSE]

LEMMA FatherCheckedLess ==
  ASSUME NEW f \in FatherType, Well(f)
  PROVE  Less(f, FatherChecked(f))
<1>1. Less(f, f) /\ Less(f, Remove(f))
  BY LessSelf, FatherRemove
<1>2. ASSUME NEW g, Less(f, g) PROVE Less(f, [g EXCEPT !.check = FALSE])
  <2>1. g \in FatherType /\ Well(g)
    BY <1>2 DEF Less
  <2>2. [g EXCEPT !.check = FALSE] \in FatherType /\ Well([g EXCEPT !.check = FALSE])
    BY <2>1 DEF FatherType, Well
  <2>3. [g EXCEPT !.check = FALSE].end = g.end /\ [g EXCEPT !.check = FALSE].at = g.at
    BY <2>1 DEF FatherType
  <2> QED BY <1>2, <2>2, <2>3 DEF Less, Bound
<1>3. \/ FatherChecked(f) = f
      \/ FatherChecked(f) = [f EXCEPT !.check = FALSE]
      \/ FatherChecked(f) = [Remove(f) EXCEPT !.check = FALSE]
  BY DEF FatherChecked
<1> QED BY <1>1, <1>2, <1>3

-----------------------------------------------------------------------------
\* Queues.

\* The messages of r are among those of q.
Among(r, q) ==
  \A k \in Conns : \A i \in DOMAIN r[k] : \E j \in DOMAIN q[k] : r[k][i] = q[k][j]

Took(q, k)    == [q EXCEPT ![k] = Tail(@)]
Added(q, k, m) == [q EXCEPT ![k] = Append(@, m)]

LEMMA Dequeue ==
  ASSUME NEW q \in Queues, NEW k \in Conns, q[k] # <<>>
  PROVE  /\ Took(q, k) \in Queues /\ Among(Took(q, k), q)
         /\ Head(q[k]) \in Messages /\ 1 \in DOMAIN q[k] /\ Head(q[k]) = q[k][1]
<1>1. q[k] \in Seq(Messages) /\ Tail(q[k]) \in Seq(Messages) /\ Head(q[k]) \in Messages
  BY DEF Queues
<1>2. Took(q, k) \in Queues
  BY <1>1 DEF Took, Queues
<1>3. \A i \in DOMAIN Tail(q[k]) : i + 1 \in DOMAIN q[k] /\ Tail(q[k])[i] = q[k][i + 1]
  BY <1>1
<1>4. \A j \in Conns : Took(q, k)[j] = IF j = k THEN Tail(q[k]) ELSE q[j]
  BY DEF Took, Queues
<1>5. Among(Took(q, k), q)
  BY <1>3, <1>4 DEF Among
<1>6. 1 \in DOMAIN q[k] /\ Head(q[k]) = q[k][1]
  BY <1>1
<1> QED BY <1>1, <1>2, <1>5, <1>6

LEMMA Enqueue ==
  ASSUME NEW q \in Queues, NEW k \in Conns, NEW m \in Messages
  PROVE  /\ Added(q, k, m) \in Queues
         /\ \A j \in Conns : \A i \in DOMAIN Added(q, k, m)[j] :
              \/ j = k /\ Added(q, k, m)[j][i] = m
              \/ i \in DOMAIN q[j] /\ Added(q, k, m)[j][i] = q[j][i]
<1>1. q[k] \in Seq(Messages) /\ Append(q[k], m) \in Seq(Messages)
  BY DEF Queues
<1>2. Added(q, k, m) \in Queues
  BY <1>1 DEF Added, Queues
<1>3. \A j \in Conns : Added(q, k, m)[j] = IF j = k THEN Append(q[k], m) ELSE q[j]
  BY DEF Added, Queues
<1>4. \A i \in DOMAIN Append(q[k], m) :
        Append(q[k], m)[i] = m \/ (i \in DOMAIN q[k] /\ Append(q[k], m)[i] = q[k][i])
  BY <1>1
<1> QED BY <1>2, <1>3, <1>4

\* A message that has been taken out cannot break anything.
LEMMA FewerMessages ==
  ASSUME NEW c, NEW f, NEW qc, NEW qf, NEW acc, Coherent(c, f, qc, qf, acc),
         NEW rc \in Queues, NEW rf \in Queues, Among(rc, qc), Among(rf, qf)
  PROVE  Coherent(c, f, rc, rf, acc)
<1>1. MessagesInv(c, rc, rf, acc)
  BY DEF MessagesInv, Coherent, Among
<1>2. RequestsInv(rf)
  BY DEF RequestsInv, Coherent, Among
<1> QED BY <1>1, <1>2 DEF Coherent

\* An answer of the node, or one of the father that is not a success, and a success
\* for a process that was accepted.
LEMMA MoreToFather ==
  ASSUME NEW c, NEW f, NEW qc, NEW qf, NEW acc, Coherent(c, f, qc, qf, acc),
         NEW k \in Conns, NEW m \in Messages, m.type # "req"
  PROVE  Coherent(c, f, qc, Added(qf, k, m), acc)
<1>1. qf \in Queues
  BY DEF Coherent
<1>2. MessagesInv(c, qc, Added(qf, k, m), acc)
  BY <1>1, Enqueue DEF MessagesInv, Coherent
<1>3. RequestsInv(Added(qf, k, m))
  BY <1>1, Enqueue DEF RequestsInv, Coherent
<1> QED BY <1>1, <1>2, <1>3, Enqueue DEF Coherent

LEMMA MoreToChild ==
  ASSUME NEW c, NEW f, NEW qc, NEW qf, NEW acc, Coherent(c, f, qc, qf, acc),
         NEW k \in Conns, NEW m \in Messages,
         m.type = "ok" /\ c.at[k] = "open" => c.start \in acc
  PROVE  Coherent(c, f, Added(qc, k, m), qf, acc)
<1>1. qc \in Queues
  BY DEF Coherent
<1>2. MessagesInv(c, Added(qc, k, m), qf, acc)
  BY <1>1, Enqueue DEF MessagesInv, Coherent
<1> QED BY <1>1, <1>2, Enqueue DEF Coherent

LEMMA MoreAccepted ==
  ASSUME NEW c, NEW f, NEW qc, NEW qf, NEW acc, Coherent(c, f, qc, qf, acc),
         NEW more, acc \subseteq more
  PROVE  Coherent(c, f, qc, qf, more)
  BY DEF Coherent, MessagesInv, FlagsInv

-----------------------------------------------------------------------------
\* What the handlers add.

LEMMA CalmerSelf ==
  ASSUME NEW c \in ChildType, Well(c)
  PROVE  Calmer(c, c)
  BY DEF Calmer

LEMMA ChildActived ==
  ASSUME NEW c \in ChildType, Well(c)
  PROVE  /\ OnActived(c) \in ChildType /\ Well(OnActived(c))
         /\ OnActived(c).start = c.start /\ OnActived(c).at = c.at
         /\ OnActived(c).regdone = c.regdone
  BY DEF OnActived, ChildType, Well

\* The endpoint of a peer that has just registered.
LEMMA FirstEndType ==
  ASSUME NEW k \in Conns, NEW s \in 0 .. MaxStarts
  PROVE  /\ FirstEnd(k, s) \in EndType /\ FirstEnd(k, s).ctrl \notin FirstEnd(k, s).data
         /\ FirstEnd(k, s).ctrl = k /\ FirstEnd(k, s).data = {} /\ FirstEnd(k, s).start = s
  BY DEF FirstEnd, EndType

\* A registration at the node changes none of its connections, and makes it go up
\* only after its own was answered.
LEMMA ChildRegCalmer ==
  ASSUME NEW c \in ChildType, Well(c), NEW k \in Conns
  PROVE  Calmer(c, ChildReg(c, k))
<1>1. CASE k \in Bound(c)
  BY <1>1, CalmerSelf DEF ChildReg
<1>2. CASE k \notin Bound(c) /\ c.has
  <2> DEFINE e == [c.end EXCEPT !.ctrl = k]
             g == [c.end EXCEPT !.data = @ \cup {k}]
  <2>1. e \in EndType /\ e.ctrl = k /\ e.data = c.end.data
    BY ChildEnd DEF EndType
  <2>2. g \in EndType /\ g.ctrl = c.end.ctrl /\ g.data = c.end.data \cup {k}
    BY ChildEnd DEF EndType
  <2>3. ChildReg(c, k) = Bind(c, k)
    BY <1>2 DEF ChildReg
  <2>4. Bind(c, k) = IF c.end.ctrl = None THEN [c EXCEPT !.end = e] ELSE [c EXCEPT !.end = g]
    BY DEF Bind, ChildType
  <2>5. k \notin c.end.data /\ (c.end.ctrl # None => k # c.end.ctrl)
    BY <1>2, BoundAssumption DEF Bound
  <2> HIDE DEF e, g
  <2>6. Calmer(c, [c EXCEPT !.end = e])
    BY <1>2, <2>1, <2>5 DEF Calmer, ChildType, Well
  <2>7. c.end.ctrl # None => Calmer(c, [c EXCEPT !.end = g])
    BY <1>2, <2>2, <2>5 DEF Calmer, ChildType, Well
  <2> QED BY <2>3, <2>4, <2>6, <2>7
<1>3. CASE k \notin Bound(c) /\ ~c.has
  <2> DEFINE e == FirstEnd(k, 0)
             d == [c EXCEPT !.has = TRUE, !.end = e]
  <2>1. 0 \in 0 .. MaxStarts
    BY BoundAssumption
  <2>2. e \in EndType /\ e.ctrl \notin e.data
    BY <2>1, FirstEndType
  <2> HIDE DEF e
  <2>3. Calmer(c, d)
    BY <2>2 DEF Calmer, ChildType, Well
  <2>4. ChildReg(c, k) \in {d, OnActived(d)} /\ (ChildReg(c, k) = d \/ c.regdone)
    BY <1>3 DEF ChildReg, AddFather, e
  <2> HIDE DEF d
  <2>5. c.regdone => Calmer(c, OnActived(d))
    BY <2>3, ChildActived DEF Calmer
  <2> QED BY <2>3, <2>4, <2>5
<1> QED BY <1>1, <1>2, <1>3

\* A success.
LEMMA RspOkType ==
  ASSUME NEW c \in ChildType, Well(c)
  PROVE  /\ RspOk(c) \in ChildType /\ Well(RspOk(c))
         /\ RspOk(c).start = c.start /\ RspOk(c).at = c.at
<1> DEFINE d == [c EXCEPT !.regdone = TRUE]
<1>1. d \in ChildType /\ Well(d) /\ d.start = c.start /\ d.at = c.at
  BY DEF ChildType, Well
<1>2. RspOk(c) \in {c, d, OnActived(d)}
  BY DEF RspOk
<1> HIDE DEF d
<1> QED BY <1>1, <1>2, ChildActived

\* A refusal.
LEMMA RspErrCalmer ==
  ASSUME NEW c \in ChildType, Well(c), NEW k \in Conns
  PROVE  Calmer(c, RspErr(c, k))
<1> DEFINE d == [c EXCEPT !.check = @ \/ k \in Bound(c)]
<1>1. Calmer(c, d)
  BY DEF Calmer, ChildType, Well
<1> HIDE DEF d
<1>2. Calmer(d, Close(d, {k}))
  BY <1>1, ChildClose DEF Calmer
<1>3. Calmer(Close(d, {k}), OnDisconnect(Close(d, {k})))
  BY <1>2, ChildOnDisconnect DEF Calmer
<1>4. RspErr(c, k) = OnDisconnect(Close(d, {k}))
  BY DEF RspErr, d
<1> QED BY <1>1, <1>2, <1>3, <1>4, CalmerTrans

\* A registration at the father binds k to an endpoint of the process s, or closes
\* it, which is in no endpoint then.
LEMMA FatherRegResult ==
  ASSUME NEW f \in FatherType, Well(f), NEW k \in Conns, NEW s \in 0 .. MaxStarts
  PROVE  LET r == FatherReg(f, k, s) IN
         \/ r = <<f, "ok">>
         \/ r[2] = "err" /\ Less(f, r[1])
         \/ /\ r[2] = "ok"
            /\ r[1] \in FatherType /\ Well(r[1]) /\ r[1].at = f.at
            /\ r[1].end.start = s
            /\ Bound(r[1]) = {k} \/ (f.end.start = s /\ Bound(r[1]) = Bound(f) \cup {k})
<1> DEFINE r == FatherReg(f, k, s)
<1>1. CASE k \in Bound(f)
  <2>1. r = <<f, "ok">>
    BY <1>1 DEF FatherReg
  <2> QED BY <2>1
<1>2. CASE k \notin Bound(f) /\ ~f.has
  <2> DEFINE e == FirstEnd(k, s)
             g == [f EXCEPT !.has = TRUE, !.end = e]
  <2>1. e \in EndType /\ e.ctrl = k /\ e.data = {} /\ e.start = s
    BY FirstEndType
  <2>2. r = <<g, "ok">>
    BY <1>2 DEF FatherReg
  <2> HIDE DEF e
  <2>3. g \in FatherType /\ g.at = f.at /\ g.end = e /\ g.has
    BY <2>1 DEF FatherType
  <2> HIDE DEF g
  <2>4. Well(g)
    BY <2>1, <2>3 DEF Well
  <2>5. Bound(g) = {k}
    BY <2>1, <2>3, BoundAssumption DEF Bound
  <2> QED BY <2>1, <2>2, <2>3, <2>4, <2>5
<1>3. CASE k \notin Bound(f) /\ f.has /\ f.end.start = s
  <2> DEFINE e == [f.end EXCEPT !.ctrl = k]
             h == [f.end EXCEPT !.data = @ \cup {k}]
             g == Bind(f, k)
  <2>1. r = <<g, "ok">>
    BY <1>3 DEF FatherReg
  <2>2. e \in EndType /\ e.ctrl = k /\ e.data = f.end.data /\ e.start = f.end.start
    BY FatherEnd DEF EndType
  <2>3. h \in EndType /\ h.ctrl = f.end.ctrl /\ h.data = f.end.data \cup {k} /\ h.start = f.end.start
    BY FatherEnd DEF EndType
  <2>4. g = IF f.end.ctrl = None THEN [f EXCEPT !.end = e] ELSE [f EXCEPT !.end = h]
    BY DEF Bind, FatherType
  <2>5. k \notin f.end.data /\ k # None /\ k # f.end.ctrl
    BY <1>3, BoundAssumption DEF Bound
  <2> HIDE DEF e, h, g
  <2>6. CASE f.end.ctrl = None
    <3>1. g \in FatherType /\ g.at = f.at /\ g.end = e /\ g.has = f.has
      BY <2>2, <2>4, <2>6 DEF FatherType
    <3>2. Well(g)
      BY <1>3, <2>2, <2>5, <3>1 DEF Well
    <3>3. Bound(g) = Bound(f) \cup {k}
      BY <2>2, <2>5, <2>6, <3>1 DEF Bound, Well
    <3> QED BY <1>3, <2>1, <2>2, <3>1, <3>2, <3>3
  <2>7. CASE f.end.ctrl # None
    <3>1. g \in FatherType /\ g.at = f.at /\ g.end = h /\ g.has = f.has
      BY <2>3, <2>4, <2>7 DEF FatherType
    <3>2. Well(g)
      BY <1>3, <2>3, <2>5, <3>1 DEF Well
    <3>3. Bound(g) = Bound(f) \cup {k}
      BY <2>3, <2>5, <3>1 DEF Bound
    <3> QED BY <1>3, <2>1, <2>3, <3>1, <3>2, <3>3
  <2> QED BY <2>6, <2>7
<1>4. CASE k \notin Bound(f) /\ f.has /\ f.end.start # s
  <2>1. r = <<Close(f, {k}), "err">>
    BY <1>4 DEF FatherReg
  <2>2. Less(f, Close(f, {k}))
    BY <1>4, FatherCloseLess
  <2> QED BY <2>1, <2>2
<1> QED BY <1>1, <1>2, <1>3, <1>4

-----------------------------------------------------------------------------
\* The actions.  Most of them take something away from one side.

LEMMA TakesAway ==
  ASSUME IInv, NEW c, NEW f, Become(c, f, toC, toF), Calmer(child, c), Less(father, f),
         UNCHANGED <<calm, accepted, hz>>
  PROVE  IInv'
<1>1. Coherent(c, f, toC, toF, accepted')
  BY Harmless DEF IInv
<1> QED BY <1>1, StepInv DEF IInv

LEMMA Both ==
  ASSUME IInv
  PROVE  /\ child \in ChildType /\ Well(child) /\ father \in FatherType /\ Well(father)
         /\ Calmer(child, child) /\ Less(father, father)
         /\ toC \in Queues /\ toF \in Queues
  BY CalmerSelf, LessSelf DEF IInv, Coherent

\* A place that is free at both sides.
LEMMA NewConnFree ==
  ASSUME Free # {}
  PROVE  NewConn \in Conns /\ child.at[NewConn] = "none" /\ father.at[NewConn] = "none"
  BY DEF NewConn, Free

LEMMA InitInv == Init => IInv
<1> SUFFICES ASSUME Init PROVE IInv
  OBVIOUS
<1>1. \E k \in Conns : \E ok \in BOOLEAN : child = Started(1, k, ok)
  BY BoundAssumption DEF Init
<1>2. child \in ChildType /\ Well(child)
  <2>1. 1 \in 1 .. MaxStarts /\ NoEnd \in EndType /\ NoEnd.ctrl \notin NoEnd.data
    BY BoundAssumption DEF NoEnd, EndType
  <2> QED BY <1>1, <2>1 DEF Started, ChildType, CAt, Well
<1>3. ~child.regdone /\ ~child.actived /\ \A j \in Conns : child.at[j] # "open"
  BY <1>1 DEF Started
<1>4. father \in FatherType /\ Well(father) /\ Bound(father) = {} /\ \A j \in Conns : father.at[j] = "none"
  <2>1. NoEnd \in EndType /\ NoEnd.ctrl = None /\ NoEnd.data = {}
    BY BoundAssumption DEF NoEnd, EndType
  <2> QED BY <2>1 DEF Init, FatherType, FAt, Well, Bound
<1>5. toC \in Queues /\ toF \in Queues /\ \A j \in Conns : toC[j] = <<>> /\ toF[j] = <<>>
  <2>1. toC = [j \in Conns |-> <<>>] /\ toF = [j \in Conns |-> <<>>]
    BY DEF Init
  <2>2. <<>> \in Seq(Messages)
    OBVIOUS
  <2> QED BY <2>1, <2>2 DEF Queues
<1>6. Coherent(child, father, toC, toF, accepted)
  BY <1>2, <1>3, <1>4, <1>5 DEF Coherent, MessagesInv, RequestsInv, FlagsInv, PlacesInv, ProcessInv
<1>7. Silent(child, father, toC, toF)
  BY <1>5 DEF Silent
<1> QED BY <1>6, <1>7 DEF IInv, Init

LEMMA RestartInv == IInv /\ Restart => IInv'
<1> SUFFICES ASSUME IInv, Restart PROVE IInv'
  OBVIOUS
<1>1. PICK ok \in BOOLEAN : Become(Started(child.start + 1, NewConn, ok), father, toC, toF)
  BY DEF Restart
<1> DEFINE c == Started(child.start + 1, NewConn, ok)
<1>2. child.start + 1 \in 1 .. MaxStarts
  BY Both, BoundAssumption DEF Restart, ChildType
<1>3. c \in ChildType /\ Well(c)
  <2>1. NoEnd \in EndType /\ NoEnd.ctrl \notin NoEnd.data
    BY BoundAssumption DEF NoEnd, EndType
  <2>2. {NewConn} \subseteq Conns
    BY NewConnFree DEF Restart
  <2> QED BY <1>2, <2>1, <2>2 DEF Started, ChildType, CAt, Well
<1>4. /\ ~c.regdone /\ ~c.actived
      /\ \A j \in Conns : c.at[j] # "open" /\ (c.at[j] = "wait" => j = NewConn) /\ c.at[j] # "late"
  BY DEF Started
<1> HIDE DEF c
<1>5. Coherent(c, father, toC, toF, accepted)
  BY <1>3, <1>4, NewConnFree, Both, BoundType
     DEF IInv, Coherent, MessagesInv, FlagsInv, PlacesInv, ProcessInv, Restart, FatherType
<1>6. UNCHANGED <<calm, accepted, hz>>
  BY DEF Restart
<1>7. Become(c, father, toC, toF)
  BY <1>1 DEF c
<1> QED BY <1>5, <1>6, <1>7, StepInv DEF IInv

LEMMA StopInv == IInv /\ Stop => IInv'
  BY Both, ChildDown, TakesAway DEF Stop

LEMMA ConnectFailsInv ==
  ASSUME NEW k \in Conns
  PROVE  IInv /\ ConnectFails(k) => IInv'
<1> SUFFICES ASSUME IInv, ConnectFails(k) PROVE IInv'
  OBVIOUS
<1>1. PICK c \in {Close(child, {k}), ChildReset(child, k)} : Become(c, father, toC, toF)
  BY DEF ConnectFails
<1>2. Calmer(child, c)
  BY <1>1, Both, ChildClose, ChildResetCalmer
<1> QED BY <1>1, <1>2, Both, TakesAway DEF ConnectFails

LEMMA ChildFailsInv ==
  ASSUME NEW k \in Conns
  PROVE  IInv /\ ChildFails(k) => IInv'
  BY Both, ChildResetCalmer, TakesAway DEF ChildFails

LEMMA FatherFailsInv ==
  ASSUME NEW k \in Conns
  PROVE  IInv /\ FatherFails(k) => IInv'
  BY Both, FatherResetLess, TakesAway DEF FatherFails

LEMMA DataFailsInv == IInv /\ (ChildDataFails \/ FatherDataFails) => IInv'
<1> SUFFICES ASSUME IInv PROVE ChildDataFails \/ FatherDataFails => IInv'
  OBVIOUS
<1>1. Calmer(child, ResetEnd(child))
  BY Both, ChildResetEnd
<1>2. Calmer(child, OnDisconnect(ResetEnd(child)))
  BY <1>1, ChildOnDisconnect, CalmerTrans DEF Calmer
<1>3. ChildDataFails => IInv'
  BY <1>2, Both, TakesAway DEF ChildDataFails
<1>4. FatherDataFails => IInv'
  BY Both, FatherResetEnd, TakesAway DEF FatherDataFails
<1> QED BY <1>3, <1>4

LEMMA UserDisconnectInv == IInv /\ UserDisconnect => IInv'
<1> SUFFICES ASSUME IInv, UserDisconnect PROVE IInv'
  OBVIOUS
<1>1. Calmer(child, Remove(child))
  BY Both, ChildRemove
<1> DEFINE d == [Remove(child) EXCEPT !.check = FALSE, !.stale = TRUE]
<1>2. Calmer(child, d)
  BY <1>1 DEF Calmer, ChildType, Well
<1>3. Become(OnDisconnect(d), father, toC, toF) /\ UNCHANGED <<calm, accepted, hz>>
  BY DEF UserDisconnect
<1> HIDE DEF d
<1>4. Calmer(child, OnDisconnect(d))
  BY <1>2, ChildOnDisconnect, CalmerTrans DEF Calmer
<1> QED BY <1>3, <1>4, Both, TakesAway

LEMMA CalmInv == IInv /\ Calm => IInv'
  BY DEF IInv, Calm

\* The father closes only connections that are in no endpoint, and the check removes
\* whole endpoints.
LEMMA FatherProcInv == IInv /\ FatherProc => IInv'
<1> SUFFICES ASSUME IInv, FatherProc PROVE IInv'
  OBVIOUS
<1>1. PICK K \in SUBSET Overdue(father) : \E f1 \in Unlisted(Close(father, K)) :
        \E f2 \in {f1} \cup (IF f1.has /\ ~calm THEN {Remove(f1)} ELSE {}) :
          Become(child, FatherChecked(f2), toC, toF)
  BY DEF FatherProc, FatherChecked
<1>2. K \cap Bound(father) = {}
  BY Both, FatherEnd DEF Overdue, FatherType, FAt, IInv, Coherent, PlacesInv
<1>a. PICK f1 \in Unlisted(Close(father, K)) :
        \E f2 \in {f1} \cup (IF f1.has /\ ~calm THEN {Remove(f1)} ELSE {}) :
          Become(child, FatherChecked(f2), toC, toF)
  BY <1>1
<1>b. Less(father, Close(father, K))
  BY <1>2, Both, FatherCloseLess
<1>3. Less(father, f1)
  BY <1>a, <1>b, FatherUnlisted, LessTrans DEF Less
<1>4. PICK f2 \in {f1, Remove(f1)} : Become(child, FatherChecked(f2), toC, toF)
  BY <1>a
<1>5. Less(father, f2)
  BY <1>3, <1>4, FatherRemove, LessTrans DEF Less
<1>6. Less(father, FatherChecked(f2))
  BY <1>5, FatherCheckedLess, LessTrans DEF Less
<1> QED BY <1>4, <1>6, Both, TakesAway DEF FatherProc

\* node::proc takes away, begins a connection in a place free at both sides, and
\* takes away again.
LEMMA ProcInv == IInv /\ Proc => IInv'
<1> SUFFICES ASSUME IInv, Proc PROVE IInv'
  OBVIOUS
<1>1. PICK K : \E c1 \in Unlisted(TimedOut(child, K)) :
        \E c2 \in (IF calm THEN {} ELSE {c1}) \cup (IF calm /\ ~Quiet THEN {c1} ELSE FatherOp(c1)) :
        \E c3 \in Pinged(c2) : Become(Checked(c3), father, toC, toF)
  BY DEF Proc
<1>a. PICK c1 \in Unlisted(TimedOut(child, K)) :
        \E c2 \in {c1} \cup FatherOp(c1) : \E c3 \in Pinged(c2) : Become(Checked(c3), father, toC, toF)
  BY <1>1
<1>2. PICK c2 \in {c1} \cup FatherOp(c1) : \E c3 \in Pinged(c2) : Become(Checked(c3), father, toC, toF)
  BY <1>a
<1>3. PICK c3 \in Pinged(c2) : Become(Checked(c3), father, toC, toF)
  BY <1>2
<1>b. Calmer(child, TimedOut(child, K))
  BY Both, ChildTimedOut
<1>4. Calmer(child, c1)
  BY <1>a, <1>b, ChildUnlisted, CalmerTrans DEF Calmer
<1>5. Coherent(c1, father, toC, toF, accepted)
  BY <1>4, Both, Harmless DEF IInv
<1>6. Coherent(c2, father, toC, toF, accepted)
  <2>1. CASE c2 = c1
    BY <1>5, <2>1
  <2>2. CASE c2 # c1
    <3> DEFINE d == [c1 EXCEPT !.state = "CONNECTING_PARENT", !.at[NewConn] = "wait", !.held = @ \cup {NewConn}]
               e == [c1 EXCEPT !.at[NewConn] = "failed", !.held = @ \cup {NewConn}]
    <3>1. Free # {} /\ c2 \in {d, e}
      BY <1>2, <2>2 DEF FatherOp
    <3>2. NewConn \in Conns /\ father.at[NewConn] = "none"
      BY <3>1, NewConnFree
    <3>3. c1 \in ChildType /\ Well(c1)
      BY <1>4 DEF Calmer
    <3>4. /\ d \in ChildType /\ Well(d) /\ d.start = c1.start /\ d.regdone = c1.regdone /\ d.actived = c1.actived
          /\ \A k \in Conns : d.at[k] = IF k = NewConn THEN "wait" ELSE c1.at[k]
      BY <3>2, <3>3 DEF ChildType, CAt, Well
    <3>5. /\ e \in ChildType /\ Well(e) /\ e.start = c1.start /\ e.regdone = c1.regdone /\ e.actived = c1.actived
          /\ \A k \in Conns : e.at[k] = IF k = NewConn THEN "failed" ELSE c1.at[k]
      BY <3>2, <3>3 DEF ChildType, CAt, Well
    <3> HIDE DEF d, e
    <3>6. PICK at \in {"wait", "failed"} :
            /\ c2 \in ChildType /\ Well(c2) /\ c2.start = c1.start
            /\ c2.regdone = c1.regdone /\ c2.actived = c1.actived
            /\ \A k \in Conns : c2.at[k] = IF k = NewConn THEN at ELSE c1.at[k]
      BY <3>1, <3>4, <3>5
    <3>7. MessagesInv(c2, toC, toF, accepted) /\ FlagsInv(c2, accepted)
      BY <1>5, <3>6 DEF Coherent, MessagesInv, FlagsInv
    <3>8. PlacesInv(c2, father)
      BY <1>5, <3>2, <3>6 DEF Coherent, PlacesInv
    <3>9. ProcessInv(c2, father)
      BY <1>5, <3>6, Both, FatherEnd DEF Coherent, ProcessInv
    <3> QED BY <1>5, <3>6, <3>7, <3>8, <3>9 DEF Coherent
  <2> QED BY <2>1, <2>2
<1>7. c2 \in ChildType /\ Well(c2)
  BY <1>6 DEF Coherent
<1>8. Calmer(c2, c3)
  BY <1>3, <1>7, ChildPinged
<1>9. Calmer(c2, Checked(c3))
  BY <1>8, ChildChecked, CalmerTrans DEF Calmer
<1>10. Coherent(Checked(c3), father, toC, toF, accepted)
  BY <1>6, <1>9, Both, Harmless
<1>11. UNCHANGED <<calm, accepted, hz>>
  BY DEF Proc
<1> QED BY <1>3, <1>10, <1>11, StepInv DEF IInv

\* A new connection is in no endpoint yet, and what is sent on it is fresh.
LEMMA ConnectedInv ==
  ASSUME NEW k \in Conns
  PROVE  IInv /\ Connected(k) => IInv'
<1> SUFFICES ASSUME IInv, Connected(k) PROVE IInv'
  OBVIOUS
<1> DEFINE late == child.at[k] = "late"
           g == [father EXCEPT !.at[k] = "open", !.held = @ \cup {k}]
           d == [child EXCEPT !.at[k] = "open"]
           e == OnDisconnect(Close(child, {k}))
           c == IF late THEN e ELSE d
           qc == [toC EXCEPT ![k] = <<Msg("req", 0)>>]
           qf == [toF EXCEPT ![k] = <<Msg("req", child.start)>>]
<1>1. Become(c, g, qc, qf) /\ UNCHANGED <<calm, accepted, hz>> /\ child.at[k] \in {"wait", "late"}
  BY DEF Connected
<1>2. g \in FatherType /\ Well(g) /\ g.end = father.end /\ \A j \in Conns : g.at[j] = IF j = k THEN "open" ELSE father.at[j]
  BY Both DEF FatherType, FAt, Well
<1>3. /\ d \in ChildType /\ Well(d) /\ d.start = child.start /\ d.regdone = child.regdone /\ d.actived = child.actived
      /\ \A j \in Conns : d.at[j] = IF j = k THEN "open" ELSE child.at[j]
  BY Both DEF ChildType, CAt, Well
<1>4. /\ e \in ChildType /\ Well(e) /\ e.start = child.start /\ e.regdone = child.regdone /\ e.actived = child.actived
      /\ \A j \in Conns : e.at[j] = IF j = k THEN "none" ELSE child.at[j]
  <2>1. Calmer(child, Close(child, {k})) /\ Close(child, {k}) \in ChildType /\ Well(Close(child, {k}))
    BY Both, ChildClose DEF Calmer
  <2>2. e \in ChildType /\ Well(e)
    BY <2>1, ChildOnDisconnect DEF Calmer
  <2> QED BY <2>2, Both DEF OnDisconnect, Close, ChildType
<1>5. Msg("req", 0) \in Messages /\ Msg("req", child.start) \in Messages
  BY Both, BoundAssumption DEF Msg, Messages, ChildType
<1>6. Msg("req", 0).type = "req" /\ Msg("req", child.start).start = child.start
  BY DEF Msg
<1> HIDE DEF c, d, e, g
<1>7. qc \in Queues /\ qf \in Queues
  BY <1>5, Both DEF Queues
<1>8. \A j \in Conns : qc[j] = (IF j = k THEN <<Msg("req", 0)>> ELSE toC[j])
  BY Both DEF Queues
<1>8a. \A j \in Conns : qf[j] = (IF j = k THEN <<Msg("req", child.start)>> ELSE toF[j])
  BY Both DEF Queues
<1> HIDE DEF qc, qf
<1>9. /\ c \in ChildType /\ Well(c) /\ c.start = child.start
      /\ c.regdone = child.regdone /\ c.actived = child.actived
      /\ \A j \in Conns : j # k => c.at[j] = child.at[j]
      /\ c.at[k] \in {"open", "none"}
  BY <1>3, <1>4 DEF c
<1>10. MessagesInv(c, qc, qf, accepted)
  <2> SUFFICES ASSUME NEW j \in Conns, c.at[j] = "open"
               PROVE  /\ \A i \in DOMAIN qc[j] : qc[j][i].type = "ok" => c.start \in accepted
                      /\ \A i \in DOMAIN qf[j] : qf[j][i].type = "req" => qf[j][i].start = c.start
    BY DEF MessagesInv
  <2>1. CASE j = k
    <3>1. \A i \in DOMAIN qc[j] : qc[j][i] = Msg("req", 0)
      BY <1>8, <2>1
    <3>2. \A i \in DOMAIN qf[j] : qf[j][i] = Msg("req", child.start)
      BY <1>8a, <2>1
    <3> QED BY <1>6, <1>9, <3>1, <3>2
  <2>2. CASE j # k
    BY <1>8, <1>8a, <1>9, <2>2 DEF IInv, Coherent, MessagesInv
  <2> QED BY <2>1, <2>2
<1>10a. RequestsInv(qf)
  <2> SUFFICES ASSUME NEW j \in Conns, NEW i \in DOMAIN qf[j], qf[j][i].type = "req"
               PROVE  qf[j][i].start \in 1 .. MaxStarts
    BY DEF RequestsInv
  <2>1. CASE j = k
    <3>1. qf[j][i] = Msg("req", child.start)
      BY <1>8a, <2>1
    <3> QED BY <1>6, <3>1, Both DEF ChildType
  <2>2. CASE j # k
    BY <1>8a, <2>2 DEF IInv, Coherent, RequestsInv
  <2> QED BY <2>1, <2>2
<1>11. FlagsInv(c, accepted)
  BY <1>9 DEF IInv, Coherent, FlagsInv
<1>12. Bound(g) = Bound(father) /\ Bound(father) \subseteq Conns /\ k \notin Bound(father)
  BY <1>1, <1>2, Both, FatherEnd DEF Bound, IInv, Coherent, PlacesInv
<1>13. PlacesInv(c, g)
  BY <1>2, <1>9, <1>12 DEF IInv, Coherent, PlacesInv
<1>14. ProcessInv(c, g)
  BY <1>2, <1>9, <1>12 DEF IInv, Coherent, ProcessInv
<1>15. Coherent(c, g, qc, qf, accepted)
  BY <1>2, <1>7, <1>9, <1>10, <1>10a, <1>11, <1>13, <1>14 DEF Coherent
<1>16. Become(c, g, qc, qf)
  BY <1>1 DEF c, d, e, g, qc, qf
<1> QED BY <1>1, <1>15, <1>16, StepInv DEF IInv

\* The node handles a message: a registration, which it answers, a success, which
\* only comes if it was accepted, or a refusal.
LEMMA ChildReceivesInv ==
  ASSUME NEW k \in Conns
  PROVE  IInv /\ ChildReceives(k) => IInv'
<1> SUFFICES ASSUME IInv, ChildReceives(k) PROVE IInv'
  OBVIOUS
<1> DEFINE m == Head(toC[k])
           rest == Took(toC, k)
<1>1. toC[k] # <<>> /\ child.at[k] = "open"
  BY DEF ChildReceives, IInv, Silent
<1>2. /\ rest \in Queues /\ Among(rest, toC) /\ m \in Messages
      /\ 1 \in DOMAIN toC[k] /\ m = toC[k][1]
  BY <1>1, Both, Dequeue
<1>3. Among(toF, toF)
  BY DEF Among
<1>4. Coherent(child, father, rest, toF, accepted)
  BY <1>2, <1>3, Both, FewerMessages DEF IInv
<1>5. \/ m.type = "req" /\ Become(ChildReg(child, k), father, rest, Added(toF, k, Msg("ok", 0)))
      \/ m.type = "ok" /\ Become(RspOk(child), father, rest, toF)
      \/ m.type = "err" /\ Become(IF child.actived THEN RspErr(child, k) ELSE Down(child), father, rest, toF)
  BY DEF ChildReceives, Took, Added
<1>6. UNCHANGED <<calm, accepted>>
  BY DEF ChildReceives
<1>7. hz' \subseteq Windows
  BY DEF ChildReceives, Windows, IInv
<1>8. m.type = "ok" => child.start \in accepted
  BY <1>1, <1>2 DEF IInv, Coherent, MessagesInv
<1> HIDE DEF m, rest
<1>9. CASE m.type = "req" /\ Become(ChildReg(child, k), father, rest, Added(toF, k, Msg("ok", 0)))
  <2>1. Msg("ok", 0) \in Messages /\ Msg("ok", 0).type # "req"
    BY BoundAssumption DEF Msg, Messages
  <2>2. Coherent(ChildReg(child, k), father, rest, toF, accepted)
    BY <1>4, Both, ChildRegCalmer, Harmless
  <2>3. Coherent(ChildReg(child, k), father, rest, Added(toF, k, Msg("ok", 0)), accepted)
    BY <2>1, <2>2, MoreToFather
  <2> QED BY <1>6, <1>7, <1>9, <2>3, StepInv DEF IInv
<1>10. CASE m.type = "ok" /\ Become(RspOk(child), father, rest, toF)
  <2> DEFINE c == RspOk(child)
  <2>1. c \in ChildType /\ Well(c) /\ c.start = child.start /\ c.at = child.at
    BY Both, RspOkType
  <2>2. c.start \in accepted
    BY <1>8, <1>10, <2>1
  <2> HIDE DEF c
  <2>3. Coherent(c, father, rest, toF, accepted)
    BY <1>4, <2>1, <2>2 DEF Coherent, MessagesInv, FlagsInv, PlacesInv, ProcessInv
  <2>4. Become(c, father, rest, toF)
    BY <1>10 DEF c
  <2> QED BY <1>6, <1>7, <2>3, <2>4, StepInv DEF IInv
<1>11. CASE m.type = "err" /\ Become(IF child.actived THEN RspErr(child, k) ELSE Down(child), father, rest, toF)
  <2> DEFINE c == IF child.actived THEN RspErr(child, k) ELSE Down(child)
  <2>1. Calmer(child, c)
    BY Both, RspErrCalmer, ChildDown
  <2> HIDE DEF c
  <2>2. Coherent(c, father, rest, toF, accepted)
    BY <1>4, <2>1, Both, Harmless
  <2>3. Become(c, father, rest, toF)
    BY <1>11 DEF c
  <2> QED BY <1>6, <1>7, <2>2, <2>3, StepInv DEF IInv
<1> QED BY <1>5, <1>9, <1>10, <1>11

\* The father handles a message.
LEMMA FatherReceivesInv ==
  ASSUME NEW k \in Conns
  PROVE  IInv /\ FatherReceives(k) => IInv'
<1> SUFFICES ASSUME IInv, FatherReceives(k) PROVE IInv'
  OBVIOUS
<1> DEFINE m == Head(toF[k])
           rest == Took(toF, k)
           r == FatherReg(father, k, m.start)
           more == IF r[2] = "ok" THEN accepted \cup {m.start} ELSE accepted
           qc == Added(toC, k, Msg(r[2], 0))
<1>1. toF[k] # <<>> /\ father.at[k] = "open"
  BY DEF FatherReceives, IInv, Silent
<1>2. /\ rest \in Queues /\ Among(rest, toF) /\ m \in Messages
      /\ 1 \in DOMAIN toF[k] /\ m = toF[k][1]
  BY <1>1, Both, Dequeue
<1>3. Among(toC, toC)
  BY DEF Among
<1>4. Coherent(child, father, toC, rest, accepted)
  BY <1>2, <1>3, Both, FewerMessages DEF IInv
<1>5. \/ m.type = "req" /\ Become(child, r[1], qc, rest) /\ accepted' = more
      \/ m.type # "req" /\ Become(child, father, toC, rest) /\ accepted' = accepted
  BY DEF FatherReceives, Took, Added
<1>6. UNCHANGED <<calm, hz>>
  BY DEF FatherReceives
<1>7. m.type = "req" /\ child.at[k] = "open" => m.start = child.start
  BY <1>2 DEF IInv, Coherent, MessagesInv
<1>8. m.start \in 0 .. MaxStarts
  BY <1>2 DEF Messages
<1>9. r = FatherReg(father, k, m.start)
  OBVIOUS
<1>10. \/ r = <<father, "ok">>
       \/ r[2] = "err" /\ Less(father, r[1])
       \/ /\ r[2] = "ok"
          /\ r[1] \in FatherType /\ Well(r[1]) /\ r[1].at = father.at
          /\ r[1].end.start = m.start
          /\ Bound(r[1]) = {k} \/ (father.end.start = m.start /\ Bound(r[1]) = Bound(father) \cup {k})
  BY <1>8, Both, FatherRegResult, ZenonT(40)
<1> HIDE DEF m, rest, r
<1>11. CASE m.type # "req" /\ Become(child, father, toC, rest) /\ accepted' = accepted
  BY <1>4, <1>6, <1>11, StepInv DEF IInv
<1>12. CASE m.type = "req" /\ Become(child, r[1], qc, rest) /\ accepted' = more
  <2>1. Coherent(child, father, toC, rest, more)
    BY <1>4, MoreAccepted
  <2>2. Coherent(child, r[1], toC, rest, more) /\ r[2] \in {"ok", "err"}
    <3>1. CASE r = <<father, "ok">>
      BY <2>1, <3>1
    <3>2. CASE r[2] = "err" /\ Less(father, r[1])
      BY <2>1, <3>2, Both, Harmless
    <3>3. CASE /\ r[2] = "ok"
               /\ r[1] \in FatherType /\ Well(r[1]) /\ r[1].at = father.at
               /\ r[1].end.start = m.start
               /\ Bound(r[1]) = {k} \/ (father.end.start = m.start /\ Bound(r[1]) = Bound(father) \cup {k})
      <4>1. PlacesInv(child, r[1])
        BY <1>1, <2>1, <3>3 DEF Coherent, PlacesInv
      <4>2. ProcessInv(child, r[1])
        BY <1>7, <1>12, <2>1, <3>3 DEF Coherent, ProcessInv
      <4> QED BY <2>1, <3>3, <4>1, <4>2 DEF Coherent
    <3> QED BY <1>10, <3>1, <3>2, <3>3
  <2>3. Msg(r[2], 0) \in Messages /\ Msg(r[2], 0).type = r[2]
    BY <2>2, BoundAssumption DEF Msg, Messages
  <2>4. Msg(r[2], 0).type = "ok" /\ child.at[k] = "open" => child.start \in more
    BY <1>7, <1>12, <2>3
  <2>5. Coherent(child, r[1], qc, rest, more)
    BY <2>2, <2>3, <2>4, MoreToChild
  <2>6. accepted' \subseteq 1 .. MaxStarts
    <3>1. m.start \in 1 .. MaxStarts
      BY <1>2, <1>12 DEF IInv, Coherent, RequestsInv
    <3> QED BY <1>12, <3>1 DEF IInv
  <2> QED BY <1>6, <1>12, <2>5, <2>6, StepInv DEF IInv
<1> QED BY <1>5, <1>11, <1>12

-----------------------------------------------------------------------------
\* Every step keeps the invariant.
LEMMA NextInv == IInv /\ [Next]_vars => IInv'
<1> SUFFICES ASSUME IInv, [Next]_vars PROVE IInv'
  OBVIOUS
<1>1. CASE UNCHANGED vars
  BY <1>1 DEF vars, IInv
<1>2. CASE Restart \/ Stop \/ Proc \/ FatherProc
  BY <1>2, RestartInv, StopInv, ProcInv, FatherProcInv
<1>3. CASE ChildDataFails \/ FatherDataFails \/ UserDisconnect \/ Calm
  BY <1>3, DataFailsInv, UserDisconnectInv, CalmInv
<1>4. ASSUME NEW k \in Conns, Connected(k) \/ ConnectFails(k) \/ ChildFails(k) \/ FatherFails(k)
      PROVE  IInv'
  BY <1>4, ConnectedInv, ConnectFailsInv, ChildFailsInv, FatherFailsInv
<1>5. ASSUME NEW k \in Conns, ChildReceives(k) \/ FatherReceives(k) PROVE IInv'
  BY <1>5, ChildReceivesInv, FatherReceivesInv
<1> QED BY <1>1, <1>2, <1>3, <1>4, <1>5 DEF Next

\* The handshake stays coherent, in every behaviour.
THEOREM HandshakeCoherent == Spec => []IInv
  BY InitInv, NextInv, PTL DEF Spec

\* Both processes, their endpoints and what is under way have their types
\* (TypeOK), whatever fails and however often the node is started.
THEOREM TypeCorrect == Spec => []TypeOK
<1>1. IInv => TypeOK
  BY DEF IInv, Coherent, Well, Queues, TypeOK
<1> QED BY <1>1, HandshakeCoherent, PTL

\* node::on_actived, which tells the user that the node is up, runs only when the
\* father has accepted this very process (UpWasAccepted).
THEOREM UpIsAccepted == Spec => []UpWasAccepted
<1>1. IInv => UpWasAccepted
  BY DEF IInv, Coherent, FlagsInv, UpWasAccepted
<1> QED BY <1>1, HandshakeCoherent, PTL

\* The endpoint that on_recv_node_reg_req adds connections to is that of the process
\* they come from (SameProcess).
THEOREM OneProcess == Spec => []SameProcess
<1>1. IInv => SameProcess
  BY DEF IInv, Coherent, ProcessInv, SameProcess
<1> QED BY <1>1, HandshakeCoherent, PTL

=============================================================================
