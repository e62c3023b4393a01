--------------------------- MODULE ConnectionProofs ---------------------------
(***************************************************************************)
(* Type correctness of the connections of a node, and that no plain pointer  *)
(* of a connection, a stream or an endpoint outlives what it points to        *)
(* (LinksMatch), for any number of connections and of peers.                *)
(*                                                                         *)
(* The methods of the code call each other in the middle of a step, so the   *)
(* invariant is stated of the record they work on: each of them keeps a Fit  *)
(* record fit, and a step is a chain of them that ends in Become.            *)
(***************************************************************************)
EXTENDS Connection, TLAPS

-----------------------------------------------------------------------------
Work ==
  [state : [Conns -> States], kind : [Conns -> Kinds], binding : [Conns -> Ends \cup {None}],
   ctrl : [Ends -> Conns \cup {None}], data : [Ends -> SUBSET Conns],
   io : [Conns -> BOOLEAN], stream : [Conns -> Streams], back : [Conns -> BOOLEAN],
   asked : SUBSET Conns, timers : SUBSET Conns, proc : SUBSET Conns, eps : SUBSET Peers,
   hz : SUBSET Windows]

Living(w) == {c \in Conns : w.state[c] # "none"}

Listed(w, e) == w.data[e] \cup {w.ctrl[e]}

\* LinksMatch, of the connection and its stream.
StreamLinks(w) ==
  \A c \in Conns :
    /\ w.back[c] <=> w.io[c]
    /\ w.io[c] => w.state[c] \in {"HANDSHAKING", "CONNECTED"} /\ w.stream[c] \in {"open", "closing"}
    /\ c \in Living(w) /\ w.stream[c] = "open" => w.io[c]

\* LinksMatch, of the connection and its endpoint; the dead have none.
EndLinks(w) ==
  /\ \A c \in Conns, e \in Ends : c \in Listed(w, e) <=> w.binding[c] = e
  /\ \A e \in Ends : w.ctrl[e] \notin w.data[e]
  /\ \A c \in Conns : w.binding[c] # None => c \in Living(w)

\* What a request holds is alive.
AskedLive(w) == w.asked \subseteq Living(w)

Fit(w) == w \in Work /\ StreamLinks(w) /\ EndLinks(w) /\ AskedLive(w)

\* A stream that will be asked for its connection is held by the request.
StreamHeld(w) == \A c \in Conns : w.stream[c] = "asked" => c \in w.asked

IInv ==
  /\ Fit(Here) /\ StreamHeld(Here)
  /\ phase \in {"up", "waiting", "closing", "down"}

\* v is w after connections were closed and let go: nobody died or came.
Kept(w, v) ==
  /\ Living(v) = Living(w) /\ v.asked = w.asked /\ v.kind = w.kind
  /\ \A c \in Conns : v.stream[c] = "asked" => w.stream[c] = "asked"

LEMMA KeptTrans ==
  ASSUME NEW u, NEW v, NEW w, Kept(u, v), Kept(v, w)
  PROVE  Kept(u, w)
  BY DEF Kept

LEMMA KeptHeld ==
  ASSUME NEW w, NEW v, Kept(w, v), StreamHeld(w)
  PROVE  StreamHeld(v)
  BY DEF Kept, StreamHeld

-----------------------------------------------------------------------------
\* connection::disconnect leaves the connections it closes without a stream.
LEMMA DisconnectFields ==
  ASSUME NEW w \in Work, NEW C \in SUBSET Conns
  PROVE  LET v == Disconnect(w, C) IN
         /\ v \in Work
         /\ v.kind = w.kind /\ v.binding = w.binding /\ v.ctrl = w.ctrl /\ v.data = w.data
         /\ v.asked = w.asked /\ v.timers = w.timers /\ v.eps = w.eps /\ v.hz = w.hz
         /\ \A c \in Conns :
              IF c \in C /\ w.state[c] \notin {"none", "DISCONNECTED"}
              THEN /\ v.state[c] = "DISCONNECTED" /\ ~v.io[c]
                   /\ v.stream[c] = (IF w.io[c] THEN "none" ELSE w.stream[c])
                   /\ v.back[c] = (IF w.io[c] THEN FALSE ELSE w.back[c])
              ELSE v.state[c] = w.state[c] /\ v.io[c] = w.io[c] /\ v.stream[c] = w.stream[c]
                   /\ v.back[c] = w.back[c]
<1> DEFINE up == {c \in C : w.state[c] \notin {"none", "DISCONNECTED"}}
           v == Disconnect(w, C)
<1>1. CASE up = {}
  <2>1. v = w
    BY <1>1 DEF Disconnect
  <2> QED BY <1>1, <2>1
<1>2. CASE up # {}
  <2> DEFINE st == {c \in up : w.io[c]}
             r == [w EXCEPT
                !.state  = [c \in Conns |-> IF c \in up THEN "DISCONNECTED" ELSE w.state[c]],
                !.stream = [c \in Conns |-> IF c \in st THEN "none" ELSE w.stream[c]],
                !.back   = [c \in Conns |-> IF c \in st THEN FALSE ELSE w.back[c]],
                !.io     = [c \in Conns |-> IF c \in up THEN FALSE ELSE w.io[c]],
                !.proc   = w.proc \ up]
  <2>1. v = r
    BY <1>2 DEF Disconnect, Work
  <2>2. r \in Work
    BY DEF Work, States, Streams
  <2>3. /\ r.kind = w.kind /\ r.binding = w.binding /\ r.ctrl = w.ctrl /\ r.data = w.data
        /\ r.asked = w.asked /\ r.timers = w.timers /\ r.eps = w.eps /\ r.hz = w.hz
    BY DEF Work
  <2>4. /\ r.state = [c \in Conns |-> IF c \in up THEN "DISCONNECTED" ELSE w.state[c]]
        /\ r.stream = [c \in Conns |-> IF c \in st THEN "none" ELSE w.stream[c]]
        /\ r.back = [c \in Conns |-> IF c \in st THEN FALSE ELSE w.back[c]]
        /\ r.io = [c \in Conns |-> IF c \in up THEN FALSE ELSE w.io[c]]
    BY DEF Work
  <2> HIDE DEF r, v
  <2> HIDE DEF r, v, st
  <2>5. v \in Work
    BY <2>1, <2>2
  <2>6. ASSUME NEW c \in Conns
        PROVE  IF c \in up
               THEN /\ v.state[c] = "DISCONNECTED" /\ ~v.io[c]
                    /\ v.stream[c] = (IF w.io[c] THEN "none" ELSE w.stream[c])
                    /\ v.back[c] = (IF w.io[c] THEN FALSE ELSE w.back[c])
               ELSE v.state[c] = w.state[c] /\ v.io[c] = w.io[c] /\ v.stream[c] = w.stream[c]
                    /\ v.back[c] = w.back[c]
    BY <2>1, <2>4 DEF st
  <2> QED BY <2>1, <2>3, <2>5, <2>6 DEF v
<1> QED BY <1>1, <1>2

LEMMA DisconnectFit ==
  ASSUME NEW w, Fit(w), NEW C \in SUBSET Conns
  PROVE  Fit(Disconnect(w, C)) /\ Kept(w, Disconnect(w, C))
<1> DEFINE v == Disconnect(w, C)
<1>0. w \in Work
  BY DEF Fit
<1>1. /\ v \in Work
      /\ v.kind = w.kind /\ v.binding = w.binding /\ v.ctrl = w.ctrl /\ v.data = w.data
      /\ v.asked = w.asked
      /\ \A c \in Conns :
              IF c \in C /\ w.state[c] \notin {"none", "DISCONNECTED"}
              THEN /\ v.state[c] = "DISCONNECTED" /\ ~v.io[c]
                   /\ v.stream[c] = (IF w.io[c] THEN "none" ELSE w.stream[c])
                   /\ v.back[c] = (IF w.io[c] THEN FALSE ELSE w.back[c])
              ELSE v.state[c] = w.state[c] /\ v.io[c] = w.io[c] /\ v.stream[c] = w.stream[c]
                   /\ v.back[c] = w.back[c]
  BY <1>0, DisconnectFields
<1> HIDE DEF v
<1>2. Living(v) = Living(w)
  BY <1>1 DEF Living
<1>3. EndLinks(v) /\ AskedLive(v)
  BY <1>1, <1>2 DEF Fit, EndLinks, Listed, AskedLive
<1>4. StreamLinks(v)
  BY <1>1, <1>2 DEF Fit, StreamLinks, Living
<1>5. Kept(w, v)
  BY <1>1, <1>2 DEF Kept
<1> QED BY <1>1, <1>3, <1>4, <1>5 DEF Fit, v

\* A connection that was reset has let go of its stream.
LEMMA DisconnectKeepsClosed ==
  ASSUME NEW w, Fit(w), NEW C \in SUBSET Conns, NEW c \in Conns
  PROVE  c \in C \/ ~w.io[c] => ~Disconnect(w, C).io[c]
<1>1. w \in Work /\ (w.io[c] => w.state[c] \in {"HANDSHAKING", "CONNECTED"})
  BY DEF Fit, StreamLinks
<1>2. IF c \in C /\ w.state[c] \notin {"none", "DISCONNECTED"}
      THEN ~Disconnect(w, C).io[c] ELSE Disconnect(w, C).io[c] = w.io[c]
  <2> DEFINE v == Disconnect(w, C)
  <2>1. IF c \in C /\ w.state[c] \notin {"none", "DISCONNECTED"}
        THEN ~v.io[c] ELSE v.io[c] = w.io[c]
    BY <1>1, DisconnectFields
  <2> QED BY <2>1
<1>3. w.io[c] \in BOOLEAN
  BY <1>1 DEF Work
<1> QED BY <1>1, <1>2, <1>3

LEMMA ResetEndFit ==
  ASSUME NEW w, Fit(w), NEW e \in Ends
  PROVE  /\ Fit(ResetEnd(w, e)) /\ Kept(w, ResetEnd(w, e))
         /\ \A c \in Conns : ~w.io[c] => ~ResetEnd(w, e).io[c]
<1> DEFINE out == Listed(w, e)
           b == [c \in Conns |-> IF c \in out THEN None ELSE w.binding[c]]
           h == IF e = Self /\ \E c \in out \ {None} : w.state[c] # "DISCONNECTED"
                THEN w.hz \cup {"selfctrl"} ELSE w.hz
           v == [w EXCEPT !.binding = b, !.ctrl[e] = None, !.data[e] = {}, !.hz = h]
<1>0. w \in Work
  BY DEF Fit
<1>1. ResetEnd(w, e) = Disconnect(v, w.data[e])
  BY <1>0 DEF ResetEnd, Listed, Work
<1>2. v \in Work
  BY <1>0 DEF Work, Windows
<1>3. /\ v.state = w.state /\ v.io = w.io /\ v.stream = w.stream /\ v.back = w.back
      /\ v.asked = w.asked /\ v.kind = w.kind /\ v.binding = b
      /\ v.ctrl = [w.ctrl EXCEPT ![e] = None] /\ v.data = [w.data EXCEPT ![e] = {}]
  BY <1>0 DEF Work
<1> HIDE DEF v, h
<1>4. Living(v) = Living(w)
  BY <1>3 DEF Living
<1>5. EndLinks(v)
  <2>1. ASSUME NEW c \in Conns, NEW f \in Ends PROVE c \in Listed(v, f) <=> v.binding[c] = f
    <3>1. CASE f = e
      <4>1. Listed(v, e) = {None}
        BY <1>0, <1>3 DEF Listed, Work
      <4> QED BY <4>1, <3>1, <1>3, NameAssumption DEF Fit, EndLinks, Ends
    <3>2. CASE f # e
      <4>1. Listed(v, f) = Listed(w, f)
        BY <1>0, <1>3, <3>2 DEF Listed, Work
      <4> QED BY <4>1, <3>2, <1>3, NameAssumption DEF Fit, EndLinks, Ends
    <3> QED BY <3>1, <3>2
  <2>2. \A f \in Ends : v.ctrl[f] \notin v.data[f]
    BY <1>0, <1>3 DEF Fit, EndLinks, Work
  <2>3. \A c \in Conns : v.binding[c] # None => c \in Living(v)
    BY <1>3, <1>4 DEF Fit, EndLinks
  <2> QED BY <2>1, <2>2, <2>3 DEF EndLinks
<1>6. StreamLinks(v) /\ AskedLive(v)
  BY <1>3, <1>4 DEF Fit, StreamLinks, AskedLive
<1>7. Fit(v) /\ Kept(w, v)
  BY <1>2, <1>3, <1>4, <1>5, <1>6 DEF Fit, Kept
<1>8. w.data[e] \in SUBSET Conns
  BY <1>0 DEF Work
<1>9. ASSUME NEW c \in Conns, ~w.io[c] PROVE ~Disconnect(v, w.data[e]).io[c]
  <2>1. ~v.io[c]
    BY <1>3, <1>9
  <2> QED BY <1>7, <1>8, <2>1, DisconnectKeepsClosed
<1> QED BY <1>1, <1>7, <1>8, <1>9, DisconnectFit, KeptTrans

LEMMA ResetFit ==
  ASSUME NEW w, Fit(w), NEW c \in Conns
  PROVE  Fit(Reset(w, c)) /\ Kept(w, Reset(w, c)) /\ ~Reset(w, c).io[c]
<1> DEFINE v == Disconnect(w, {c})
           e == v.binding[c]
           u == [v EXCEPT !.binding[c] = None, !.data[e] = @ \ {c}]
<1>1. Fit(v) /\ Kept(w, v) /\ ~v.io[c]
  BY DisconnectFit, DisconnectKeepsClosed
<1> HIDE DEF v
<1>2. \/ Reset(w, c) = v
      \/ e # None /\ Reset(w, c) = ResetEnd(v, e)
      \/ e # None /\ v.ctrl[e] # c /\ Reset(w, c) \in {u, ResetEnd(u, e)}
  BY DEF Reset, v
<1>3. e # None => e \in Ends
  BY <1>1 DEF Fit, Work
<1>4. ASSUME e # None, v.ctrl[e] # c PROVE Fit(u) /\ Kept(v, u) /\ ~u.io[c]
  <2>0. v \in Work /\ e \in Ends
    BY <1>1, <1>3, <1>4 DEF Fit
  <2>1. u \in Work
    BY <2>0 DEF Work
  <2>2. /\ u.state = v.state /\ u.io = v.io /\ u.stream = v.stream /\ u.back = v.back
        /\ u.asked = v.asked /\ u.kind = v.kind /\ u.ctrl = v.ctrl
        /\ u.binding = [v.binding EXCEPT ![c] = None]
        /\ u.data = [v.data EXCEPT ![e] = v.data[e] \ {c}]
    BY <2>0 DEF Work
  <2> HIDE DEF u
  <2>3. Living(u) = Living(v)
    BY <2>2 DEF Living
  <2>4. ASSUME NEW d \in Conns, NEW f \in Ends PROVE d \in Listed(u, f) <=> u.binding[d] = f
    <3>1. CASE d = c
      <4>1. c \notin Listed(u, f)
        BY <1>1, <1>4, <2>0, <2>2 DEF Fit, EndLinks, Listed, Work
      <4>2. u.binding[c] # f
        BY <2>0, <2>2, NameAssumption DEF Work, Ends
      <4> QED BY <3>1, <4>1, <4>2
    <3>2. CASE d # c
      <4>1. d \in Listed(u, f) <=> d \in Listed(v, f)
        BY <2>0, <2>2, <3>2 DEF Listed, Work
      <4> QED BY <1>1, <2>0, <2>2, <3>2, <4>1 DEF Fit, EndLinks, Work
    <3> QED BY <3>1, <3>2
  <2>5. EndLinks(u)
    BY <1>1, <2>0, <2>2, <2>3, <2>4 DEF Fit, EndLinks, Work
  <2> QED BY <1>1, <2>1, <2>2, <2>3, <2>5 DEF Fit, StreamLinks, AskedLive, Kept
<1> HIDE DEF u, e
<1>5. e # None => Fit(ResetEnd(v, e)) /\ Kept(v, ResetEnd(v, e)) /\ ~ResetEnd(v, e).io[c]
  BY <1>1, <1>3, ResetEndFit
<1>6. e # None /\ v.ctrl[e] # c => Fit(ResetEnd(u, e)) /\ Kept(u, ResetEnd(u, e)) /\ ~ResetEnd(u, e).io[c]
  BY <1>3, <1>4, ResetEndFit
<1> QED BY <1>1, <1>2, <1>4, <1>5, <1>6, KeptTrans

-----------------------------------------------------------------------------
\* What only changes lists, tables or the history changes no links.
SameLinks(w, v) ==
  /\ v.state = w.state /\ v.kind = w.kind /\ v.binding = w.binding /\ v.ctrl = w.ctrl
  /\ v.data = w.data /\ v.io = w.io /\ v.stream = w.stream /\ v.back = w.back /\ v.asked = w.asked

LEMMA SameLinksFit ==
  ASSUME NEW w, Fit(w), NEW v \in Work, SameLinks(w, v)
  PROVE  Fit(v) /\ Kept(w, v)
<1>1. Living(v) = Living(w)
  BY DEF Living, SameLinks
<1>2. EndLinks(v) /\ StreamLinks(v) /\ AskedLive(v)
  BY <1>1 DEF Fit, SameLinks, EndLinks, Listed, StreamLinks, AskedLive
<1> QED BY <1>1, <1>2 DEF Fit, Kept, SameLinks

LEMMA SidesFit ==
  ASSUME NEW w, Fit(w), NEW T \in SUBSET Conns, NEW P \in SUBSET Conns, NEW E \in SUBSET Peers,
         NEW h \in SUBSET Windows
  PROVE  /\ Fit([w EXCEPT !.timers = T]) /\ Kept(w, [w EXCEPT !.timers = T])
         /\ Fit([w EXCEPT !.proc = P]) /\ Kept(w, [w EXCEPT !.proc = P])
         /\ Fit([w EXCEPT !.eps = E]) /\ Kept(w, [w EXCEPT !.eps = E])
         /\ Fit([w EXCEPT !.hz = h]) /\ Kept(w, [w EXCEPT !.hz = h])
<1>0. w \in Work
  BY DEF Fit
<1>1. /\ [w EXCEPT !.timers = T] \in Work /\ SameLinks(w, [w EXCEPT !.timers = T])
      /\ [w EXCEPT !.proc = P] \in Work /\ SameLinks(w, [w EXCEPT !.proc = P])
      /\ [w EXCEPT !.eps = E] \in Work /\ SameLinks(w, [w EXCEPT !.eps = E])
      /\ [w EXCEPT !.hz = h] \in Work /\ SameLinks(w, [w EXCEPT !.hz = h])
  BY <1>0 DEF Work, SameLinks
<1> QED BY <1>1, SameLinksFit

\* A connection that lives takes another state, if its stream allows that.
LEMMA StateFit ==
  ASSUME NEW w, Fit(w), NEW c \in Living(w), NEW s \in States \ {"none"},
         w.io[c] => s \in {"HANDSHAKING", "CONNECTED"}
  PROVE  Fit([w EXCEPT !.state[c] = s]) /\ Kept(w, [w EXCEPT !.state[c] = s])
<1> DEFINE v == [w EXCEPT !.state[c] = s]
<1>0. w \in Work /\ c \in Conns
  BY DEF Fit, Living
<1>1. v \in Work
  BY <1>0 DEF Work
<1>2. /\ v.state = [w.state EXCEPT ![c] = s]
      /\ v.kind = w.kind /\ v.binding = w.binding /\ v.ctrl = w.ctrl /\ v.data = w.data
      /\ v.io = w.io /\ v.stream = w.stream /\ v.back = w.back /\ v.asked = w.asked
  BY <1>0 DEF Work
<1> HIDE DEF v
<1>3. Living(v) = Living(w)
  BY <1>0, <1>2 DEF Living, Work
<1>4. StreamLinks(v)
  BY <1>0, <1>2, <1>3 DEF Fit, StreamLinks, Work
<1>5. EndLinks(v) /\ AskedLive(v)
  BY <1>2, <1>3 DEF Fit, EndLinks, Listed, AskedLive
<1> QED BY <1>1, <1>2, <1>3, <1>4, <1>5 DEF Fit, Kept, v

\* A connection that has no stream any more: what was asked for it has failed.
LEMMA NoStreamFit ==
  ASSUME NEW w, Fit(w), NEW c \in Conns, ~w.io[c], NEW s \in {"none", "lost"}
  PROVE  Fit([w EXCEPT !.stream[c] = s]) /\ Kept(w, [w EXCEPT !.stream[c] = s])
<1> DEFINE v == [w EXCEPT !.stream[c] = s]
<1>0. w \in Work
  BY DEF Fit
<1>1. v \in Work
  BY <1>0 DEF Work, Streams
<1>2. /\ v.stream = [w.stream EXCEPT ![c] = s]
      /\ v.kind = w.kind /\ v.binding = w.binding /\ v.ctrl = w.ctrl /\ v.data = w.data
      /\ v.io = w.io /\ v.state = w.state /\ v.back = w.back /\ v.asked = w.asked
  BY <1>0 DEF Work
<1> HIDE DEF v
<1>3. Living(v) = Living(w)
  BY <1>2 DEF Living
<1>4. StreamLinks(v)
  BY <1>0, <1>2, <1>3 DEF Fit, StreamLinks, Work
<1>5. EndLinks(v) /\ AskedLive(v)
  BY <1>2, <1>3 DEF Fit, EndLinks, Listed, AskedLive
<1>6. Kept(w, v)
  BY <1>0, <1>2, <1>3 DEF Kept, Work
<1> QED BY <1>1, <1>4, <1>5, <1>6 DEF Fit, v

\* A connection and its new stream know each other.
LEMMA OpenedFit ==
  ASSUME NEW w, Fit(w), NEW c \in Living(w)
  PROVE  /\ Fit(Opened(w, c)) /\ Kept(w, Opened(w, c))
         /\ Opened(w, c).stream[c] = "open"
<1> DEFINE v == Opened(w, c)
           s == IF w.binding[c] = None THEN "HANDSHAKING" ELSE "CONNECTED"
<1>0. w \in Work /\ c \in Conns
  BY DEF Fit, Living
<1>1. v \in Work
  BY <1>0 DEF Work, Opened, Streams, States
<1>2. /\ v.state = [w.state EXCEPT ![c] = s] /\ v.stream = [w.stream EXCEPT ![c] = "open"]
      /\ v.io = [w.io EXCEPT ![c] = TRUE] /\ v.back = [w.back EXCEPT ![c] = TRUE]
      /\ v.kind = w.kind /\ v.binding = w.binding /\ v.ctrl = w.ctrl /\ v.data = w.data
      /\ v.asked = w.asked
  BY <1>0 DEF Work, Opened
<1> HIDE DEF v
<1>3. Living(v) = Living(w)
  BY <1>0, <1>2 DEF Living, Work
<1>4. StreamLinks(v)
  BY <1>0, <1>2, <1>3 DEF Fit, StreamLinks, Work
<1>5. EndLinks(v) /\ AskedLive(v)
  BY <1>2, <1>3 DEF Fit, EndLinks, Listed, AskedLive
<1>6. Kept(w, v) /\ v.stream[c] = "open"
  BY <1>0, <1>2, <1>3 DEF Kept, Work
<1> QED BY <1>1, <1>4, <1>5, <1>6 DEF Fit, v

\* endpoint::add_connection.
LEMMA AddConnectionFit ==
  ASSUME NEW w, Fit(w), NEW c \in Living(w), NEW e \in Ends, NEW force \in BOOLEAN
  PROVE  /\ Fit(AddConnection(w, c, e, force)) /\ Kept(w, AddConnection(w, c, e, force))
         /\ AddConnection(w, c, e, force).stream = w.stream
<1> DEFINE v == AddConnection(w, c, e, force)
           late == force \/ w.ctrl[e] # None
           s == IF w.state[c] = "HANDSHAKING" THEN "CONNECTED" ELSE w.state[c]
<1>0. w \in Work /\ c \in Conns
  BY DEF Fit, Living
<1>1. CASE w.binding[c] # None
  <2>1. v = w
    BY <1>1 DEF AddConnection
  <2> QED BY <2>1 DEF Kept
<1>2. CASE w.binding[c] = None
  <2>1. v \in Work
    <3> DEFINE r == [w EXCEPT !.binding[c] = e, !.state[c] = s]
    <3>1. r \in Work
      BY <1>0 DEF Work, States
    <3>2. v = IF late THEN [r EXCEPT !.data[e] = @ \cup {c}] ELSE [r EXCEPT !.ctrl[e] = c]
      BY <1>0, <1>2 DEF AddConnection, Work
    <3> HIDE DEF r, v
    <3>3. [r EXCEPT !.data[e] = @ \cup {c}] \in Work
      BY <1>0, <3>1 DEF Work
    <3>4. [r EXCEPT !.ctrl[e] = c] \in Work
      BY <1>0, <3>1 DEF Work
    <3> QED BY <3>2, <3>3, <3>4
  <2>2. /\ v.state = [w.state EXCEPT ![c] = s] /\ v.binding = [w.binding EXCEPT ![c] = e]
        /\ v.data = (IF late THEN [w.data EXCEPT ![e] = w.data[e] \cup {c}] ELSE w.data)
        /\ v.ctrl = (IF late THEN w.ctrl ELSE [w.ctrl EXCEPT ![e] = c])
        /\ v.kind = w.kind /\ v.io = w.io /\ v.stream = w.stream /\ v.back = w.back
        /\ v.asked = w.asked
    BY <1>0, <1>2 DEF Work, AddConnection
  <2> HIDE DEF v
  <2>3. Living(v) = Living(w)
    BY <1>0, <2>2 DEF Living, Work
  <2>4. StreamLinks(v)
    BY <1>0, <2>2, <2>3 DEF Fit, StreamLinks, Work
  <2>5. \A f \in Ends : c \notin Listed(w, f)
    BY <1>0, <1>2, NameAssumption DEF Fit, EndLinks, Ends
  <2>6. ASSUME NEW f \in Ends
        PROVE  \/ f # e /\ Listed(v, f) = Listed(w, f)
               \/ f = e /\ Listed(v, f) = Listed(w, f) \cup {c}
               \/ f = e /\ Listed(v, f) = (Listed(w, f) \ {None}) \cup {c} 
    <3>1. CASE late
      BY <1>0, <2>2, <3>1 DEF Listed, Work
    <3>2. CASE ~late
      <4>1. None \notin w.data[e]
        BY <1>0, NameAssumption DEF Work
      <4> QED BY <1>0, <2>2, <3>2, <4>1 DEF Listed, Work
    <3> QED BY <3>1, <3>2
  <2>7. ASSUME NEW d \in Conns, NEW f \in Ends PROVE d \in Listed(v, f) <=> v.binding[d] = f
    <3>1. d \in Listed(v, f) <=> (d \in Listed(w, f) \/ (d = c /\ f = e))
      BY <2>6, <2>5, NameAssumption
    <3> QED BY <1>0, <2>2, <2>5, <3>1 DEF Fit, EndLinks, Work
  <2>8. \A f \in Ends : v.ctrl[f] \notin v.data[f]
    BY <1>0, <2>2, <2>5 DEF Fit, EndLinks, Listed, Work
  <2>9. \A d \in Conns : v.binding[d] # None => d \in Living(v)
    BY <1>0, <2>2, <2>3 DEF Fit, EndLinks, Work
  <2> QED BY <2>1, <2>2, <2>3, <2>4, <2>7, <2>8, <2>9 DEF Fit, EndLinks, AskedLive, Kept, v
<1> QED BY <1>1, <1>2

-----------------------------------------------------------------------------
\* connection::create, in a free place: the new connection has nothing yet.
LEMMA CreateFit ==
  ASSUME NEW w, Fit(w), StreamHeld(w), NEW c \in Conns, NEW k \in Kinds,
         w.state[c] = "none", w.stream[c] = "none"
  PROVE  LET v == Create(w, c, k) IN
         /\ Fit(v) /\ StreamHeld(v)
         /\ c \in Living(v) /\ v.state[c] = "DISCONNECTED" /\ v.binding[c] = None
         /\ ~v.io[c] /\ v.stream[c] = "none"
         /\ Living(w) \subseteq Living(v)
<1> DEFINE v == Create(w, c, k)
<1>0. w \in Work
  BY DEF Fit
<1>1. v \in Work
  BY <1>0 DEF Work, Create, States
<1>2. /\ v.state = [w.state EXCEPT ![c] = "DISCONNECTED"]
      /\ v.io = w.io /\ v.stream = w.stream /\ v.back = w.back
      /\ v.binding = w.binding /\ v.ctrl = w.ctrl /\ v.data = w.data /\ v.asked = w.asked
  BY <1>0 DEF Work, Create
<1> HIDE DEF v
<1>3. Living(v) = Living(w) \cup {c}
  BY <1>0, <1>2 DEF Living, Work
<1>4. w.binding[c] = None /\ ~w.io[c]
  BY <1>0 DEF Fit, EndLinks, StreamLinks, Living, Work
<1>5. StreamLinks(v)
  BY <1>0, <1>2, <1>3, <1>4 DEF Fit, StreamLinks, Living, Work
<1>6. EndLinks(v) /\ AskedLive(v) /\ StreamHeld(v)
  BY <1>2, <1>3 DEF Fit, EndLinks, Listed, AskedLive, StreamHeld
<1> QED BY <1>0, <1>1, <1>2, <1>3, <1>4, <1>5, <1>6 DEF Fit, Work, v

\* A request for a connection that has no stream.
LEMMA AskedFit ==
  ASSUME NEW w, Fit(w), StreamHeld(w), NEW c \in Living(w), ~w.io[c]
  PROVE  LET v == Asked(w, c) IN
         /\ Fit(v) /\ StreamHeld(v) /\ Living(v) = Living(w) /\ ~v.io[c] /\ v.hz = w.hz
<1> DEFINE v == Asked(w, c)
<1>0. w \in Work /\ c \in Conns
  BY DEF Fit, Living
<1>1. v \in Work
  BY <1>0 DEF Work, Asked, States, Streams
<1>2. /\ v.state = [w.state EXCEPT ![c] = "CONNECTING"] /\ v.stream = [w.stream EXCEPT ![c] = "asked"]
      /\ v.asked = w.asked \cup {c} /\ v.io = w.io /\ v.back = w.back
      /\ v.binding = w.binding /\ v.ctrl = w.ctrl /\ v.data = w.data /\ v.hz = w.hz
  BY <1>0 DEF Work, Asked
<1> HIDE DEF v
<1>3. Living(v) = Living(w)
  BY <1>0, <1>2 DEF Living, Work
<1>4. StreamLinks(v)
  BY <1>0, <1>2, <1>3 DEF Fit, StreamLinks, Work
<1>5. EndLinks(v) /\ AskedLive(v)
  BY <1>2, <1>3 DEF Fit, EndLinks, Listed, AskedLive
<1>6. StreamHeld(v)
  BY <1>0, <1>2 DEF StreamHeld, Work
<1> QED BY <1>1, <1>2, <1>3, <1>4, <1>5, <1>6 DEF Fit, v

\* The request of c is over: only the stream of c may still say asked.
LEMMA AnsweredFit ==
  ASSUME NEW w, Fit(w), StreamHeld(w), NEW c \in Conns
  PROVE  LET v == [w EXCEPT !.asked = @ \ {c}] IN
         /\ Fit(v) /\ Living(v) = Living(w) /\ v.io = w.io
         /\ \A d \in Conns \ {c} : v.stream[d] = "asked" => d \in v.asked
<1> DEFINE v == [w EXCEPT !.asked = @ \ {c}]
<1>0. w \in Work
  BY DEF Fit
<1>1. v \in Work
  BY <1>0 DEF Work
<1>2. /\ v.asked = w.asked \ {c} /\ v.state = w.state /\ v.stream = w.stream /\ v.io = w.io
      /\ v.back = w.back /\ v.binding = w.binding /\ v.ctrl = w.ctrl /\ v.data = w.data
  BY <1>0 DEF Work
<1> HIDE DEF v
<1>3. Living(v) = Living(w)
  BY <1>2 DEF Living
<1>4. StreamLinks(v) /\ EndLinks(v) /\ AskedLive(v)
  BY <1>2, <1>3 DEF Fit, StreamLinks, EndLinks, Listed, AskedLive
<1>5. \A d \in Conns \ {c} : v.stream[d] = "asked" => d \in v.asked
  BY <1>2 DEF StreamHeld
<1> QED BY <1>1, <1>2, <1>3, <1>4, <1>5 DEF Fit, v

LEMMA StreamHeldAgain ==
  ASSUME NEW w, NEW v, NEW c \in Conns, Kept(w, v), v.stream[c] # "asked",
         \A d \in Conns \ {c} : w.stream[d] = "asked" => d \in w.asked
  PROVE  StreamHeld(v)
  BY DEF Kept, StreamHeld

-----------------------------------------------------------------------------
\* The step ends: what nobody holds is closed and gone, and nobody lists it.
LEMMA BecomeInv ==
  ASSUME NEW w, Fit(w), StreamHeld(w), Become(w),
         phase' \in {"up", "waiting", "closing", "down"}
  PROVE  IInv'
<1> DEFINE lost == Unheld(w)
           v == Disconnect(w, lost)
           r == Here'
<1>0. w \in Work /\ lost \in SUBSET Conns
  BY DEF Fit, Unheld
<1>1. Fit(v) /\ Kept(w, v)
  BY <1>0, DisconnectFit
<1>2. /\ v.binding = w.binding
      /\ \A c \in lost : ~v.io[c]
  <2>1. /\ v.binding = w.binding
        /\ \A c \in Conns :
              IF c \in lost /\ w.state[c] \notin {"none", "DISCONNECTED"}
              THEN ~v.io[c] ELSE v.io[c] = w.io[c]
    BY <1>0, DisconnectFields
  <2>2. \A c \in lost : w.state[c] # "none"
    BY DEF Unheld
  <2>3. \A c \in lost : w.state[c] = "DISCONNECTED" => ~w.io[c]
    BY <1>0 DEF Fit, StreamLinks, Work
  <2> HIDE DEF v, lost
  <2> QED BY <1>0, <2>1, <2>2, <2>3
<1>3. /\ r.state = [c \in Conns |-> IF c \in lost THEN "none" ELSE v.state[c]]
      /\ r.kind = [c \in Conns |-> IF c \in lost THEN "none" ELSE v.kind[c]]
      /\ r.io = v.io /\ r.stream = v.stream /\ r.back = v.back
      /\ r.binding = v.binding /\ r.ctrl = v.ctrl /\ r.data = v.data /\ r.eps = v.eps
      /\ r.asked = v.asked /\ r.timers = v.timers /\ r.proc = v.proc /\ r.hz = v.hz
  BY DEF Become, Here
<1>4. r = [state |-> r.state, kind |-> r.kind, binding |-> r.binding, ctrl |-> r.ctrl,
           data |-> r.data, io |-> r.io, stream |-> r.stream, back |-> r.back, asked |-> r.asked,
           timers |-> r.timers, proc |-> r.proc, eps |-> r.eps, hz |-> r.hz]
  BY DEF Here
<1>5. lost \cap w.asked = {} /\ \A c \in lost, e \in Ends : c \notin Listed(w, e)
  BY DEF Unheld, Held, Listed
<1> HIDE DEF v, lost, r
<1>6. r \in Work
  <2>1. v \in Work
    BY <1>1 DEF Fit
  <2>2. r.state \in [Conns -> States] /\ r.kind \in [Conns -> Kinds]
    BY <1>3, <2>1 DEF Work, States, Kinds
  <2> QED BY <1>3, <1>4, <2>1, <2>2 DEF Work
<1>7. Living(r) = Living(v) \ lost
  BY <1>3 DEF Living
<1>8. \A c \in lost : v.binding[c] = None
  BY <1>0, <1>2, <1>5 DEF Fit, EndLinks, Work
<1>9. EndLinks(r)
  BY <1>1, <1>3, <1>7, <1>8 DEF Fit, EndLinks, Listed
<1>10. StreamLinks(r)
  BY <1>1, <1>2, <1>3, <1>7 DEF Fit, StreamLinks, Living
<1>11. AskedLive(r) /\ StreamHeld(r)
  <2>1. StreamHeld(v) /\ v.asked = w.asked
    BY <1>1, KeptHeld DEF Kept
  <2> QED BY <1>1, <1>3, <1>5, <1>7, <2>1 DEF Fit, AskedLive, StreamHeld
<1> QED BY <1>6, <1>9, <1>10, <1>11 DEF IInv, Fit, r

\* The usual end of a step.
LEMMA BecomeKept ==
  ASSUME NEW w, NEW v, Fit(v), Kept(w, v), StreamHeld(w), Become(v),
         phase' \in {"up", "waiting", "closing", "down"}
  PROVE  IInv'
  BY KeptHeld, BecomeInv

-----------------------------------------------------------------------------
\* What every action starts from.
LEMMA Start ==
  ASSUME IInv
  PROVE  /\ Fit(Here) /\ StreamHeld(Here) /\ Here \in Work
         /\ Kept(Here, Here)
         /\ Living(Here) = {c \in Conns : state[c] # "none"}
         /\ timers \in SUBSET Conns /\ proc \in SUBSET Conns /\ eps \in SUBSET Peers
         /\ hz \in SUBSET Windows
         /\ phase \in {"up", "waiting", "closing", "down"}
<1>1. Fit(Here) /\ StreamHeld(Here) /\ Here \in Work /\ phase \in {"up", "waiting", "closing", "down"}
  BY DEF IInv, Fit
<1>2. Living(Here) = {c \in Conns : state[c] # "none"}
  BY DEF Living, Here
<1>3. /\ timers \in SUBSET Conns /\ proc \in SUBSET Conns /\ eps \in SUBSET Peers
      /\ hz \in SUBSET Windows
  BY <1>1 DEF Work, Here
<1> QED BY <1>1, <1>2, <1>3 DEF Kept

LEMMA NewFit ==
  ASSUME IInv, NEW c \in Conns, New(c), NEW k \in Kinds
  PROVE  LET v == Create(Here, c, k) IN
         /\ Fit(v) /\ StreamHeld(v)
         /\ c \in Living(v) /\ v.state[c] = "DISCONNECTED" /\ v.binding[c] = None
         /\ ~v.io[c] /\ v.stream[c] = "none"
         /\ Living(Here) \subseteq Living(v)
<1>1. Here.state[c] = "none" /\ Here.stream[c] = "none"
  BY DEF New, Free, Here
<1> QED BY <1>1, Start, CreateFit

\* Messages come for connections that live.
LEMMA MessageLives ==
  ASSUME IInv, NEW c \in Conns, stream[c] \in {"open", "closing"}, back[c]
  PROVE  c \in Living(Here)
<1>1. Here.io[c]
  BY Start DEF Fit, StreamLinks, Here
<1>2. Here.state[c] \in {"HANDSHAKING", "CONNECTED"}
  BY <1>1, Start DEF Fit, StreamLinks
<1> QED BY <1>2, Start DEF Living

LEMMA ListenInv ==
  ASSUME IInv, NEW c \in Conns, Listen(c)
  PROVE  IInv'
<1> DEFINE w == Create(Here, c, "listen")
           o == Opened(w, c)
           q == [o EXCEPT !.state[c] = "CONNECTED"]
           s == Asked(w, c)
<1>1. /\ Fit(w) /\ StreamHeld(w) /\ c \in Living(w) /\ ~w.io[c]
      /\ phase' \in {"up", "waiting", "closing", "down"}
  BY NewFit, Start DEF Listen, Kinds
<1>2. \/ Become(AddConnection(q, c, Self, FALSE))
      \/ Become(AddConnection(s, c, Self, FALSE))
      \/ Become([w EXCEPT !.state[c] = "CONNECTING"])
  BY DEF Listen
<1> HIDE DEF w
<1>3. Fit(o) /\ Kept(w, o)
  BY <1>1, OpenedFit
<1>4. Fit(s) /\ StreamHeld(s) /\ Living(s) = Living(w)
  BY <1>1, AskedFit
<1> HIDE DEF o, s
<1>5. Fit(q) /\ Kept(o, q)
  BY <1>1, <1>3, StateFit DEF Kept, States
<1> HIDE DEF q
<1>6. /\ Fit(AddConnection(q, c, Self, FALSE)) /\ Kept(q, AddConnection(q, c, Self, FALSE))
      /\ Fit(AddConnection(s, c, Self, FALSE)) /\ Kept(s, AddConnection(s, c, Self, FALSE))
  <2>1. c \in Living(q) /\ c \in Living(s) /\ Self \in Ends
    BY <1>1, <1>3, <1>4, <1>5 DEF Kept, Ends
  <2> QED BY <1>4, <1>5, <2>1, AddConnectionFit
<1>7. CASE Become(AddConnection(q, c, Self, FALSE))
  BY <1>1, <1>3, <1>5, <1>6, <1>7, KeptTrans, BecomeKept
<1>8. CASE Become(AddConnection(s, c, Self, FALSE))
  BY <1>1, <1>4, <1>6, <1>8, BecomeKept
<1>9. CASE Become([w EXCEPT !.state[c] = "CONNECTING"])
  <2>1. Fit([w EXCEPT !.state[c] = "CONNECTING"]) /\ Kept(w, [w EXCEPT !.state[c] = "CONNECTING"])
    BY <1>1, StateFit DEF States
  <2> QED BY <1>1, <1>9, <2>1, BecomeKept
<1> QED BY <1>2, <1>7, <1>8, <1>9

LEMMA ListenMemInv ==
  ASSUME IInv, NEW c \in Conns, ListenMem(c)
  PROVE  IInv'
<1> DEFINE w == Create(Here, c, "poll")
           q == [w EXCEPT !.state[c] = "CONNECTED"]
           p == [q EXCEPT !.proc = @ \cup {c}]
<1>1. /\ Fit(w) /\ StreamHeld(w) /\ c \in Living(w) /\ ~w.io[c]
      /\ phase' \in {"up", "waiting", "closing", "down"}
  BY NewFit, Start DEF ListenMem, Kinds
<1>2. Become(AddConnection(p, c, Self, FALSE))
  BY DEF ListenMem
<1> HIDE DEF w
<1>3. Fit(q) /\ Kept(w, q)
  BY <1>1, StateFit DEF States
<1> HIDE DEF q
<1>4. Fit(p) /\ Kept(q, p)
  <2>1. q.proc \cup {c} \in SUBSET Conns /\ q.timers \in SUBSET Conns /\ q.eps \in SUBSET Peers /\ q.hz \in SUBSET Windows
    BY <1>3 DEF Fit, Work
  <2> QED BY <1>3, <2>1, SidesFit
<1> HIDE DEF p
<1>5. Fit(AddConnection(p, c, Self, FALSE)) /\ Kept(p, AddConnection(p, c, Self, FALSE))
  <2>1. c \in Living(p) /\ Self \in Ends
    BY <1>1, <1>3, <1>4 DEF Kept, Ends
  <2> QED BY <1>4, <2>1, AddConnectionFit
<1> QED BY <1>1, <1>2, <1>3, <1>4, <1>5, KeptTrans, BecomeKept

LEMMA ConnectInv ==
  ASSUME IInv, NEW c \in Conns, Connect(c)
  PROVE  IInv'
<1> DEFINE w == Create(Here, c, "connect")
<1>1. /\ Fit(w) /\ StreamHeld(w) /\ c \in Living(w) /\ ~w.io[c]
      /\ phase' \in {"up", "waiting", "closing", "down"}
  BY NewFit, Start DEF Connect, Kinds
<1>2. Become(Asked(w, c)) \/ Become([w EXCEPT !.state[c] = "CONNECTING"])
  BY DEF Connect
<1> HIDE DEF w
<1>3. Fit(Asked(w, c)) /\ StreamHeld(Asked(w, c))
  BY <1>1, AskedFit
<1>4. Fit([w EXCEPT !.state[c] = "CONNECTING"]) /\ Kept(w, [w EXCEPT !.state[c] = "CONNECTING"])
  BY <1>1, StateFit DEF States
<1> QED BY <1>1, <1>2, <1>3, <1>4, BecomeInv, BecomeKept

LEMMA ConnectUnknownInv ==
  ASSUME IInv, NEW c \in Conns, ConnectUnknown(c)
  PROVE  IInv'
<1> DEFINE w == Create(Here, c, "connect")
           s == Asked(w, c)
           q == [s EXCEPT !.stream[c] = "lost"]
           h == [q EXCEPT !.hz = @ \cup {"scheme"}]
<1>1. /\ Fit(w) /\ StreamHeld(w) /\ c \in Living(w) /\ ~w.io[c]
      /\ phase' \in {"up", "waiting", "closing", "down"}
  BY NewFit, Start DEF ConnectUnknown, Kinds
<1>2. Become(h)
  BY DEF ConnectUnknown
<1> HIDE DEF w
<1>3. Fit(s) /\ StreamHeld(s) /\ ~s.io[c]
  BY <1>1, AskedFit
<1> HIDE DEF s
<1>4. Fit(q) /\ Kept(s, q)
  BY <1>3, NoStreamFit
<1> HIDE DEF q
<1>5. Fit(h) /\ Kept(q, h)
  <2>1. q.proc \in SUBSET Conns /\ q.timers \in SUBSET Conns /\ q.eps \in SUBSET Peers /\ q.hz \cup {"scheme"} \in SUBSET Windows
    BY <1>4 DEF Fit, Work, Windows
  <2> QED BY <1>4, <2>1, SidesFit
<1> HIDE DEF h
<1> QED BY <1>1, <1>2, <1>3, <1>4, <1>5, KeptTrans, BecomeKept

\* node::connect to an address of an endpoint.
LEMMA ConnectToFit ==
  ASSUME NEW w, Fit(w), StreamHeld(w), NEW d \in Conns, NEW e \in Ends, NEW k \in {"connect", "push"},
         w.state[d] = "none", w.stream[d] = "none"
  PROVE  Fit(ConnectTo(w, d, e, k)) /\ StreamHeld(ConnectTo(w, d, e, k))
<1> DEFINE v == Create(w, d, k)
           q == [v EXCEPT !.state[d] = "HANDSHAKING"]
           s == Asked(v, d)
<1>1. Fit(v) /\ StreamHeld(v) /\ d \in Living(v) /\ ~v.io[d]
  <2>1. k \in Kinds
    BY DEF Kinds
  <2> QED BY <2>1, CreateFit
<1>2. ConnectTo(w, d, e, k) \in {AddConnection(q, d, e, TRUE), AddConnection(s, d, e, FALSE)}
  BY DEF ConnectTo
<1> HIDE DEF v
<1>3. Fit(q) /\ Kept(v, q)
  BY <1>1, StateFit DEF States
<1>4. Fit(s) /\ StreamHeld(s) /\ Living(s) = Living(v)
  BY <1>1, AskedFit
<1> HIDE DEF q, s
<1>5. /\ Fit(AddConnection(q, d, e, TRUE)) /\ Kept(q, AddConnection(q, d, e, TRUE))
      /\ Fit(AddConnection(s, d, e, FALSE)) /\ Kept(s, AddConnection(s, d, e, FALSE))
  <2>1. d \in Living(q) /\ d \in Living(s)
    BY <1>1, <1>3, <1>4 DEF Kept
  <2> QED BY <1>3, <1>4, <2>1, AddConnectionFit
<1> QED BY <1>1, <1>2, <1>3, <1>4, <1>5, KeptHeld

LEMMA ConnectEndInv ==
  ASSUME IInv, NEW d \in Conns, NEW e \in Peers, NEW k \in {"connect", "push"}, ConnectEnd(d, e, k)
  PROVE  IInv'
<1> DEFINE v == ConnectTo(Here, d, e, k)
<1>1. Here.state[d] = "none" /\ Here.stream[d] = "none" /\ e \in Ends
  BY DEF ConnectEnd, New, Free, Here, Ends
<1>2. Fit(v) /\ StreamHeld(v)
  BY <1>1, Start, ConnectToFit
<1>3. Become(v) /\ phase' \in {"up", "waiting", "closing", "down"}
  BY Start DEF ConnectEnd
<1> HIDE DEF v
<1> QED BY <1>2, <1>3, BecomeInv

LEMMA RemoveEndInv ==
  ASSUME IInv, NEW e \in Peers, RemoveEnd(e)
  PROVE  IInv'
<1> DEFINE v == ResetEnd(Here, e)
           u == [v EXCEPT !.eps = @ \ {e}]
<1>1. Fit(v) /\ Kept(Here, v) /\ StreamHeld(v)
  BY Start, ResetEndFit, KeptHeld DEF Ends
<1>2. (Become(u) \/ Become(v)) /\ phase' \in {"up", "waiting", "closing", "down"}
  BY Start DEF RemoveEnd
<1> HIDE DEF v
<1>3. Fit(u) /\ Kept(v, u)
  <2>1. v.proc \in SUBSET Conns /\ v.timers \in SUBSET Conns /\ v.eps \ {e} \in SUBSET Peers /\ v.hz \in SUBSET Windows
    BY <1>1 DEF Fit, Work
  <2> QED BY <1>1, <2>1, SidesFit
<1> HIDE DEF u
<1> QED BY <1>1, <1>2, <1>3, BecomeInv, BecomeKept

-----------------------------------------------------------------------------
\* Callbacks of the io channel.
LEMMA ListenAnswerInv ==
  ASSUME IInv, NEW c \in Conns, ListenAnswer(c)
  PROVE  IInv'
<1> DEFINE w == [Here EXCEPT !.asked = @ \ {c}]
           o == Opened(w, c)
           q == [o EXCEPT !.state[c] = "CONNECTED"]
           d == [w EXCEPT !.state[c] = "DISCONNECTED"]
           n == [d EXCEPT !.stream[c] = "none"]
<1>0. /\ Fit(w) /\ Living(w) = Living(Here) /\ w.io = Here.io
      /\ \A x \in Conns \ {c} : w.stream[x] = "asked" => x \in w.asked
      /\ phase' \in {"up", "waiting", "closing", "down"}
  BY Start, AnsweredFit DEF ListenAnswer
<1>1. c \in Living(w) /\ ~w.io[c]
  BY <1>0, Start DEF ListenAnswer, StreamHeld, Fit, StreamLinks, AskedLive, Work, Here
<1>2. Become(q) \/ Become(n)
  BY DEF ListenAnswer
<1> HIDE DEF w
<1>3. Fit(o) /\ Kept(w, o) /\ o.stream[c] = "open"
  BY <1>0, <1>1, OpenedFit
<1> HIDE DEF o
<1>4. Fit(q) /\ Kept(o, q) /\ q.stream = o.stream
  <2>1. Fit(q) /\ Kept(o, q)
    BY <1>1, <1>3, StateFit DEF Kept, States
  <2>2. q.stream = o.stream
    BY <1>3 DEF Fit, Work
  <2> QED BY <2>1, <2>2
<1> HIDE DEF q
<1>5. StreamHeld(q)
  BY <1>0, <1>3, <1>4, KeptTrans, StreamHeldAgain
<1>6. Fit(d) /\ Kept(w, d) /\ d.io = w.io
  <2>1. Fit(d) /\ Kept(w, d)
    BY <1>0, <1>1, StateFit DEF States
  <2>2. d.io = w.io
    BY <1>0 DEF Fit, Work
  <2> QED BY <2>1, <2>2
<1> HIDE DEF d
<1>7. Fit(n) /\ Kept(d, n) /\ n.stream[c] = "none"
  <2>1. Fit(n) /\ Kept(d, n)
    BY <1>1, <1>6, NoStreamFit
  <2>2. n.stream[c] = "none"
    BY <1>6 DEF Fit, Work
  <2> QED BY <2>1, <2>2
<1> HIDE DEF n
<1>8. StreamHeld(n)
  BY <1>0, <1>6, <1>7, KeptTrans, StreamHeldAgain
<1> QED BY <1>0, <1>2, <1>4, <1>5, <1>7, <1>8, BecomeInv

LEMMA ConnectAnswerInv ==
  ASSUME IInv, NEW c \in Conns, ConnectAnswer(c)
  PROVE  IInv'
<1> DEFINE w == [Here EXCEPT !.asked = @ \ {c}]
           o == Opened(w, c)
           n == [w EXCEPT !.stream[c] = "none"]
<1>0. /\ Fit(w) /\ Living(w) = Living(Here) /\ w.io = Here.io
      /\ \A x \in Conns \ {c} : w.stream[x] = "asked" => x \in w.asked
      /\ phase' \in {"up", "waiting", "closing", "down"}
  BY Start, AnsweredFit DEF ConnectAnswer
<1>1. c \in Living(w) /\ ~w.io[c]
  BY <1>0, Start DEF ConnectAnswer, StreamHeld, Fit, StreamLinks, AskedLive, Work, Here
<1>2. Become(o) \/ Become(Reset(o, c)) \/ Become(Reset(n, c))
  BY DEF ConnectAnswer
<1> HIDE DEF w
<1>3. Fit(o) /\ Kept(w, o) /\ o.stream[c] = "open"
  BY <1>0, <1>1, OpenedFit
<1> HIDE DEF o
<1>4. Fit(n) /\ Kept(w, n) /\ n.stream[c] = "none"
  <2>1. Fit(n) /\ Kept(w, n)
    BY <1>0, <1>1, NoStreamFit
  <2>2. n.stream[c] = "none"
    BY <1>0 DEF Fit, Work
  <2> QED BY <2>1, <2>2
<1> HIDE DEF n
<1>5. StreamHeld(o) /\ StreamHeld(n)
  BY <1>0, <1>3, <1>4, StreamHeldAgain
<1>6. /\ Fit(Reset(o, c)) /\ Kept(o, Reset(o, c))
      /\ Fit(Reset(n, c)) /\ Kept(n, Reset(n, c))
  BY <1>3, <1>4, ResetFit
<1> QED BY <1>0, <1>2, <1>3, <1>5, <1>6, BecomeInv, BecomeKept

LEMMA AcceptInv ==
  ASSUME IInv, NEW c \in Conns, Accept(c)
  PROVE  IInv'
<1> DEFINE v == Create(Here, c, "accept")
           w == Opened(v, c)
<1>1. Fit(v) /\ StreamHeld(v) /\ c \in Living(v)
  BY NewFit DEF Accept, Kinds
<1>2. (Become(w) \/ Become(Reset(w, c))) /\ phase' \in {"up", "waiting", "closing", "down"}
  BY Start DEF Accept
<1> HIDE DEF v
<1>3. Fit(w) /\ Kept(v, w)
  BY <1>1, OpenedFit
<1> HIDE DEF w
<1>4. Fit(Reset(w, c)) /\ Kept(w, Reset(w, c))
  BY <1>3, ResetFit
<1> QED BY <1>1, <1>2, <1>3, <1>4, KeptTrans, BecomeKept

\* The io channel closes streams and tells nobody yet.
LEMMA ClosingInv ==
  ASSUME IInv, NEW S \in SUBSET {c \in Conns : stream[c] = "open"},
         stream' = [c \in Conns |-> IF c \in S THEN "closing" ELSE stream[c]],
         UNCHANGED <<state, kind, io, back, held, ends, hz>>,
         phase' \in {"up", "waiting", "closing", "down"}
  PROVE  IInv'
<1> DEFINE r == Here'
<1>1. /\ r.state = Here.state /\ r.kind = Here.kind /\ r.binding = Here.binding /\ r.ctrl = Here.ctrl
      /\ r.data = Here.data /\ r.io = Here.io /\ r.back = Here.back /\ r.asked = Here.asked
      /\ r.timers = Here.timers /\ r.proc = Here.proc /\ r.eps = Here.eps /\ r.hz = Here.hz
      /\ r.stream = [c \in Conns |-> IF c \in S THEN "closing" ELSE Here.stream[c]]
      /\ \A c \in S : Here.stream[c] = "open"
  BY DEF Here, held, ends
<1>2. r = [state |-> r.state, kind |-> r.kind, binding |-> r.binding, ctrl |-> r.ctrl,
           data |-> r.data, io |-> r.io, stream |-> r.stream, back |-> r.back, asked |-> r.asked,
           timers |-> r.timers, proc |-> r.proc, eps |-> r.eps, hz |-> r.hz]
  BY DEF Here
<1> HIDE DEF r
<1>3. r \in Work
  BY <1>1, <1>2, Start DEF Work, Streams
<1>4. Living(r) = Living(Here)
  BY <1>1 DEF Living
<1>5. EndLinks(r) /\ StreamLinks(r) /\ AskedLive(r) /\ StreamHeld(r)
  BY <1>1, <1>4, Start DEF Fit, EndLinks, Listed, StreamLinks, AskedLive, StreamHeld
<1> QED BY <1>3, <1>5 DEF IInv, Fit, r

LEMMA StreamFailsInv ==
  ASSUME IInv, NEW c \in Conns, StreamFails(c)
  PROVE  IInv'
<1>1. {c} \in SUBSET {d \in Conns : stream[d] = "open"}
  BY DEF StreamFails
<1>2. stream \in [Conns -> Streams]
  BY Start DEF Work, Here
<1>3. stream' = [d \in Conns |-> IF d \in {c} THEN "closing" ELSE stream[d]]
  BY <1>2 DEF StreamFails
<1> QED BY <1>1, <1>3, Start, ClosingInv DEF StreamFails

LEMMA ChannelCloseInv ==
  ASSUME IInv, ChannelClose
  PROVE  IInv'
<1> DEFINE S == {d \in Conns : stream[d] = "open"}
<1>1. stream' = [d \in Conns |-> IF d \in S THEN "closing" ELSE stream[d]]
  BY DEF ChannelClose
<1> HIDE DEF S
<1> QED BY <1>1, ClosingInv DEF ChannelClose, S

LEMMA NodeDownInv ==
  ASSUME IInv, NodeDown
  PROVE  IInv'
<1>1. Here' = Here /\ phase' = "down"
  BY DEF NodeDown, Here, held, ends
<1> QED BY <1>1 DEF IInv

LEMMA StreamGoneInv ==
  ASSUME IInv, NEW c \in Conns, StreamGone(c)
  PROVE  IInv'
<1> DEFINE v == IF back[c] THEN Reset(Here, c) ELSE Here
           n == [v EXCEPT !.stream[c] = "none"]
<1>1. Become(n) /\ phase' \in {"up", "waiting", "closing", "down"}
  BY Start DEF StreamGone
<1>2. Fit(v) /\ Kept(Here, v)
  BY Start, ResetFit
<1>3. ~v.io[c]
  <2>1. CASE ~back[c]
    BY <2>1, Start DEF Fit, StreamLinks, Work, Here
  <2>2. CASE back[c]
    BY <2>2, Start, ResetFit
  <2> QED BY <2>1, <2>2
<1> HIDE DEF v
<1>4. Fit(n) /\ Kept(v, n)
  BY <1>2, <1>3, NoStreamFit
<1> HIDE DEF n
<1> QED BY <1>1, <1>2, <1>4, Start, KeptTrans, BecomeKept

-----------------------------------------------------------------------------
\* What the handlers of messages do to connections.
LEMMA RegisterInv ==
  ASSUME IInv, NEW c \in Conns, NEW e \in Peers, Register(c, e)
  PROVE  IInv'
<1>1. c \in Living(Here) /\ e \in Ends
  BY MessageLives DEF Register, Message, Ends
<1>2. Fit(AddConnection(Here, c, e, FALSE)) /\ Kept(Here, AddConnection(Here, c, e, FALSE))
  BY <1>1, Start, AddConnectionFit
<1>3. Become(AddConnection(Here, c, e, FALSE)) /\ phase' \in {"up", "waiting", "closing", "down"}
  BY Start DEF Register
<1> QED BY <1>2, <1>3, Start, BecomeKept

LEMMA RefuseInv ==
  ASSUME IInv, NEW c \in Conns, Refuse(c)
  PROVE  IInv'
<1>1. Fit(Disconnect(Here, {c})) /\ Kept(Here, Disconnect(Here, {c}))
  BY Start, DisconnectFit
<1>2. Become(Disconnect(Here, {c})) /\ phase' \in {"up", "waiting", "closing", "down"}
  BY Start DEF Refuse
<1> QED BY <1>1, <1>2, Start, BecomeKept

LEMMA RegisterNewInv ==
  ASSUME IInv, NEW c \in Conns, NEW d \in Conns, NEW e \in Peers, NEW k \in {"connect", "push"},
         RegisterNew(c, e, d, k)
  PROVE  IInv'
<1> DEFINE a == AddConnection(Here, c, e, FALSE)
           w == ConnectTo(a, d, e, k)
           u == [w EXCEPT !.eps = @ \cup {e}]
<1>1. c \in Living(Here) /\ e \in Ends
  BY MessageLives DEF RegisterNew, Message, Ends
<1>2. Fit(a) /\ Kept(Here, a) /\ a.stream = Here.stream
  BY <1>1, Start, AddConnectionFit
<1>3. (Become(u) \/ Become(ResetEnd(w, e))) /\ phase' \in {"up", "waiting", "closing", "down"}
  BY Start DEF RegisterNew
<1>4. Here.state[d] = "none" /\ Here.stream[d] = "none"
  BY DEF RegisterNew, New, Free, Here
<1> HIDE DEF a
<1>5. a.state[d] = "none" /\ a.stream[d] = "none" /\ StreamHeld(a)
  BY <1>2, <1>4, Start, KeptHeld DEF Kept, Living
<1>6. Fit(w) /\ StreamHeld(w)
  BY <1>1, <1>2, <1>5, ConnectToFit
<1> HIDE DEF w
<1>7. Fit(u) /\ Kept(w, u)
  <2>1. /\ w.proc \in SUBSET Conns /\ w.timers \in SUBSET Conns /\ w.hz \in SUBSET Windows
        /\ w.eps \cup {e} \in SUBSET Peers
    BY <1>6 DEF Fit, Work
  <2> QED BY <1>6, <2>1, SidesFit
<1> HIDE DEF u
<1>8. Fit(ResetEnd(w, e)) /\ Kept(w, ResetEnd(w, e))
  BY <1>1, <1>6, ResetEndFit
<1> QED BY <1>3, <1>6, <1>7, <1>8, BecomeKept

\* The window "freed" changes no links.
LEMMA BecomeUsingInv ==
  ASSUME NEW w, NEW v, NEW c \in Conns, Fit(v), Kept(w, v), StreamHeld(w), BecomeUsing(v, c),
         phase' \in {"up", "waiting", "closing", "down"}
  PROVE  IInv'
<1> DEFINE h == [v EXCEPT !.hz = @ \cup {"freed"}]
<1>1. Fit(h) /\ Kept(v, h)
  <2>1. /\ v.proc \in SUBSET Conns /\ v.timers \in SUBSET Conns /\ v.eps \in SUBSET Peers
        /\ v.hz \cup {"freed"} \in SUBSET Windows
    BY DEF Fit, Work, Windows
  <2> QED BY <2>1, SidesFit
<1>2. Become(h) \/ Become(v)
  BY DEF BecomeUsing
<1> HIDE DEF h
<1> QED BY <1>1, <1>2, KeptTrans, BecomeKept

LEMMA MismatchInv ==
  ASSUME IInv, NEW c \in Conns, Mismatch(c)
  PROVE  IInv'
<1>1. Fit(Reset(Here, c)) /\ Kept(Here, Reset(Here, c))
  BY Start, ResetFit
<1>2. BecomeUsing(Reset(Here, c), c) /\ phase' \in {"up", "waiting", "closing", "down"}
  BY Start DEF Mismatch
<1> QED BY <1>1, <1>2, Start, BecomeUsingInv

LEMMA UserCalledInv ==
  ASSUME IInv, NEW c \in Conns, NEW e \in Peers, UserCalled(c, e)
  PROVE  IInv'
<1>1. Fit(ResetEnd(Here, e)) /\ Kept(Here, ResetEnd(Here, e))
  BY Start, ResetEndFit DEF Ends
<1>2. BecomeUsing(ResetEnd(Here, e), c) /\ phase' \in {"up", "waiting", "closing", "down"}
  BY Start DEF UserCalled
<1> QED BY <1>1, <1>2, Start, BecomeUsingInv

-----------------------------------------------------------------------------
\* node::proc and node::reset.
LEMMA TimeOutInv ==
  ASSUME IInv, NEW c \in Conns, TimeOut(c)
  PROVE  IInv'
<1> DEFINE w == [Here EXCEPT !.timers = @ \ {c}]
<1>1. Fit(w) /\ Kept(Here, w)
  <2>1. /\ Here.timers \ {c} \in SUBSET Conns /\ Here.proc \in SUBSET Conns
        /\ Here.eps \in SUBSET Peers /\ Here.hz \in SUBSET Windows
    BY Start DEF Work
  <2> QED BY <2>1, Start, SidesFit
<1>2. (Become(w) \/ Become(Reset(w, c))) /\ phase' \in {"up", "waiting", "closing", "down"}
  BY Start DEF TimeOut
<1> HIDE DEF w
<1>3. Fit(Reset(w, c)) /\ Kept(w, Reset(w, c))
  BY <1>1, ResetFit
<1> QED BY <1>1, <1>2, <1>3, Start, KeptTrans, BecomeKept

\* All endpoints let go of all their connections at once.
LEMMA NodeResetInv ==
  ASSUME IInv, NodeReset
  PROVE  IInv'
<1> DEFINE all == UNION {{ctrl[e]} \cup data[e] : e \in Ends}
           D == UNION {data[e] : e \in Ends}
           C == D \cup timers \cup proc
           w == Disconnect(Here, C)
           b == [c \in Conns |-> IF c \in all THEN None ELSE w.binding[c]]
           v == [w EXCEPT !.binding = b, !.ctrl = [e \in Ends |-> None], !.data = [e \in Ends |-> {}],
                          !.eps = {}, !.timers = {}, !.proc = {}]
<1>1. C \in SUBSET Conns
  <2>1. data \in [Ends -> SUBSET Conns]
    BY Start DEF Work, Here
  <2>2. \A e \in Ends : data[e] \subseteq Conns
    BY <2>1
  <2>3. D \subseteq Conns
    BY <2>2
  <2>4. timers \subseteq Conns /\ proc \subseteq Conns
    BY Start
  <2> HIDE DEF D
  <2> QED BY <2>3, <2>4
<1>2. Become(v) /\ phase' = "waiting"
  <2>1. Become([w EXCEPT !.binding = [c \in Conns |-> IF c \in all THEN None ELSE @[c]],
                         !.ctrl = [e \in Ends |-> None], !.data = [e \in Ends |-> {}],
                         !.eps = {}, !.timers = {}, !.proc = {}])
    BY DEF NodeReset
  <2>2. v = [w EXCEPT !.binding = [c \in Conns |-> IF c \in all THEN None ELSE @[c]],
                      !.ctrl = [e \in Ends |-> None], !.data = [e \in Ends |-> {}],
                      !.eps = {}, !.timers = {}, !.proc = {}]
    OBVIOUS
  <2>3. phase' = "waiting"
    BY DEF NodeReset
  <2> HIDE DEF v
  <2> QED BY <2>1, <2>2, <2>3
<1>3. Fit(w) /\ Kept(Here, w)
  BY <1>1, Start, DisconnectFit
<1>4. w.binding = Here.binding
  BY <1>1, Start, DisconnectFields
<1> HIDE DEF w, C, D
<1>5. w \in Work
  BY <1>3 DEF Fit
<1>6. b = [c \in Conns |-> None]
  <2>1. ASSUME NEW c \in Conns, w.binding[c] # None PROVE c \in all
    <3>1. w.binding[c] \in Ends /\ Here.binding[c] = w.binding[c]
      BY <1>4, <1>5, <2>1 DEF Work
    <3>2. c \in Listed(Here, w.binding[c])
      BY <3>1, Start DEF Fit, EndLinks
    <3> QED BY <3>1, <3>2 DEF Listed, Here
  <2> HIDE DEF all
  <2> QED BY <2>1
<1>7. v \in Work
  BY <1>5, <1>6 DEF Work
<1>8. /\ v.state = w.state /\ v.kind = w.kind /\ v.io = w.io /\ v.stream = w.stream
      /\ v.back = w.back /\ v.asked = w.asked
      /\ v.binding = [c \in Conns |-> None]
      /\ v.ctrl = [e \in Ends |-> None] /\ v.data = [e \in Ends |-> {}]
  BY <1>5, <1>6 DEF Work
<1> HIDE DEF v, b, all
<1>9. Living(v) = Living(w)
  BY <1>8 DEF Living
<1>10. EndLinks(v)
  BY <1>8, NameAssumption DEF EndLinks, Listed, Ends
<1>11. StreamLinks(v) /\ AskedLive(v)
  BY <1>3, <1>8, <1>9 DEF Fit, StreamLinks, AskedLive
<1>12. Fit(v) /\ Kept(w, v)
  BY <1>7, <1>8, <1>9, <1>10, <1>11 DEF Fit, Kept
<1> QED BY <1>2, <1>3, <1>12, Start, KeptTrans, BecomeKept

-----------------------------------------------------------------------------
LEMMA InitInv == Init => IInv
<1> SUFFICES ASSUME Init PROVE IInv
  OBVIOUS
<1>1. /\ state = [c \in Conns |-> "none"] /\ kind = [c \in Conns |-> "none"]
      /\ binding = [c \in Conns |-> None]
      /\ ctrl = [e \in Ends |-> None] /\ data = [e \in Ends |-> {}]
      /\ io = [c \in Conns |-> FALSE] /\ back = [c \in Conns |-> FALSE]
      /\ stream = [c \in Conns |-> "none"]
      /\ asked = {} /\ timers = {} /\ proc = {} /\ eps = {} /\ phase = "up" /\ hz = {}
  BY DEF Init
<1>2. Here \in Work
  BY <1>1 DEF Here, Work, States, Kinds, Streams
<1>3. EndLinks(Here)
  BY <1>1, NameAssumption DEF Here, EndLinks, Listed, Living, Ends
<1>4. StreamLinks(Here) /\ AskedLive(Here) /\ StreamHeld(Here)
  BY <1>1 DEF Here, StreamLinks, AskedLive, StreamHeld, Living
<1> QED BY <1>1, <1>2, <1>3, <1>4 DEF IInv, Fit

LEMMA NextInv == IInv /\ [Next]_vars => IInv'
<1> SUFFICES ASSUME IInv, [Next]_vars PROVE IInv'
  OBVIOUS
<1>1. CASE UNCHANGED vars
  <2>1. Here' = Here /\ phase' = phase
    BY <1>1 DEF vars, held, ends, Here
  <2> QED BY <2>1 DEF IInv
<1>2. CASE User
  BY <1>2, ListenInv, ListenMemInv, ConnectInv, ConnectUnknownInv, ConnectEndInv, RemoveEndInv DEF User
<1>3. CASE Network
  BY <1>3, AcceptInv, StreamFailsInv, RefuseInv, MismatchInv, RegisterInv, UserCalledInv, RegisterNewInv
     DEF Network
<1>4. CASE Proc
  BY <1>4, ChannelCloseInv, NodeDownInv, TimeOutInv DEF Proc
<1>5. ASSUME NEW c \in Conns, Answer(c) PROVE IInv'
  BY <1>5, ListenAnswerInv, ConnectAnswerInv, StreamGoneInv DEF Answer
<1> QED BY <1>1, <1>2, <1>3, <1>4, <1>5, NodeResetInv DEF Next

\* Connections, streams and endpoints stay coherent through every method the
\* library's steps are made of, in every behaviour.
THEOREM LinksCoherent == Spec => []IInv
  BY InitInv, NextInv, PTL DEF Spec

\* Connections, streams, endpoints and lists have their types (TypeOK); no connection
\* is left DISCONNECTING by a step of connection::disconnect.
THEOREM TypeCorrect == Spec => []TypeOK
<1>1. IInv => TypeOK
  BY DEF IInv, Fit, Work, Here, TypeOK
<1> QED BY <1>1, LinksCoherent, PTL

\* No plain pointer between a connection, its stream and its endpoint outlives what
\* it points to, and each has its way back (LinksMatch), whatever order callbacks,
\* handlers, time-outs and node::reset come in.
THEOREM NoDanglingLinks == Spec => []LinksMatch
<1>1. ASSUME IInv PROVE LinksMatch
  <2>1. \A c \in Conns : c \in Living(Here) <=> Alive(c)
    BY <1>1, Start DEF Alive
  <2>2. ASSUME NEW c \in Conns
        PROVE  /\ back[c] <=> io[c]
               /\ io[c] => state[c] \in {"HANDSHAKING", "CONNECTED"} /\ stream[c] \in {"open", "closing"}
               /\ (Alive(c) /\ stream[c] = "open") => io[c]
    BY <1>1, <2>1, Start DEF Fit, StreamLinks, Here
  <2>3. ASSUME NEW c \in Conns, NEW e \in Ends
        PROVE  /\ (c = ctrl[e] \/ c \in data[e]) <=> (Alive(c) /\ binding[c] = e)
               /\ ~(c = ctrl[e] /\ c \in data[e])
    <3>1. /\ c \in Listed(Here, e) <=> Here.binding[c] = e
          /\ Here.binding[c] # None => Alive(c)
          /\ Here.ctrl[e] \notin Here.data[e]
      BY <1>1, <2>1, Start DEF Fit, EndLinks
    <3>2. e # None
      BY NameAssumption DEF Ends
    <3> QED BY <3>1, <3>2 DEF Listed, Here
  <2> QED BY <2>2, <2>3 DEF LinksMatch
<1> QED BY <1>1, LinksCoherent, PTL

=============================================================================
