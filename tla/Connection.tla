----------------------------- MODULE Connection -----------------------------
(***************************************************************************)
(* The connections of one node (src/atbus_connection.cpp): who holds them,   *)
(* which endpoint they belong to (src/atbus_endpoint.cpp), which stream of    *)
(* the io channel they have, and how they end: refused, reset, timed out in   *)
(* node::proc, or all together in node::reset (src/atbus_node.cpp).           *)
(*                                                                         *)
(* A connection is kept by reference count.  It and its stream know each     *)
(* other by plain pointers, and so do it and its endpoint; the reference is  *)
(* held by whoever is found in Held below, and a connection nobody holds at  *)
(* the end of a step is destroyed in it.  Of the streams only what IoStream   *)
(* promises is used: a request is answered, a closed stream is reported.     *)
(* Of messages only the effect of their handlers on connections is left.     *)
(***************************************************************************)

CONSTANTS
  Conns,      \* places for connections (bound: alive at the same time)
  Peers,      \* places for endpoints of other nodes
  Self,       \* the node's own endpoint, which has its listeners
  None

ASSUME NameAssumption == Self \notin Peers /\ None \notin Conns \cup Peers \cup {Self}

Ends == Peers \cup {Self}

VARIABLES
  state,      \* connection::state_, "none": not there
  kind,       \* how it came to be, see Kinds
  binding,    \* connection::binding_
  ctrl, data, \* endpoint::ctrl_conn_, endpoint::data_conn_
  io,         \* the connection has its stream (conn_data_.shared.ios_fd)
  stream,     \* the stream, as the io channel has it, see Streams
  back,       \* the stream has its connection (io_stream_connection::data)
  asked,      \* connections held by a request (connection_async_data)
  timers,     \* event_timer_.connecting_list
  proc,       \* proc_connections_
  eps,        \* the endpoints in the node's tables
  phase,      \* the node is up; in reset: waiting, closing; down
  hz          \* history: the windows this behaviour has hit

held  == <<timers, asked, proc>>
ends  == <<binding, ctrl, data, eps>>
vars  == <<state, kind, io, stream, back, held, ends, phase, hz>>

\* "poll": a memory channel being listened to; "push": one connected to.
Kinds   == {"none", "listen", "connect", "accept", "poll", "push"}
States  == {"none", "DISCONNECTED", "CONNECTING", "HANDSHAKING", "CONNECTED"}
\* "lost": asked of the io channel, which will not answer; "closing": closed by the
\* channel, which has not reported it yet.  A stream the connection has closed has
\* nothing to do with it any more.
Streams == {"none", "asked", "lost", "open", "closing"}
\* "freed": a handler's connection is destroyed under it; "selfctrl": the first
\* listener takes the others with it; "scheme": a request without an answer.
Windows == {"freed", "selfctrl", "scheme"}

-----------------------------------------------------------------------------
\* The operations below work on a record of the variables they share.
Here ==
  [state |-> state, kind |-> kind, binding |-> binding, ctrl |-> ctrl, data |-> data,
   io |-> io, stream |-> stream, back |-> back, asked |-> asked, timers |-> timers, proc |-> proc,
   eps |-> eps, hz |-> hz]

\* Mutant of Disconnect: the state it is in meanwhile is left.
DisconnectUnfinished(w, C) ==
  LET up == {c \in C : w.state[c] \notin {"none", "DISCONNECTED"}}
  IN [w EXCEPT !.state = [c \in Conns |-> IF c \in up THEN "DISCONNECTING" ELSE @[c]],
               !.proc = @ \ up]

\* connection::disconnect, for each of C.  The connection stays in its endpoint.
Disconnect(w, C) ==
  LET up == {c \in C : w.state[c] \notin {"none", "DISCONNECTED"}}
      st == {c \in up : w.io[c]}
      On(f, S, v) == [c \in Conns |-> IF c \in S THEN v ELSE f[c]]
  IN IF up = {} THEN w ELSE
      [w EXCEPT
        !.state  = On(@, up, "DISCONNECTED"),
        !.stream = On(@, st, "none"),
        !.back   = On(@, st, FALSE),
        !.io     = On(@, up, FALSE),
        !.proc   = @ \ up]

\* Mutant of ResetEnd: the control connection still points to the endpoint.
ResetEndPointing(w, e) ==
  Disconnect([w EXCEPT !.binding = [c \in Conns |-> IF c \in w.data[e] THEN None ELSE @[c]],
                       !.ctrl[e] = None, !.data[e] = {}], w.data[e])

\* endpoint::reset: the control connection is let go, the others are reset.
ResetEnd(w, e) ==
  LET out == w.data[e] \cup {w.ctrl[e]}
  IN Disconnect(
       [w EXCEPT !.binding = [c \in Conns |-> IF c \in out THEN None ELSE @[c]],
                 !.ctrl[e] = None, !.data[e] = {},
                 !.hz = IF e = Self /\ \E c \in out \ {None} : w.state[c] # "DISCONNECTED"
                        THEN @ \cup {"selfctrl"} ELSE @],
       w.data[e])

\* connection::reset.  An endpoint that loses its control connection, or the
\* last of the others, is reset with it (endpoint::remove_connection).
Reset(w, c) ==
  LET v == Disconnect(w, {c})
      e == v.binding[c]
  IN CASE e = None -> v
       [] e # None /\ v.ctrl[e] = c -> ResetEnd(v, e)
       [] OTHER ->
            LET u == [v EXCEPT !.binding[c] = None, !.data[e] = @ \ {c}]
            IN IF u.data[e] = {} THEN ResetEnd(u, e) ELSE u

\* Who is held: by the list, a request, the table of memory channels, an endpoint.
Held(w) ==
  w.timers \cup w.asked \cup w.proc \cup UNION {w.data[e] \cup {w.ctrl[e]} : e \in Ends}
Unheld(w) == {c \in Conns : w.state[c] # "none"} \ Held(w)

\* The step ends in w: what nobody holds any more is destroyed.
Become(w) ==
  LET lost == Unheld(w)
      v == Disconnect(w, lost)
  IN /\ state' = [c \in Conns |-> IF c \in lost THEN "none" ELSE v.state[c]]
     /\ kind' = [c \in Conns |-> IF c \in lost THEN "none" ELSE v.kind[c]]
     /\ io' = v.io /\ stream' = v.stream /\ back' = v.back
     /\ binding' = v.binding /\ ctrl' = v.ctrl /\ data' = v.data /\ eps' = v.eps
     /\ asked' = v.asked /\ timers' = v.timers /\ proc' = v.proc
     /\ hz' = v.hz

\* The same in a handler that was called with c and goes on to use it.
BecomeUsing(w, c) == Become(IF c \in Unheld(w) THEN [w EXCEPT !.hz = @ \cup {"freed"}] ELSE w)

\* connection::create puts the new connection on the list of those to time out.
Create(w, c, k) ==
  [w EXCEPT !.state[c] = "DISCONNECTED", !.kind[c] = k, !.timers = @ \cup {c}]
\* Places are interchangeable.
Free == {c \in Conns : state[c] = "none" /\ stream[c] = "none"}
New(c) == Free # {} /\ c = CHOOSE x \in Free : TRUE

\* endpoint::add_connection.
AddConnection(w, c, e, force) ==
  IF w.binding[c] # None THEN w
  ELSE LET v == [w EXCEPT !.binding[c] = e,
                          !.state[c] = IF @ = "HANDSHAKING" THEN "CONNECTED" ELSE @]
       IN IF force \/ w.ctrl[e] # None THEN [v EXCEPT !.data[e] = @ \cup {c}] ELSE [v EXCEPT !.ctrl[e] = c]

\* A connection and its stream are told of each other.
Opened(w, c) ==
  [w EXCEPT !.stream[c] = "open", !.io[c] = TRUE, !.back[c] = TRUE,
            !.state[c] = IF w.binding[c] = None THEN "HANDSHAKING" ELSE "CONNECTED"]

Asked(w, c) == [w EXCEPT !.state[c] = "CONNECTING", !.stream[c] = "asked", !.asked = @ \cup {c}]

-----------------------------------------------------------------------------
Up == phase = "up"

\* node::listen: on an address, which is answered at once, on a name, or not at
\* all; a connection that could not listen is left CONNECTING to its timeout.
Listen(c) ==
  /\ Up /\ New(c)
  /\ UNCHANGED phase
  /\ LET w == Create(Here, c, "listen") IN
     \/ Become(AddConnection([Opened(w, c) EXCEPT !.state[c] = "CONNECTED"], c, Self, FALSE))
     \/ Become(AddConnection(Asked(w, c), c, Self, FALSE))
     \/ Become([w EXCEPT !.state[c] = "CONNECTING"])

\* node::listen on a memory channel, which is polled.
ListenMem(c) ==
  /\ Up /\ New(c)
  /\ UNCHANGED phase
  /\ LET w == Create(Here, c, "poll")
     IN Become(AddConnection([w EXCEPT !.state[c] = "CONNECTED", !.proc = @ \cup {c}], c, Self, FALSE))

\* node::connect to an address; the same with a scheme io_stream_connect does
\* not know, which it answers with success and nothing else.
Connect(c) ==
  /\ Up /\ New(c)
  /\ UNCHANGED phase
  /\ LET w == Create(Here, c, "connect") IN
     \/ Become(Asked(w, c))
     \/ Become([w EXCEPT !.state[c] = "CONNECTING"])

ConnectUnknown(c) ==
  /\ Up /\ New(c)
  /\ UNCHANGED phase
  /\ Become([Asked(Create(Here, c, "connect"), c) EXCEPT !.stream[c] = "lost", !.hz = @ \cup {"scheme"}])

\* node::connect to an address of the endpoint e: what can become of a new d.
ConnectTo(w, d, e, k) ==
  LET v == Create(w, d, k) IN
  CASE k = "push" -> AddConnection([v EXCEPT !.state[d] = "HANDSHAKING"], d, e, TRUE)
    [] OTHER -> AddConnection(Asked(v, d), d, e, FALSE)

ConnectEnd(d, e, k) ==
  /\ Up /\ New(d) /\ e \in eps
  /\ Become(ConnectTo(Here, d, e, k))
  /\ UNCHANGED phase

\* The node drops the endpoint e, or a user's disconnect only resets it.
RemoveEnd(e) ==
  /\ Up /\ e \in eps
  /\ \/ Become([ResetEnd(Here, e) EXCEPT !.eps = @ \ {e}])
     \/ Become(ResetEnd(Here, e))
  /\ UNCHANGED phase

-----------------------------------------------------------------------------
\* Callbacks of the io channel.
Callback == phase # "down"

\* Mutant of ListenAnswer: after a failure the request is not deleted.
ListenAnswerKept(c) ==
  /\ Callback /\ stream[c] = "asked" /\ kind[c] = "listen"
  /\ \/ Become([Opened([Here EXCEPT !.asked = @ \ {c}], c) EXCEPT !.state[c] = "CONNECTED"])
     \/ Become([Here EXCEPT !.state[c] = "DISCONNECTED", !.stream[c] = "none"])
  /\ UNCHANGED phase

\* connection::iostream_on_listen_cb: a failure only marks the connection.
ListenAnswer(c) ==
  /\ Callback /\ stream[c] = "asked" /\ kind[c] = "listen"
  /\ LET w == [Here EXCEPT !.asked = @ \ {c}] IN
     \/ Become([Opened(w, c) EXCEPT !.state[c] = "CONNECTED"])
     \/ Become([w EXCEPT !.state[c] = "DISCONNECTED", !.stream[c] = "none"])
  /\ UNCHANGED phase

\* Mutant of ConnectAnswer: likewise.
ConnectAnswerKept(c) ==
  /\ Callback /\ stream[c] = "asked" /\ kind[c] = "connect"
  /\ LET w == [Here EXCEPT !.asked = @ \ {c}] IN
     \/ Become(Opened(w, c))
     \/ Become(Reset(Opened(w, c), c))
     \/ Become(Reset([Here EXCEPT !.stream[c] = "none"], c))
  /\ UNCHANGED phase

\* connection::iostream_on_connected_cb; the registration that is sent on a new
\* connection may fail, which resets it again (node::on_new_connection).
ConnectAnswer(c) ==
  /\ Callback /\ stream[c] = "asked" /\ kind[c] = "connect"
  /\ LET w == [Here EXCEPT !.asked = @ \ {c}] IN
     \/ Become(Opened(w, c))
     \/ Become(Reset(Opened(w, c), c))
     \/ Become(Reset([w EXCEPT !.stream[c] = "none"], c))
  /\ UNCHANGED phase

\* connection::iostream_on_accepted.
Listening == {l \in Conns : kind[l] = "listen" /\ stream[l] = "open"}

Accept(c) ==
  /\ Callback /\ Listening # {} /\ New(c)
  /\ LET w == Opened(Create(Here, c, "accept"), c)
     IN Become(w) \/ Become(Reset(w, c))
  /\ UNCHANGED phase

\* The peer goes away, or is not understood: the io channel closes the stream.
StreamFails(c) ==
  /\ Callback /\ stream[c] = "open"
  /\ stream' = [stream EXCEPT ![c] = "closing"]
  /\ UNCHANGED <<state, kind, io, back, held, ends, phase, hz>>

\* connection::iostream_on_disconnected, for a stream that has its connection
\* still; after it the stream is gone.
StreamGone(c) ==
  /\ Callback /\ stream[c] = "closing"
  /\ Become([(IF back[c] THEN Reset(Here, c) ELSE Here) EXCEPT !.stream[c] = "none"])
  /\ UNCHANGED phase

-----------------------------------------------------------------------------
\* Messages come for a connection that its stream knows.
Message(c) == Callback /\ stream[c] = "open" /\ back[c] /\ kind[c] # "listen"

\* on_recv_node_reg_req of a known endpoint, and its refusal, which like an
\* answer with an error only disconnects.
Register(c, e) ==
  /\ Message(c) /\ state[c] = "HANDSHAKING"
  /\ e \in eps
  /\ Become(AddConnection(Here, c, e, FALSE))
  /\ UNCHANGED phase

Refuse(c) ==
  /\ Message(c)
  /\ Become(Disconnect(Here, {c}))
  /\ UNCHANGED phase

\* on_recv_node_reg_req of a new endpoint e that brings the address of one data
\* connection d.  The user, who is called when e is added, may remove it at once:
\* it is destroyed when the handler returns.
RegisterNew(c, e, d, k) ==
  /\ Message(c) /\ state[c] = "HANDSHAKING"
  /\ e \in Peers \ eps /\ New(d)
  /\ LET w == ConnectTo(AddConnection(Here, c, e, FALSE), d, e, k)
     IN Become([w EXCEPT !.eps = @ \cup {e}]) \/ Become(ResetEnd(w, e))
  /\ UNCHANGED phase

\* on_recv_node_reg_req of somebody else than the endpoint the connection is
\* bound to: the handler resets its connection and goes on to use it.
Mismatch(c) ==
  /\ Message(c) /\ state[c] = "CONNECTED"
  /\ BecomeUsing(Reset(Here, c), c)
  /\ UNCHANGED phase

\* The user is called with a message of c and disconnects an endpoint.
UserCalled(c, e) ==
  /\ Message(c) /\ Up /\ e \in eps
  /\ BecomeUsing(ResetEnd(Here, e), c)
  /\ UNCHANGED phase

-----------------------------------------------------------------------------
\* node::proc takes a connection off the list when it is connected, or when its
\* deadline has passed, and resets it if it is not connected.  The list is in the
\* order of the deadlines; here they pass in any order.
TimeOut(c) ==
  /\ Up /\ c \in timers
  /\ LET w == [Here EXCEPT !.timers = @ \ {c}]
     IN Become(IF state[c] = "CONNECTED" THEN w ELSE Reset(w, c))
  /\ UNCHANGED phase

\* node::reset: endpoints and listed connections are let go, ...
NodeReset ==
  /\ Up
  /\ LET all == UNION {{ctrl[e]} \cup data[e] : e \in Ends}
         w == Disconnect(Here, (UNION {data[e] : e \in Ends}) \cup timers \cup proc)
     IN Become([w EXCEPT !.binding = [c \in Conns |-> IF c \in all THEN None ELSE @[c]],
                         !.ctrl = [e \in Ends |-> None], !.data = [e \in Ends |-> {}],
                         !.eps = {}, !.timers = {}, !.proc = {}])
  /\ phase' = "waiting"

\* ... the loop is run until no request is left, then the io channel is closed,
\* which closes its streams and runs the loop until they are gone.
ChannelClose ==
  /\ phase = "waiting" /\ asked = {}
  /\ phase' = "closing"
  /\ stream' = [c \in Conns |-> IF stream[c] = "open" THEN "closing" ELSE stream[c]]
  /\ UNCHANGED <<state, kind, io, back, held, ends, hz>>

NodeDown ==
  /\ phase = "closing"
  /\ \A c \in Conns : stream[c] = "none"
  /\ phase' = "down"
  /\ UNCHANGED <<state, kind, io, stream, back, held, ends, hz>>

-----------------------------------------------------------------------------
Init ==
  /\ state = [c \in Conns |-> "none"] /\ kind = state
  /\ binding = [c \in Conns |-> None]
  /\ ctrl = [e \in Ends |-> None] /\ data = [e \in Ends |-> {}]
  /\ io = [c \in Conns |-> FALSE] /\ back = io
  /\ stream = [c \in Conns |-> "none"]
  /\ asked = {} /\ timers = {} /\ proc = {} /\ eps = {}
  /\ phase = "up" /\ hz = {}

User ==
  \/ \E c \in Conns : Listen(c) \/ ListenMem(c) \/ Connect(c) \/ ConnectUnknown(c)
  \/ \E d \in Conns, e \in Peers, k \in {"connect", "push"} : ConnectEnd(d, e, k)
  \/ \E e \in Peers : RemoveEnd(e)

Answer(c) == ListenAnswer(c) \/ ConnectAnswer(c) \/ StreamGone(c)

Network ==
  \/ \E c \in Conns : Accept(c) \/ StreamFails(c) \/ Refuse(c) \/ Mismatch(c)
  \/ \E c \in Conns, e \in Peers : Register(c, e) \/ UserCalled(c, e)
  \/ \E c, d \in Conns, e \in Peers, k \in {"connect", "push"} : RegisterNew(c, e, d, k)

Proc == ChannelClose \/ NodeDown \/ \E c \in Conns : TimeOut(c)

Next == User \/ Network \/ Proc \/ NodeReset \/ \E c \in Conns : Answer(c)

Spec == Init /\ [][Next]_vars

\* Time passes, node::proc is called and takes the list off, node::reset goes on;
\* what the io channel was asked it answers, what it closes it reports (RequestsEnd
\* of IoStream).  The steps are named by the one thing that tells them.
Expire(c) == Up /\ c \in timers /\ timers' = timers \ {c}
GoOn     == phase = "waiting" /\ asked = {} /\ phase' = "closing"
Finish   == phase = "closing" /\ (\A c \in Conns : stream[c] = "none") /\ phase' = "down"
Promised == \A c \in Conns : []<>(stream[c] # "asked") /\ []<>(stream[c] # "closing")

FairSpec ==
  /\ Spec
  /\ (\A c \in Conns : WF_timers(Expire(c))) /\ WF_phase(GoOn) /\ WF_phase(Finish)
  /\ Promised

-----------------------------------------------------------------------------
Alive(c) == state[c] # "none"

\* What connections, streams, endpoints and lists are made of; between two steps no
\* connection is DISCONNECTING.
TypeOK ==
  /\ state \in [Conns -> States] /\ kind \in [Conns -> Kinds] /\ stream \in [Conns -> Streams]
  /\ io \in [Conns -> BOOLEAN] /\ back \in [Conns -> BOOLEAN]
  /\ binding \in [Conns -> Ends \cup {None}]
  /\ ctrl \in [Ends -> Conns \cup {None}] /\ data \in [Ends -> SUBSET Conns]
  /\ timers \subseteq Conns /\ asked \subseteq Conns /\ proc \subseteq Conns /\ eps \subseteq Peers
  /\ phase \in {"up", "waiting", "closing", "down"}
  /\ hz \subseteq Windows

\* No plain pointer outlives what it points to, and each has its way back: a
\* stream's connection is alive and has that stream, which is not gone; a
\* connection's endpoint lists it, once, and lists nobody else's.
LinksMatch ==
  \A c \in Conns :
    /\ back[c] <=> io[c]
    /\ io[c] => state[c] \in {"HANDSHAKING", "CONNECTED"} /\ stream[c] \in {"open", "closing"}
    /\ (Alive(c) /\ stream[c] = "open") => io[c]
    /\ \A e \in Ends :
         /\ (c = ctrl[e] \/ c \in data[e]) <=> (Alive(c) /\ binding[c] = e)
         /\ ~(c = ctrl[e] /\ c \in data[e])

\* A connection that belongs to no endpoint gets one or is destroyed, also when
\* its peer is silent, its handshake is refused or its endpoint is dropped.
HalfOpenEnds ==
  \A c \in Conns :
    (Alive(c) /\ binding[c] = None) ~> (~Alive(c) \/ binding[c] # None)

\* node::reset returns, whatever was under way, and leaves nothing behind.
ResetReturns == phase = "waiting" ~> (phase = "down" /\ \A c \in Conns : ~Alive(c))

=============================================================================
