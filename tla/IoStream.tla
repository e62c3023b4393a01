------------------------------- MODULE IoStream -------------------------------
(***************************************************************************)
(* The streams of one channel and the requests on them                     *)
(* (src/channel_io_stream.cpp), driven by one libuv loop.                   *)
(*                                                                         *)
(* A place of Streams is a libuv handle with what is bound to it: the data  *)
(* of a name lookup or of a connect request, or an io_stream_connection.   *)
(* A callback of libuv is one step, up to the point where it calls the     *)
(* user's code; `running` says which callback that is, and the user's      *)
(* calls come as steps of their own, from a callback or from outside the   *)
(* loop.  What libuv does is modelled from how it is called here: uv_close  *)
(* frees the descriptor at once, cancels the writes and calls back later.  *)
(***************************************************************************)
EXTENDS Naturals, Sequences, FiniteSets

CONSTANTS
  Streams,    \* places for handles (bound: alive at the same time)
  Fds,        \* descriptors the system gives out
  None,
  MaxSend     \* bound: writes on one connection

ASSUME StreamAssumption == None \notin Streams /\ Streams # {} /\ Fds # {}
ASSUME SendAssumption   == MaxSend \in Nat

VARIABLES
  stage,      \* what a handle is being used for, see Stages
  kind,       \* asked for by listen, by connect, or accepted
  fd,         \* the descriptor a connection is filed under
  pool,       \* channel->conn_pool: connections by descriptor
  buffers,    \* conn->write_buffers: the blocks still kept, by number
  uv,         \* the writes libuv has still to report
  sent,       \* blocks sent so far (for numbering them)
  active,     \* channel->active_reqs
  phase,      \* open; in io_stream_close: closing, draining; closed
  owner,      \* EN_CF_IS_LOOP_OWNER
  running,    \* the callback of libuv that is calling the user
  told,       \* history: what the user knows of the handle
  hz          \* history: the windows this behaviour has hit

conns == <<stage, kind, fd, pool>>
write == <<buffers, uv, sent>>
vars  == <<conns, write, active, phase, owner, running, told, hz>>

\* "lookup": getaddrinfo; "connecting": uv_connect; "live": in the pool with
\* EN_ST_CONNECTED; "closing": EN_ST_DISCONNECTING; "closed": in its last
\* callback; "discard": closed without ever having been a connection.
Stages  == {"none", "lookup", "connecting", "live", "closing", "closed", "discard"}
Idle    == [fn |-> "none", s |-> None, req |-> 0]
Windows == {"fdreuse"}

Filed    == {pool[f] : f \in DOMAIN pool}
InUse    == {fd[s] : s \in {t \in Streams : stage[t] \in {"connecting", "live"}}}
Unused   == {s \in Streams : stage[s] = "none"}
FreeFds  == Fds \ InUse

-----------------------------------------------------------------------------
\* io_stream_make_connection files the connection under its descriptor.  A
\* connection that is closing is still filed under the one it had: it is
\* overwritten, and with it goes the handle libuv has not finished with.
MakeConnection(s, f, k) ==
  /\ stage' = [stage EXCEPT ![s] = "live"]
  /\ kind' = [kind EXCEPT ![s] = k]
  /\ fd' = [fd EXCEPT ![s] = f]
  /\ pool' = [g \in DOMAIN pool \cup {f} |-> IF g = f THEN s ELSE pool[g]]
  /\ hz' = IF f \in DOMAIN pool THEN hz \cup {"fdreuse"} ELSE hz
  /\ buffers' = [buffers EXCEPT ![s] = <<>>]
  /\ uv' = [uv EXCEPT ![s] = <<>>]
  /\ sent' = [sent EXCEPT ![s] = 0]

\* The user is called back about s.
Tell(s, what) ==
  told' = [told EXCEPT ![s] = IF @ = what /\ what \in {"open", "gone"} THEN "again" ELSE what]

\* A handle that will never be a connection is closed.
Discard(s) ==
  /\ stage' = [stage EXCEPT ![s] = "discard"]
  /\ UNCHANGED <<kind, fd, pool, write, hz>>

-----------------------------------------------------------------------------
\* The user's calls.  A call is refused while the channel is closing.
Calling == phase = "open"

\* io_stream_listen on an address: it answers, and calls back, at once.
Listen(s, f) ==
  /\ Calling
  /\ MakeConnection(s, f, "listen")
  /\ Tell(s, "open")
  /\ UNCHANGED <<active, phase, owner, running>>

\* bind or listen fails: the caller sees it from the result.
ListenFails(s) ==
  /\ Calling
  /\ Discard(s)
  /\ Tell(s, "no")
  /\ UNCHANGED <<active, phase, owner, running>>

\* io_stream_connect to an address.
Connect(s, f) ==
  /\ Calling
  /\ stage' = [stage EXCEPT ![s] = "connecting"]
  /\ kind' = [kind EXCEPT ![s] = "connect"]
  /\ fd' = [fd EXCEPT ![s] = f]
  /\ active' = active + 1
  /\ Tell(s, "asked")
  /\ UNCHANGED <<pool, write, phase, owner, running, hz>>

ConnectFails(s) ==
  /\ Calling
  /\ Discard(s)
  /\ Tell(s, "no")
  /\ UNCHANGED <<active, phase, owner, running>>

\* Either call with a name.
Lookup(s, k) ==
  /\ Calling
  /\ stage' = [stage EXCEPT ![s] = "lookup"]
  /\ kind' = [kind EXCEPT ![s] = k]
  /\ active' = active + 1
  /\ Tell(s, "asked")
  /\ UNCHANGED <<fd, pool, write, phase, owner, running, hz>>

\* io_stream_disconnect: only a connected stream is closed.
Closing(S) == [s \in Streams |-> IF s \in S /\ stage[s] = "live" THEN "closing" ELSE stage[s]]

Disconnect(s) ==
  /\ stage[s] = "live"
  /\ stage' = Closing({s})
  /\ UNCHANGED <<kind, fd, pool, write, active, phase, owner, running, told, hz>>

\* io_stream_send: the block is queued first and taken back when uv_write
\* refuses it, as it does on a handle that is closing.
Queued(s) == Append(buffers[s], sent[s] + 1)
\* Mutant of TakeBack: the oldest block is taken back.
TakeBackOldest(q) == Tail(q)
TakeBack(q) == SubSeq(q, 1, Len(q) - 1)

Send(s) ==
  /\ stage[s] \in {"live", "closing", "closed"} /\ kind[s] # "listen"
  /\ told[s] = "open"
  /\ sent[s] < MaxSend
  /\ sent' = [sent EXCEPT ![s] = @ + 1]
  /\ \/ /\ stage[s] = "live"
        /\ buffers' = [buffers EXCEPT ![s] = Queued(s)]
        /\ uv' = [uv EXCEPT ![s] = Append(@, sent[s] + 1)]
        /\ active' = active + 1
     \/ /\ buffers' = [buffers EXCEPT ![s] = TakeBack(Queued(s))]
        /\ UNCHANGED <<uv, active>>
  /\ UNCHANGED <<conns, phase, owner, running, told, hz>>

\* io_stream_close, which may not be called from a callback, begins by
\* disconnecting everything in the pool and then drives the loop itself.
CloseBegin ==
  /\ phase = "open" /\ running = Idle
  /\ phase' = "closing"
  /\ stage' = Closing(Filed)
  /\ UNCHANGED <<kind, fd, pool, write, active, owner, running, told, hz>>

\* A loop of its own is run until nothing is left on it ...
LoopEmpty == \A s \in Streams : stage[s] = "none"

\* ... another one until the pool is empty, and then until no request is active.
PoolEmpty ==
  /\ phase = "closing" /\ running = Idle
  /\ ~owner /\ DOMAIN pool = {}
  /\ phase' = "draining"
  /\ UNCHANGED <<conns, write, active, owner, running, told, hz>>

CloseEnd ==
  /\ running = Idle
  /\ \/ phase = "closing" /\ owner /\ LoopEmpty
     \/ phase = "draining" /\ active = 0
  /\ phase' = "closed"
  /\ UNCHANGED <<conns, write, active, owner, running, told, hz>>

\* io_stream_init on the same channel; a loop of its own is made on demand.
Reopen ==
  /\ phase = "closed"
  /\ phase' = "open"
  /\ owner' \in BOOLEAN
  /\ UNCHANGED <<conns, write, active, running, told, hz>>

-----------------------------------------------------------------------------
\* The loop's callbacks.
Looping == running = Idle /\ phase # "closed"

\* The answer to a lookup may be a failure, which is all it can be while the
\* channel is closing; otherwise it goes on with the address found.
LookupFails(s) ==
  /\ active' = active - 1
  /\ Tell(s, "failed")
  /\ \/ stage' = [stage EXCEPT ![s] = "none"] /\ UNCHANGED <<kind, fd, pool, write, hz>>
     \/ phase = "open" /\ Discard(s)

\* io_stream_dns_connection_cb: the address is listened on, which calls back.
LookedUpListen(s) ==
  /\ Looping /\ stage[s] = "lookup" /\ kind[s] = "listen"
  /\ UNCHANGED <<phase, owner, running>>
  /\ \/ LookupFails(s)
     \/ /\ phase = "open"
        /\ active' = active - 1
        /\ \E f \in FreeFds : MakeConnection(s, f, "listen")
        /\ Tell(s, "open")

\* Mutants of LookedUpConnect: the request it starts is not counted; the user is
\* called although the request was started.
LookedUpUncounted(s) ==
  /\ Looping /\ stage[s] = "lookup" /\ phase = "open" /\ kind[s] = "connect"
  /\ active' = active - 1
  /\ \E f \in FreeFds : fd' = [fd EXCEPT ![s] = f]
  /\ stage' = [stage EXCEPT ![s] = "connecting"]
  /\ UNCHANGED <<kind, pool, write, phase, owner, running, told, hz>>

LookedUpTold(s) ==
  /\ Looping /\ stage[s] = "lookup" /\ phase = "open" /\ kind[s] = "connect"
  /\ Tell(s, "failed")
  /\ \E f \in FreeFds : fd' = [fd EXCEPT ![s] = f]
  /\ stage' = [stage EXCEPT ![s] = "connecting"]
  /\ UNCHANGED <<kind, pool, write, active, phase, owner, running, hz>>

\* io_stream_dns_connect_cb: a connect to the address takes the lookup's place.
LookedUpConnect(s) ==
  /\ Looping /\ stage[s] = "lookup" /\ kind[s] = "connect"
  /\ UNCHANGED <<phase, owner, running>>
  /\ \/ LookupFails(s)
     \/ /\ phase = "open"
        /\ active' = (active - 1) + 1
        /\ \E f \in FreeFds : fd' = [fd EXCEPT ![s] = f]
        /\ stage' = [stage EXCEPT ![s] = "connecting"]
        /\ UNCHANGED <<kind, pool, write, told, hz>>

\* Mutant of Connected: a channel that is closing is not noticed.
ConnectedAnyway(s) ==
  /\ Looping /\ stage[s] = "connecting"
  /\ active' = active - 1
  /\ MakeConnection(s, fd[s], "connect")
  /\ Tell(s, "open")
  /\ UNCHANGED <<phase, owner, running>>

\* io_stream_all_connected_cb.
Connected(s) ==
  /\ Looping /\ stage[s] = "connecting"
  /\ active' = active - 1
  /\ UNCHANGED <<phase, owner, running>>
  /\ \/ /\ phase = "open"
        /\ MakeConnection(s, fd[s], "connect")
        /\ Tell(s, "open")
     \/ /\ Discard(s)
        /\ Tell(s, "failed")

\* A listener's connection callback: the new handle s takes a descriptor and is
\* connected, or is closed again because it cannot be set up.
Accept(l, s, f) ==
  /\ Looping /\ stage[l] = "live" /\ kind[l] = "listen"
  /\ UNCHANGED <<active, phase, owner, running>>
  /\ \/ MakeConnection(s, f, "accept") /\ Tell(s, "open")
     \/ Discard(s) /\ Tell(s, "no")

\* io_stream_on_recv_read_fn calls the user with data ...
Receive(s) ==
  /\ Looping /\ stage[s] = "live" /\ kind[s] # "listen"
  /\ running' = [fn |-> "recv", s |-> s, req |-> 0]
  /\ UNCHANGED <<conns, write, active, phase, owner, told, hz>>

\* ... and closes the stream afterwards if it was told an error, or if what came
\* is too long; the user may have closed it before.
Received ==
  /\ running.fn = "recv"
  /\ running' = Idle
  /\ stage' \in {stage, Closing({running.s})}
  /\ UNCHANGED <<kind, fd, pool, write, active, phase, owner, told, hz>>

\* io_stream_on_written_fn for the write libuv has done with, or has cancelled
\* as the handle is closing: the blocks at the front are reported up to this one ...
Written(s) ==
  /\ Looping /\ stage[s] \in {"live", "closing"} /\ uv[s] # <<>>
  /\ active' = active - 1
  /\ uv' = [uv EXCEPT ![s] = Tail(@)]
  /\ running' = IF buffers[s] = <<>> THEN Idle ELSE [fn |-> "written", s |-> s, req |-> Head(uv[s])]
  /\ UNCHANGED <<conns, buffers, sent, phase, owner, told, hz>>

\* ... each taken from the buffer after its callback.
WrittenPop ==
  LET s == running.s IN
  /\ running.fn = "written"
  /\ buffers' = [buffers EXCEPT ![s] = Tail(@)]
  /\ running' = IF Head(buffers[s]) = running.req \/ Len(buffers[s]) = 1 THEN Idle ELSE running
  /\ UNCHANGED <<conns, uv, sent, active, phase, owner, told, hz>>

\* Mutant of Closed: a connection that was closed on purpose is passed over.
ClosedPassedOver(s) ==
  /\ Looping /\ stage[s] = "closing" /\ uv[s] = <<>>
  /\ stage' = [stage EXCEPT ![s] = "none"]
  /\ UNCHANGED <<kind, fd, pool, write, active, phase, owner, running, told, hz>>

\* io_stream_connection_on_close finds its connection by the descriptor ...
Closed(s) ==
  /\ Looping /\ stage[s] = "closing" /\ uv[s] = <<>>
  /\ IF fd[s] \in DOMAIN pool
       THEN LET c == pool[fd[s]] IN
            /\ stage' = [stage EXCEPT ![s] = "none", ![c] = "closed"]
            /\ Tell(c, "gone")
            /\ running' = [fn |-> "close", s |-> c, req |-> 0]
       ELSE stage' = [stage EXCEPT ![s] = "none"] /\ UNCHANGED <<told, running>>
  /\ UNCHANGED <<kind, fd, pool, write, active, phase, owner, hz>>

\* ... and takes it from the pool after the callback.
ClosedErase ==
  LET f == fd[running.s] IN
  /\ running.fn = "close"
  /\ pool' = [g \in DOMAIN pool \ {f} |-> pool[g]]
  /\ stage' = [stage EXCEPT ![pool[f]] = "none"]
  /\ running' = Idle
  /\ UNCHANGED <<kind, fd, write, active, phase, owner, told, hz>>

\* The close callback of a handle that was no connection.  It needs no channel.
Discarded(s) ==
  /\ running = Idle /\ stage[s] = "discard"
  /\ stage' = [stage EXCEPT ![s] = "none"]
  /\ UNCHANGED <<kind, fd, pool, write, active, phase, owner, running, told, hz>>

-----------------------------------------------------------------------------
User ==
  \/ \E s \in Unused, f \in FreeFds : Listen(s, f) \/ Connect(s, f)
  \/ \E s \in Unused : ListenFails(s) \/ ConnectFails(s)
  \/ \E s \in Unused, k \in {"listen", "connect"} : Lookup(s, k)
  \/ \E s \in Streams : Disconnect(s) \/ Send(s)
  \/ CloseBegin \/ Reopen

\* What libuv has to report about a handle, other than what comes in.
Report(s) == LookedUpListen(s) \/ LookedUpConnect(s) \/ Connected(s) \/ Written(s) \/ Closed(s) \/ Discarded(s)

\* The user's code returns into the callback.
Return == WrittenPop \/ ClosedErase \/ Received

Loop == (\E s \in Streams : Report(s)) \/ Return \/ PoolEmpty \/ CloseEnd

Network ==
  \/ \E l \in Streams, s \in Unused, f \in FreeFds : Accept(l, s, f)
  \/ \E s \in Streams : Receive(s)

Init ==
  /\ stage = [s \in Streams |-> "none"]
  /\ kind = [s \in Streams |-> "connect"]
  /\ fd \in {[s \in Streams |-> f] : f \in {CHOOSE f \in Fds : TRUE}}
  /\ pool = [f \in {} |-> None]
  /\ buffers = [s \in Streams |-> <<>>]
  /\ uv = [s \in Streams |-> <<>>]
  /\ sent = [s \in Streams |-> 0]
  /\ active = 0
  /\ phase = "open"
  /\ owner \in BOOLEAN
  /\ running = Idle
  /\ told = [s \in Streams |-> "no"]
  /\ hz = {}

Next == User \/ Loop \/ Network

Spec == Init /\ [][Next]_vars

\* The loop is run, which inside io_stream_close is the code's own doing: the
\* user's code returns, and libuv, which goes through all its handles, leaves
\* none out (a peer or a name server that does not answer times out).
FairSpec ==
  /\ Spec
  /\ WF_vars(Return) /\ WF_vars(PoolEmpty) /\ WF_vars(CloseEnd)
  /\ \A s \in Streams : SF_vars(Report(s))

-----------------------------------------------------------------------------
Told == {"no", "asked", "failed", "open", "gone", "again"}

TypeOK ==
  /\ stage \in [Streams -> Stages]
  /\ kind \in [Streams -> {"listen", "connect", "accept"}]
  /\ fd \in [Streams -> Fds]
  /\ DOMAIN pool \subseteq Fds /\ Filed \subseteq Streams
  /\ DOMAIN buffers = Streams /\ DOMAIN uv = Streams
  /\ \A s \in Streams : buffers[s] \in Seq(1 .. sent[s]) /\ uv[s] \in Seq(1 .. sent[s])
  /\ sent \in [Streams -> 0 .. MaxSend]
  /\ active \in Nat
  /\ phase \in {"open", "closing", "draining", "closed"}
  /\ owner \in BOOLEAN
  /\ running \in [fn : {"none", "recv", "written", "close"}, s : Streams \cup {None}, req : 0 .. MaxSend]
  /\ told \in [Streams -> Told]
  /\ hz \subseteq Windows

\* When io_stream_close returns nothing can call back into the channel any
\* more: no connection is left, no request is on its way, and the user has been
\* told the end of everything it had been told the beginning of, unless a
\* closing connection lost its place in the pool.  (The comment at lines 213-216
\* gives this as the reason why it waits.)
ClosedIsQuiet ==
  hz = {} /\ phase = "closed" =>
    /\ DOMAIN pool = {} /\ active = 0
    /\ \A s \in Streams : stage[s] \in {"none", "discard"} /\ told[s] \notin {"asked", "open"}

\* The block of stream s whose callback is running.
Reported(s) == IF running.fn = "written" /\ running.s = s THEN <<running.req>> ELSE <<>>

\* The blocks a connection keeps are those libuv has still to report, in that
\* order, after the one whose callback is running: io_stream_on_written_fn
\* frees blocks up to the one it is called for without looking further.
WriteQueuesAgree ==
  \A s \in Streams : stage[s] \in {"live", "closing"} => buffers[s] = Reported(s) \o uv[s]

\* What the user may be told next of stream s.
ToldNext(s) ==
  \/ told[s] = "asked" /\ told'[s] \in {"open", "failed"}
  \/ told[s] = "open" /\ told'[s] = "gone"
  \/ /\ told[s] \in {"no", "failed", "gone"} /\ stage[s] = "none"
     /\ told'[s] \in {"no", "asked", "open"}

\* A connection is reported opened once and gone once, in this order, whoever
\* closes it and whenever; a request is answered once (up to the window fdreuse).
ReportedOnce == [][\A s \in Streams : hz = {} /\ told[s] # told'[s] => ToldNext(s)]_vars

\* What is asked for is answered, what is closed is reported gone, and
\* io_stream_close, which blocks on both, returns.
RequestsEnd ==
  /\ \A s \in Streams :
       /\ told[s] = "asked" ~> told[s] \in {"open", "failed"}
       /\ stage[s] = "closing" ~> told[s] = "gone"
  /\ phase = "closing" ~> phase = "closed"

=============================================================================
