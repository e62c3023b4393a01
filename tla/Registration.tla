---------------------------- MODULE Registration ----------------------------
(***************************************************************************)
(* A node and its father (src/atbus_node.cpp, src/atbus_msg_handler.cpp):    *)
(* the node connects, both register with each other on the new connection,   *)
(* the node goes up, loses the father, tries again.  Either side can see a   *)
(* connection fail at any time, messages of different connections overtake   *)
(* each other, the node's process may end and be started again.              *)
(*                                                                         *)
(* Each side has one endpoint for the other; beside the connections of this  *)
(* module it has the data connections that were made when it was registered, *)
(* which are there until the endpoint is reset ("whole").  Time is left out: *)
(* a timer may fire whenever it is armed.  From some moment on the network   *)
(* is calm: nothing fails, and answers are quicker than timers.              *)
(***************************************************************************)
EXTENDS Naturals, Sequences

CONSTANTS
  Conns,      \* places for connections (bound: alive at the same time)
  MaxStarts,  \* bound: how often the node's process is started
  None

ASSUME BoundAssumption == MaxStarts \in Nat \ {0} /\ Conns # {} /\ None \notin Conns

VARIABLES
  child,    \* the node's process, see ChildType
  father,   \* the father's process, see FatherType
  toC, toF, \* messages under way to either side of a connection
  calm,     \* the network has become reliable
  accepted, \* history: the processes of the node the father has accepted
  hz        \* history: the windows this behaviour has hit

vars == <<child, father, toC, toF, calm, accepted, hz>>

\* A request tells the process it comes from.
Messages == [type : {"req", "ok", "err"}, start : 0 .. MaxStarts]
Msg(t, s) == [type |-> t, start |-> s]
\* "failed": its connect could not be started; "late": timed out, but not given
\* up by the io channel.
CAt == {"none", "failed", "wait", "late", "open"}
FAt == {"none", "open"}
\* "late": the father's answer comes when the node has given up waiting for it, but
\* has the father's endpoint; "refused": it is a refusal, on a connection that is
\* already one of the endpoint's.
Windows == {"late", "refused"}

NoEnd == [ctrl |-> None, data |-> {}, whole |-> FALSE, start |-> 0]
EndType == [ctrl : Conns \cup {None}, data : SUBSET Conns, whole : BOOLEAN, start : 0 .. MaxStarts]

\* state: node::state_ (INITED: not running); regdone, actived: node::flags_;
\* end: the peer's endpoint, has: it is in the node's tables; check: it is on
\* pending_check_list_, and stale: so is one that is in no table any more; held: the
\* connections on connecting_list.
ChildType ==
  [state : {"INITED", "LOST_PARENT", "CONNECTING_PARENT", "RUNNING"}, regdone : BOOLEAN,
   actived : BOOLEAN, start : 1 .. MaxStarts, end : EndType, has : BOOLEAN, check : BOOLEAN,
   stale : BOOLEAN, at : [Conns -> CAt], held : SUBSET Conns]
FatherType == [end : EndType, has : BOOLEAN, check : BOOLEAN, at : [Conns -> FAt],
               held : SUBSET Conns]

Alive == child.state # "INITED"
Bound(p) == ({p.end.ctrl} \cup p.end.data) \ {None}

-----------------------------------------------------------------------------
\* What both sides do to their endpoint and connections.

Close(p, K) ==
  [p EXCEPT !.at = [k \in Conns |-> IF k \in K THEN "none" ELSE @[k]], !.held = @ \ K]

\* An endpoint that lets go of its connections resets those for data, but only drops the
\* control connection: on connecting_list that one stays open, and bound to nothing.
LetGo(p) == Close(p, Bound(p) \ ({p.end.ctrl} \cap p.held))

\* The endpoint of a peer that registers on k, with the other connections begun.
FirstEnd(k, s) == [ctrl |-> k, data |-> {}, whole |-> TRUE, start |-> s]

\* An endpoint that is reset has no connections and is of the same process.
Emptied(e) == [ctrl |-> None, data |-> {}, whole |-> FALSE, start |-> e.start]

\* Mutant of ResetEnd: nobody checks the endpoint.
ResetEndUnlisted(p) ==
  [LetGo(p) EXCEPT !.end = Emptied(p.end)]

\* endpoint::reset, which also puts the endpoint on the list of those to check.
ResetEnd(p) ==
  [LetGo(p) EXCEPT !.end = Emptied(p.end), !.check = TRUE]

\* endpoint::remove_connection.
Unbind(p, k) ==
  LET left == p.end.data \ {k} IN
  IF k = p.end.ctrl \/ (k \in p.end.data /\ left = {} /\ ~p.end.whole)
  THEN ResetEnd(p)
  ELSE [p EXCEPT !.end.data = left]

\* endpoint::add_connection.
Bind(p, k) ==
  IF p.end.ctrl = None THEN [p EXCEPT !.end.ctrl = k] ELSE [p EXCEPT !.end.data = @ \cup {k}]

\* endpoint::is_available.
Available(p) == p.end.ctrl # None /\ (p.end.whole \/ p.end.data # {})

\* Mutant of Remove: the endpoint leaves its table but lives on.
RemoveKept(p) == [LetGo(p) EXCEPT !.has = FALSE]

\* node::remove_endpoint, and what becomes of the endpoint.
Remove(p) == [LetGo(p) EXCEPT !.end = NoEnd, !.has = FALSE]

-----------------------------------------------------------------------------
\* node::on_disconnect, of a connection to the father's address.
OnDisconnect(c) == [c EXCEPT !.state = IF @ = "CONNECTING_PARENT" THEN "LOST_PARENT" ELSE @]

\* connection::reset on the node's side.
ChildReset(c, k) == OnDisconnect(Close(Unbind(c, k), {k}))
FatherReset(f, k) == Close(Unbind(f, k), {k})

\* node::remove_endpoint for the father.
RemoveFather(c) == [Remove(c) EXCEPT !.state = "LOST_PARENT"]

\* node::on_actived.
OnActived(c) == [c EXCEPT !.state = "RUNNING", !.actived = TRUE]

\* Mutant of AddFather: the answer of the father is not waited for.
AddFatherAtOnce(c, k) ==
  LET d == [c EXCEPT !.has = TRUE, !.end = FirstEnd(k, 0)]
  IN IF c.state \in {"LOST_PARENT", "CONNECTING_PARENT"} THEN OnActived(d) ELSE d

\* node::add_endpoint for the father, and its first connections.
AddFather(c, k) ==
  LET d == [c EXCEPT !.has = TRUE, !.end = FirstEnd(k, 0)]
  IN IF c.state \in {"LOST_PARENT", "CONNECTING_PARENT"} /\ c.regdone THEN OnActived(d) ELSE d

\* on_recv_node_reg_req at the node: nothing in this module makes it refuse.
ChildReg(c, k) ==
  IF k \in Bound(c) THEN c
  ELSE IF c.has THEN Bind(c, k) ELSE AddFather(c, k)

\* on_recv_node_reg_rsp at the node.  The registration counts only while the
\* node is connecting; the father's endpoint may not be there yet.
RspOk(c) ==
  IF c.state # "CONNECTING_PARENT" THEN c
  ELSE IF c.has THEN OnActived([c EXCEPT !.regdone = TRUE]) ELSE [c EXCEPT !.regdone = TRUE]

\* The refused connection is closed but stays where it is in its endpoint.
RspErr(c, k) == OnDisconnect(Close([c EXCEPT !.check = @ \/ k \in Bound(c)], {k}))

\* Mutant of FatherReg: the process is not compared.
FatherRegAny(f, k, s) ==
  IF k \in Bound(f) THEN <<f, "ok">>
  ELSE IF ~f.has THEN <<[f EXCEPT !.has = TRUE, !.end = FirstEnd(k, s)], "ok">>
  ELSE <<Bind(f, k), "ok">>

\* on_recv_node_reg_req at the father, from the process s.
FatherReg(f, k, s) ==
  IF k \in Bound(f) THEN <<f, "ok">>
  ELSE IF ~f.has THEN <<[f EXCEPT !.has = TRUE, !.end = FirstEnd(k, s)], "ok">>
  ELSE IF f.end.start = s THEN <<Bind(f, k), "ok">>
  ELSE <<Close(f, {k}), "err">>

-----------------------------------------------------------------------------
\* A side that has closed a connection does not get its messages.
Heard(q, p) == [k \in Conns |-> IF p.at[k] = "open" THEN q[k] ELSE <<>>]

\* The step ends with c and f at the two sides and these messages under way.
Become(c, f, qc, qf) ==
  /\ child' = c /\ father' = f
  /\ toC' = Heard(qc, c) /\ toF' = Heard(qf, f)

Free == {k \in Conns : child.at[k] = "none" /\ father.at[k] = "none"}
NewConn == CHOOSE k \in Free : TRUE

\* Nothing is under way.
Quiet ==
  \A k \in Conns :
    /\ toC[k] = <<>> /\ toF[k] = <<>> /\ child.at[k] \notin {"wait", "late"}
    /\ child.at[k] = "open" <=> father.at[k] = "open"

\* The first connect of node::start, and those of the father's timer.
Started(s, k, ok) ==
  [state |-> IF ok THEN "CONNECTING_PARENT" ELSE "LOST_PARENT", regdone |-> FALSE,
   actived |-> FALSE, start |-> s, end |-> NoEnd, has |-> FALSE, check |-> FALSE,
   stale |-> FALSE, held |-> {k},
   at |-> [j \in Conns |-> IF j # k THEN "none" ELSE IF ok THEN "wait" ELSE "failed"]]

Restart ==
  /\ ~Alive /\ ~calm /\ child.start < MaxStarts /\ Free # {}
  /\ \E ok \in BOOLEAN : Become(Started(child.start + 1, NewConn, ok), father, toC, toF)
  /\ UNCHANGED <<calm, accepted, hz>>

\* The process ends, its connections with it.
Down(c) == [c EXCEPT !.state = "INITED", !.regdone = FALSE, !.actived = FALSE, !.end = NoEnd,
                     !.has = FALSE, !.check = FALSE, !.stale = FALSE, !.held = {},
                     !.at = [k \in Conns |-> "none"]]
Stop ==
  /\ Alive /\ ~calm
  /\ Become(Down(child), father, toC, toF)
  /\ UNCHANGED <<calm, accepted, hz>>

\* The connection is there for both sides, and each sends its registration
\* (node::on_new_connection).  On one that has timed out nobody waits for more.
Connected(k) ==
  /\ child.at[k] \in {"wait", "late"}
  /\ LET late == child.at[k] = "late"
         c == IF late THEN OnDisconnect(Close(child, {k})) ELSE [child EXCEPT !.at[k] = "open"]
     IN Become(c, [father EXCEPT !.at[k] = "open", !.held = @ \cup {k}],
            [toC EXCEPT ![k] = <<Msg("req", 0)>>], [toF EXCEPT ![k] = <<Msg("req", child.start)>>])
  /\ UNCHANGED <<calm, accepted, hz>>

\* For one that has timed out, which is disconnected already, this is the end of it.
ConnectFails(k) ==
  /\ child.at[k] \in {"wait", "late"} /\ ~calm
  /\ Become(IF child.at[k] = "late" THEN Close(child, {k}) ELSE ChildReset(child, k), father, toC, toF)
  /\ UNCHANGED <<calm, accepted, hz>>

\* A side sees the connection fail, or sees that the other one has closed it.
Fails(p, q, k, queue) == p.at[k] = "open" /\ (~calm \/ (q.at[k] # "open" /\ queue[k] = <<>>))
ChildFails(k) ==
  /\ Fails(child, father, k, toC)
  /\ Become(ChildReset(child, k), father, toC, toF)
  /\ UNCHANGED <<calm, accepted, hz>>
FatherFails(k) ==
  /\ Fails(father, child, k, toF)
  /\ Become(child, FatherReset(father, k), toC, toF)
  /\ UNCHANGED <<calm, accepted, hz>>

-----------------------------------------------------------------------------
ChildReceives(k) ==
  /\ toC[k] # <<>>
  /\ LET m == Head(toC[k]).type
         rest == [toC EXCEPT ![k] = Tail(@)]
     IN \/ /\ m = "req"
           /\ Become(ChildReg(child, k), father, rest, [toF EXCEPT ![k] = Append(@, Msg("ok", 0))])
           /\ UNCHANGED hz
        \/ /\ m = "ok"
           /\ Become(RspOk(child), father, rest, toF)
           /\ hz' = IF child.state = "LOST_PARENT" /\ child.has THEN hz \cup {"late"} ELSE hz
        \/ /\ m = "err"
           /\ Become(IF child.actived THEN RspErr(child, k) ELSE Down(child), father, rest, toF)
           /\ hz' = IF child.actived /\ k \in Bound(child) THEN hz \cup {"refused"} ELSE hz
  /\ UNCHANGED <<calm, accepted>>

FatherReceives(k) ==
  /\ toF[k] # <<>>
  /\ LET rest == [toF EXCEPT ![k] = Tail(@)]
         m == Head(toF[k])
         r == FatherReg(father, k, m.start)
     IN IF m.type = "req"
        THEN /\ Become(child, r[1], [toC EXCEPT ![k] = Append(@, Msg(r[2], 0))], rest)
             /\ accepted' = IF r[2] = "ok" THEN accepted \cup {m.start} ELSE accepted
        ELSE Become(child, father, toC, rest) /\ UNCHANGED accepted
  /\ UNCHANGED <<calm, hz>>

-----------------------------------------------------------------------------
\* node::proc: connections that were not registered in time, the father's timer,
\* pings, and the check of the endpoints on the list, in this order.
Overdue(p) ==
  {k \in Conns : p.at[k] = "failed" \/ (p.at[k] \in {"wait", "open"} /\ k \notin Bound(p) /\ (~calm \/ Quiet))}

TimedOut(c, K) ==
  IF K = {} THEN c
  ELSE OnDisconnect([c EXCEPT !.held = @ \ K,
         !.at = [k \in Conns |-> IF k \in K THEN IF @[k] = "wait" THEN "late" ELSE "none" ELSE @[k]]])

\* Those that are registered leave the list, unless they stand behind one that is waited for.
Unlisted(p) ==
  {[p EXCEPT !.held = @ \ L] :
     L \in IF p.held \subseteq Bound(p) THEN {p.held} ELSE SUBSET (p.held \cap Bound(p))}

Ctrl(c) == c.end.ctrl # None /\ c.at[c.end.ctrl] = "open"

\* The father's timer is armed as long as the node runs.
FatherOp(c) ==
  IF Ctrl(c) \/ Free = {} THEN {c}
  ELSE {[c EXCEPT !.state = "CONNECTING_PARENT", !.at[NewConn] = "wait", !.held = @ \cup {NewConn}]}
       \cup (IF calm THEN {} ELSE {[c EXCEPT !.at[NewConn] = "failed", !.held = @ \cup {NewConn}]})

\* Too many pings were not answered (node::add_endpoint_fault).
Pinged(c) == {c} \cup (IF c.has /\ ~calm THEN {RemoveFather(c)} ELSE {})

\* The endpoints on the list that cannot be used are removed by their id: what is stale
\* takes the father with it that has registered since.
Checked(c) ==
  LET gone == c.has /\ (c.stale \/ (c.check /\ ~Available(c)))
  IN [(IF gone THEN RemoveFather(c) ELSE c) EXCEPT !.check = FALSE, !.stale = FALSE]

Proc ==
  /\ Alive
  /\ \E K \in SUBSET Overdue(child) : \E c1 \in Unlisted(TimedOut(child, K)) :
     \E c2 \in (IF calm THEN {} ELSE {c1}) \cup (IF calm /\ ~Quiet THEN {c1} ELSE FatherOp(c1)) :
     \E c3 \in Pinged(c2) :
       Become(Checked(c3), father, toC, toF)
  /\ UNCHANGED <<calm, accepted, hz>>

FatherProc ==
  /\ \E K \in SUBSET Overdue(father) : \E f1 \in Unlisted(Close(father, K)) :
     \E f2 \in {f1} \cup (IF f1.has /\ ~calm THEN {Remove(f1)} ELSE {}) :
       Become(child,
              IF ~f2.check THEN f2
              ELSE [(IF f2.has /\ ~Available(f2) THEN Remove(f2) ELSE f2) EXCEPT !.check = FALSE],
              toC, toF)
  /\ UNCHANGED <<calm, accepted, hz>>

\* Data connections fail, and with the last of them the endpoint.
ChildDataFails ==
  /\ Alive /\ child.has /\ ~calm
  /\ Become(OnDisconnect(ResetEnd(child)), father, toC, toF)
  /\ UNCHANGED <<calm, accepted, hz>>
FatherDataFails ==
  /\ father.has /\ ~calm
  /\ Become(child, ResetEnd(father), toC, toF)
  /\ UNCHANGED <<calm, accepted, hz>>

\* node::disconnect of the father, by the user: the node's state is left, and the endpoint
\* reset, and so listed, before it is dropped.
UserDisconnect ==
  /\ Alive /\ child.has /\ ~calm
  /\ Become(OnDisconnect([Remove(child) EXCEPT !.check = FALSE, !.stale = TRUE]), father, toC, toF)
  /\ UNCHANGED <<calm, accepted, hz>>

Calm == ~calm /\ calm' = TRUE /\ UNCHANGED <<child, father, toC, toF, accepted, hz>>

-----------------------------------------------------------------------------
Init ==
  /\ child \in {Started(1, CHOOSE k \in Conns : TRUE, ok) : ok \in BOOLEAN}
  /\ father = [end |-> NoEnd, has |-> FALSE, check |-> FALSE,
               at |-> [k \in Conns |-> "none"], held |-> {}]
  /\ toC = [k \in Conns |-> <<>>] /\ toF = toC
  /\ calm = FALSE /\ accepted = {} /\ hz = {}

Next ==
  \/ Restart \/ Stop \/ Proc \/ FatherProc \/ ChildDataFails \/ FatherDataFails
  \/ UserDisconnect \/ Calm
  \/ \E k \in Conns :
       \/ Connected(k) \/ ConnectFails(k) \/ ChildFails(k) \/ FatherFails(k)
       \/ ChildReceives(k) \/ FatherReceives(k)

Spec == Init /\ [][Next]_vars

\* Both processes are scheduled, and the network delivers.
FairSpec ==
  /\ Spec
  /\ WF_vars(Proc) /\ WF_vars(FatherProc)
  /\ \A k \in Conns :
       /\ WF_vars(Connected(k)) /\ WF_vars(ChildFails(k)) /\ WF_vars(FatherFails(k))
       /\ WF_vars(ChildReceives(k)) /\ WF_vars(FatherReceives(k))

-----------------------------------------------------------------------------
\* The types of the two processes and of what is under way; an endpoint that is in no
\* table is gone, and no connection is in an endpoint twice.
TypeOK ==
  /\ child \in ChildType /\ father \in FatherType
  /\ \A p \in {child, father} : (p.has \/ p.end = NoEnd) /\ p.end.ctrl \notin p.end.data
  /\ toC \in [Conns -> Seq(Messages)] /\ toF \in [Conns -> Seq(Messages)]
  /\ calm \in BOOLEAN /\ accepted \subseteq 1 .. MaxStarts /\ hz \subseteq Windows

\* on_node_up is not called before the father has accepted this very process.
UpWasAccepted == child.actived => child.start \in accepted

\* The father's endpoint holds connections of one process: one that the process
\* which runs now has open is not bound to the endpoint of an earlier one.
SameProcess ==
  \A k \in Bound(father) : child.at[k] = "open" => father.end.start = child.start

\* The node and its father have each other, on control connections that are open at
\* both ends.
Joined ==
  /\ child.state = "RUNNING" /\ child.has /\ father.has
  /\ father.end.start = child.start
  /\ \A p \in {child, father} :
       p.end.ctrl # None /\ child.at[p.end.ctrl] = "open" /\ father.at[p.end.ctrl] = "open"

\* Once the network is calm they come together and stay so, or the node has ended and
\* the father forgets it, whatever is left of earlier attempts and processes.
ComesUp == <>[](calm => Joined \/ (~Alive /\ ~father.has))

\* msg_handler.cpp:418: a node whose registration the father has accepted goes up.
AcceptedGoesUp ==
  <>[](calm /\ child.has /\ Ctrl(child) /\ child.start \in accepted => child.state = "RUNNING")

=============================================================================
