----------------------------- MODULE Forwarding -----------------------------
(***************************************************************************)
(* Messages on their way through the tree of nodes: node::send_data, the     *)
(* choice of the next hop in node::send_msg, the forwarding, answering and   *)
(* introducing of msg_handler::on_recv_data_transfer_req, and the counting   *)
(* of faults in node::on_recv.  Registration is one step here (the modules   *)
(* NodeTable and Registration take it apart); a link between two nodes may   *)
(* break at any time, and any push may fail, because a buffer is full.       *)
(***************************************************************************)
EXTENDS Naturals, FiniteSets, SequencesExt

CONSTANTS
  Nodes,
  Ids,        \* what a message may be addressed to: nodes, and ids nobody has
  Father,     \* of a node, None for a root
  Domain,     \* the ids of a node and its children
  Users,      \* the nodes whose users send
  Public,     \* the nodes that listen on an address others can connect to
  Ttl,        \* conf_t::ttl, of each node
  Tolerance,  \* conf_t::fault_tolerant
  MaxSends,   \* bound: messages users send
  MaxBreaks,  \* bound: links that break
  None

ASSUME TreeAssumption ==
  /\ Users \subseteq Nodes /\ Nodes \subseteq Ids /\ None \notin Ids /\ Ttl \in [Nodes -> Nat]
  /\ Father \in [Nodes -> Nodes \cup {None}] /\ Domain \in [Nodes -> SUBSET Ids]
  /\ \A n \in Nodes :
       /\ n \in Domain[n]
       /\ Father[n] # None => Domain[n] \subseteq Domain[Father[n]] /\ Father[n] \notin Domain[n]
       \* Brothers, which roots are to each other, have no ids in common (NodeTable: DomainsDisjoint).
       /\ \A p \in Nodes \ {n} : Father[p] = Father[n] => Domain[p] \cap Domain[n] = {}

ASSUME BoundAssumption == Tolerance \in Nat /\ MaxSends \in Nat /\ MaxBreaks \in Nat

VARIABLES
  peers,   \* n -> the nodes n has an endpoint for
  links,   \* the pairs <<n, p>> where n has a connection to p it can send on
  net,     \* <<n, p>> -> messages from n to p
  faults,  \* <<n, p>> -> endpoint::stat_.fault_count
  met,     \* the pairs {n, p} that have been introduced to each other
  sent, breaks,
  fates    \* history: request -> how it ended

vars == <<peers, links, net, faults, met, sent, breaks, fates>>
counters == <<sent, breaks>>

Pairs == {l \in Nodes \X Nodes : l[1] # l[2]}
Failures == {"first", "again", "notice"}
Kin(n, p) == Father[n] = p \/ Father[p] = n \/ (Father[n] = None /\ Father[p] = None)

-----------------------------------------------------------------------------
\* node::is_child_node, is_brother_node (the father, too, may be taken for a brother).
IsChild(n, t) == t \in Domain[n]
HasFather(n) == Father[n] \in peers[n]
IsBrother(n, t) == t \notin Domain[n] /\ (HasFather(n) => t \in Domain[Father[n]])

Owner(n, t, among) ==
  LET p == {q \in among : t \in Domain[q]} IN IF p = {} THEN None ELSE CHOOSE q \in p : TRUE
Children(n) == {p \in peers[n] : p \in Domain[n]}
Brothers(n) == {p \in peers[n] : p \notin Domain[n] /\ p # Father[n]}
FatherOf(n) == IF HasFather(n) THEN Father[n] ELSE None

\* Mutant of NextHop: what is not found among the children goes up.
NextHopUp(n, t) ==
  IF t = FatherOf(n) THEN t
  ELSE LET p == Owner(n, t, Children(n) \cup Brothers(n)) IN IF p # None THEN p ELSE FatherOf(n)

\* node::send_msg: the endpoint a message for t goes to.
NextHop(n, t) ==
  IF t = FatherOf(n) THEN t
  ELSE IF IsChild(n, t) THEN Owner(n, t, Children(n))
  ELSE LET p == Owner(n, t, Brothers(n)) IN
       IF IsBrother(n, t) /\ p # None THEN p ELSE FatherOf(n)

\* node::send_msg of m, with the network q.  The router and the source are written
\* before the push, whether or not it fails.
Push(q, n, t, m, fails) ==
  LET hop == NextHop(n, t)
      out == [m EXCEPT !.router = IF m.cmd = "req" THEN Append(@, n) ELSE @, !.src = n]
  IN IF hop = None \/ <<n, hop>> \notin links THEN [net |-> q, hop |-> hop, msg |-> m, ok |-> FALSE]
     ELSE [net |-> IF fails THEN q ELSE [q EXCEPT ![<<n, hop>>] = Append(@, out)],
           hop |-> hop, msg |-> out, ok |-> ~fails]

Request(id, n, t, ask) ==
  [cmd |-> "req", id |-> id, from |-> n, to |-> t, router |-> <<>>, src |-> n, ret |-> "ok", ask |-> ask]
Syn(n, p) ==
  [cmd |-> "syn", id |-> 0, from |-> n, to |-> p, router |-> <<>>, src |-> n, ret |-> "ok", ask |-> FALSE]
Command(id, n, t) == [Request(id, n, t, FALSE) EXCEPT !.cmd = "cmd"]

\* send_transfer_rsp.  A node does not send itself a notice: its own handler refuses it.
Notice(q, n, m, ret, fails) ==
  LET rsp == [m EXCEPT !.cmd = "rsp", !.from = n, !.to = m.from, !.router = <<>>, !.ret = ret, !.ask = FALSE]
  IN IF m.from = n THEN [net |-> q, ok |-> FALSE] ELSE Push(q, n, m.from, rsp, fails)

-----------------------------------------------------------------------------
\* What a handler leaves: the network, whether its message counts as a fault of the peer it
\* came from (the handler failed, or wrote a failure into the message it was given),
\* and what became of the request.
Done(q, ok, fate) == [net |-> q, ok |-> ok, fate |-> fate]

\* Both the source and the receiver of a forwarded message are children: they may meet.
Introduces(n, m, hop) == IsChild(n, m.src) /\ IsChild(n, hop) /\ hop \in Public

\* Mutant of Resend: the result of the second attempt is dropped.
ResendUnseen(q, n, m, first, fails) ==
  LET again == Push(first.net, n, Father[n], first.msg, fails)
  IN IF /\ ~first.ok /\ HasFather(n) /\ first.msg.src # Father[n] /\ IsBrother(n, m.to)
        /\ first.hop # Father[n]
     THEN [first EXCEPT !.net = again.net]
     ELSE first

\* A brother that could not be reached directly may be reached through the father.
Resend(q, n, m, first, fails) ==
  IF /\ ~first.ok /\ HasFather(n) /\ first.msg.src # Father[n] /\ IsBrother(n, m.to)
     /\ first.hop # Father[n]
  THEN Push(first.net, n, Father[n], first.msg, fails)
  ELSE first

Forward(q, n, m, fails) ==
  LET first == Push(q, n, m.to, m, "first" \in fails) IN
  IF first.ok /\ IsChild(n, m.to)
  THEN IF Introduces(n, m, first.hop)
       THEN LET s == Push(first.net, n, m.src, Syn(n, first.hop), "notice" \in fails)
            IN Done(s.net, s.ok, <<>>)
       ELSE Done(first.net, TRUE, <<>>)
  ELSE LET last == Resend(q, n, m, first, "again" \in fails)
           rsp == Notice(last.net, n, last.msg, IF last.ok THEN "ok" ELSE "failed", "notice" \in fails)
       IN IF last.ok /\ ~m.ask THEN Done(last.net, TRUE, <<>>)
          ELSE Done(rsp.net, last.ok /\ rsp.ok, IF last.ok THEN <<>> ELSE <<"failed">>)

\* on_recv_data_transfer_req.
TransferReq(q, n, m, fails) ==
  IF m.to = n
  THEN LET rsp == Notice(q, n, m, "ok", "notice" \in fails) IN
       IF m.ask THEN Done(rsp.net, rsp.ok, <<"got">>) ELSE Done(q, TRUE, <<"got">>)
  ELSE IF Len(m.router) >= Ttl[n]
  THEN Done(Notice(q, n, m, "failed", "notice" \in fails).net, FALSE, <<"failed">>)
  ELSE Forward(q, n, m, fails)

-----------------------------------------------------------------------------
\* n and p lose each other's connections and what is under way on them.
Cut(q, n, p) == [q EXCEPT ![<<n, p>>] = <<>>, ![<<p, n>>] = <<>>]

\* Mutant of Account: one fault too many is borne.
AccountLate(q, n, p, ok) ==
  IF ok \/ faults[n, p] <= Tolerance
  THEN /\ faults' = [faults EXCEPT ![<<n, p>>] = IF ok THEN 0 ELSE @ + 1]
       /\ net' = q /\ UNCHANGED <<peers, links>>
  ELSE /\ faults' = [faults EXCEPT ![<<n, p>>] = 0]
       /\ peers' = [peers EXCEPT ![n] = @ \ {p}]
       /\ links' = links \ {<<n, p>>, <<p, n>>}
       /\ net' = Cut(q, n, p)

\* node::on_recv's bookkeeping: a good message clears the peer's faults, one too many
\* removes its endpoint (node::add_endpoint_fault).
Account(q, n, p, ok) ==
  IF ok \/ faults[n, p] < Tolerance
  THEN /\ faults' = [faults EXCEPT ![<<n, p>>] = IF ok THEN 0 ELSE @ + 1]
       /\ net' = q /\ UNCHANGED <<peers, links>>
  ELSE /\ faults' = [faults EXCEPT ![<<n, p>>] = 0]
       /\ peers' = [peers EXCEPT ![n] = @ \ {p}]
       /\ links' = links \ {<<n, p>>, <<p, n>>}
       /\ net' = Cut(q, n, p)

\* Any message that is under way from p to n: the control and the data connections
\* overtake each other.  A notice or a command ends at the first node it comes to: neither
\* handler looks at whom it was for.
Receive(n, p, i, fails) ==
  LET m == net[p, n][i]
      q == [net EXCEPT ![<<p, n>>] = RemoveAt(@, i)]
  IN \/ /\ m.cmd = "req"
        /\ LET h == TransferReq(q, n, m, fails) IN
             /\ Account(h.net, n, p, h.ok)
             /\ fates' = [fates EXCEPT ![m.id] = @ \o h.fate]
        /\ UNCHANGED <<met, counters>>
     \/ /\ m.cmd \in {"rsp", "cmd"} /\ fails = {}
        /\ Account(q, n, p, m.ret = "ok")
        /\ UNCHANGED <<met, fates, counters>>
     \/ /\ m.cmd = "syn" /\ fails = {}
        /\ met' = met \cup {{n, m.to}}
        /\ Account(q, n, p, TRUE)
        /\ UNCHANGED <<fates, counters>>

\* node::send_data; what cannot be sent is refused.
SendData(n, t, ask, fails) ==
  /\ sent < MaxSends /\ sent' = sent + 1
  /\ LET s == Push(net, n, t, Request(sent', n, t, ask), fails)
     IN IF t = n
        THEN ~fails /\ fates' = [fates EXCEPT ![sent'] = <<"got">>] /\ UNCHANGED net
        ELSE /\ net' = s.net
             /\ fates' = [fates EXCEPT ![sent'] = IF s.ok THEN <<>> ELSE <<"failed">>]
  /\ UNCHANGED <<peers, links, faults, met, breaks>>

\* node::send_custom_cmd.  The command itself does not say whom it is for.
SendCommand(n, t, fails) ==
  /\ sent < MaxSends /\ sent' = sent + 1
  /\ IF t = n THEN ~fails /\ UNCHANGED net
     ELSE net' = Push(net, n, t, Command(sent', n, t), fails).net
  /\ UNCHANGED <<peers, links, faults, met, breaks, fates>>

-----------------------------------------------------------------------------
\* Both sides have seen the connections fail; their endpoints wait for the check.
Break(n, p) ==
  /\ breaks < MaxBreaks /\ <<n, p>> \in links
  /\ links' = links \ {<<n, p>>, <<p, n>>} /\ net' = Cut(net, n, p) /\ breaks' = breaks + 1
  /\ UNCHANGED <<peers, faults, met, sent, fates>>

\* The check at the end of node::proc.
Check(n, p) ==
  /\ p \in peers[n] /\ <<n, p>> \notin links
  /\ peers' = [peers EXCEPT ![n] = @ \ {p}] /\ faults' = [faults EXCEPT ![<<n, p>>] = 0]
  /\ UNCHANGED <<links, net, met, counters, fates>>

\* Two nodes register with each other: a child and its father, two roots, or brothers that
\* have been introduced.
Join(n, p) ==
  /\ <<n, p>> \notin links /\ (Kin(n, p) \/ {n, p} \in met)
  /\ peers' = [peers EXCEPT ![n] = @ \cup {p}, ![p] = @ \cup {n}]
  /\ links' = links \cup {<<n, p>>, <<p, n>>}
  /\ UNCHANGED <<net, faults, met, counters, fates>>

Init ==
  /\ peers = [n \in Nodes |-> {p \in Nodes \ {n} : Kin(n, p)}]
  /\ links = {l \in Pairs : Kin(l[1], l[2])}
  /\ net = [l \in Pairs |-> <<>>] /\ faults = [l \in Pairs |-> 0]
  /\ met = {} /\ sent = 0 /\ breaks = 0
  /\ fates = [i \in 1 .. MaxSends |-> <<>>]

Next ==
  \/ \E n \in Users, t \in Ids, fails \in BOOLEAN :
       SendCommand(n, t, fails) \/ \E ask \in BOOLEAN : SendData(n, t, ask, fails)
  \/ \E l \in Pairs :
       \/ \E i \in DOMAIN net[l], fails \in SUBSET Failures : Receive(l[2], l[1], i, fails)
       \/ Break(l[1], l[2]) \/ Check(l[1], l[2]) \/ Join(l[1], l[2])

Spec == Init /\ [][Next]_vars

-----------------------------------------------------------------------------
Messages ==
  [cmd : {"req", "rsp", "cmd", "syn"}, id : 0 .. MaxSends, from : Nodes, to : Ids, router : Seq(Nodes),
   src : Nodes, ret : {"ok", "failed"}, ask : BOOLEAN]

\* What tables, links and messages are made of; a peer that has used up its faults is removed.
TypeOK ==
  /\ peers \in [Nodes -> SUBSET Nodes] /\ links \subseteq Pairs
  /\ net \in [Pairs -> Seq(Messages)] /\ faults \in [Pairs -> 0 .. Tolerance]
  /\ met \subseteq SUBSET Nodes
  /\ sent \in 0 .. MaxSends /\ breaks \in 0 .. MaxBreaks
  /\ fates \in [1 .. MaxSends -> Seq({"got", "failed"})]

\* A request has one fate: it is under way once, or was delivered once, or one node has given
\* it up and told so (to the caller of send_data, or by a notice), never two of these,
\* though a failed push is tried again on another way.
Under(l, i, id) == net[l][i].cmd = "req" /\ net[l][i].id = id
Copies(id) == {x \in UNION {{l} \X DOMAIN net[l] : l \in Pairs} : Under(x[1], x[2], id)}
OneFate == \A id \in 1 .. MaxSends : Cardinality(Copies(id)) + Len(fates[id]) <= 1

\* No request comes to a node that has sent it on before, whatever links break, come back
\* and are made meanwhile: the limit of hops is not what keeps requests from circling.
NoLoop == \A l \in Pairs : \A i \in DOMAIN net[l] : l[2] \notin ToSet(net[l][i].router)
=============================================================================
