------------------------------ MODULE NodeTable ------------------------------
(***************************************************************************)
(* The peers of one node: its father, its tables of children and brothers, *)
(* the endpoints they hold with their connections, and the list of         *)
(* endpoints to be checked at the end of node::proc (src/atbus_node.cpp,    *)
(* src/atbus_endpoint.cpp, the registration handlers of                    *)
(* src/atbus_msg_handler.cpp).                                              *)
(*                                                                         *)
(* A node with the mask m owns the 2^m ids that agree with its own above   *)
(* the low m bits; here a mask is given as the width 2^m of that domain.   *)
(* The node runs in one thread: a handler is one step.  The check calls    *)
(* back into the user's code, which may call the node, so it is several.   *)
(* Neither the node nor its peers are global routers.                      *)
(***************************************************************************)
EXTENDS Integers, FiniteSets

CONSTANTS
  Slots,      \* places for endpoint objects (bound: alive at the same time)
  None,       \* no endpoint
  Self,       \* the node's id
  SelfWidth,  \* and the width of its domain
  Peers,      \* [id, width, pid]: processes that may register
  Addresses,  \* what peers listen on: "trying" (streams), "local" (memory)
  MaxData     \* bound: data connections of an endpoint

Widths == {SelfWidth} \cup {p.width : p \in Peers}

ASSUME SelfAssumption == Self \in Nat /\ SelfWidth \in Nat \ {0} /\ None \notin Slots
ASSUME PeersAssumption ==
  \A p \in Peers : p.id \in Nat /\ p.width \in Nat \ {0} /\ p.pid # None
ASSUME WidthAssumption == \A v, w \in Widths : v <= w => w % v = 0
ASSUME BoundAssumption == MaxData \in Nat /\ Addresses \subseteq {"trying", "local"}

VARIABLES
  ep,         \* the endpoint objects
  father,     \* node_father_.node_
  children,   \* node_children_: endpoints by the last id of their domain
  brothers,   \* node_brother_
  pending,    \* event_timer_.pending_check_list_
  checked,    \* what the running check has still to look at
  checking,   \* proc is in its check ...
  event,      \* ... and on_endpoint_removed is being called
  ret,        \* what the last registration or call of the user was answered
  hz          \* history: the windows this behaviour has hit

tables == <<father, children, brothers>>
vars   == <<ep, tables, pending, checked, checking, event, ret, hz>>

-----------------------------------------------------------------------------
Kinds   == {"trying", "running", "local", "dead"}
NoData  == [k \in Kinds |-> 0]
Blank   == [id |-> 0, width |-> 1, pid |-> None, ctrl |-> "none", data |-> NoData]
Windows == {"callback", "cousin", "reused"}

Elements(coll) == {coll[k] : k \in DOMAIN coll}
Registered == ({father} \cup Elements(children) \cup Elements(brothers)) \ {None}
Alive      == Registered \cup pending \cup checked

\* The endpoint objects after a step; what nothing refers to any more is
\* destroyed.
Become(f) == ep' = [e \in Slots |-> IF e \in Alive' THEN f[e] ELSE Blank]

\* endpoint::is_child_node, get_children_max_id.
Covers(d, x) == x \div d.width = d.id \div d.width
MaxId(d)     == (d.id \div d.width) * d.width + d.width - 1

IsChild(id)  == id \div SelfWidth = Self \div SelfWidth
IsParent(id) == father # None /\ ep[father].id = id
IsBrother(id) ==
  /\ ~IsChild(id)
  /\ father # None => id \div ep[father].width = Self \div ep[father].width

\* endpoint::is_available.
Running(e) == ep[e].data["trying"] + ep[e].data["running"] + ep[e].data["local"]
Available(e) == ep[e].ctrl # "none" /\ Running(e) > 0

-----------------------------------------------------------------------------
\* The tables: std::map, searched with lower_bound.

\* The first key that is not less than id: a set with one element, or none.
LowerBound(coll, id) ==
  {k \in DOMAIN coll : k >= id /\ \A j \in DOMAIN coll : j >= id => k <= j}

\* The endpoint to which id belongs: also a set.
FindNearest(coll, id) == {coll[k] : k \in LowerBound(coll, id)} \* mutant
FindChild(coll, id) ==
  {e \in {coll[k] : k \in LowerBound(coll, id)} : ep[e].id = id \/ Covers(ep[e], id)}

\* insert_child refuses a domain that meets one in the table: the domains in
\* question are the next one and the one before it, or the last one.
Before(coll, k) == {j \in DOMAIN coll : j < k /\ \A i \in DOMAIN coll : i < k => i <= j}
CanInsertNext(coll, d) ==                                     \* mutant
  \A k \in LowerBound(coll, d.id) :
    /\ ep[coll[k]].id # d.id
    /\ ~Covers(ep[coll[k]], d.id) /\ ~Covers(d, ep[coll[k]].id)
CanInsertStrict(coll, d) ==                                   \* mutant
  \A k \in DOMAIN coll : k < d.id - d.width \/ k > MaxId(d) + d.width
CanInsert(coll, d) ==
  LET next == LowerBound(coll, d.id)
  IN  IF next = {}
      THEN \A k \in DOMAIN coll : (\A j \in DOMAIN coll : j <= k) => ~Covers(d, ep[coll[k]].id)
      ELSE \A k \in next :
             /\ ep[coll[k]].id # d.id
             /\ ~Covers(ep[coll[k]], d.id) /\ ~Covers(d, ep[coll[k]].id)
             /\ \A j \in Before(coll, k) : ~Covers(d, ep[coll[j]].id)

InsertById(coll, d, e) ==                                     \* mutant
  [k \in DOMAIN coll \cup {d.id} |-> IF k = d.id THEN e ELSE coll[k]]
Insert(coll, d, e) ==
  [k \in DOMAIN coll \cup {MaxId(d)} |-> IF k = MaxId(d) THEN e ELSE coll[k]]

WithoutNearest(coll, id) ==                                   \* mutant
  [k \in DOMAIN coll \ LowerBound(coll, id) |-> coll[k]]
Without(coll, id) ==
  [k \in DOMAIN coll \ {j \in LowerBound(coll, id) : ep[coll[j]].id = id} |-> coll[k]]

\* get_endpoint
Named(coll, id) == {e \in FindChild(coll, id) : ep[e].id = id}
GetEndpoint(id) ==
  IF IsParent(id) THEN {father}
  ELSE IF IsBrother(id) THEN Named(brothers, id)
  ELSE IF IsChild(id) THEN Named(children, id)
  ELSE {}

\* send_msg: the endpoint a message to id is given to (another node's id).
RouteTables(id) ==                                            \* mutant
  IF IsBrother(id) /\ FindChild(brothers, id) # {} THEN FindChild(brothers, id)
  ELSE IF IsChild(id) THEN FindChild(children, id)
  ELSE {father} \ {None}
Route(id) ==
  IF IsParent(id) THEN {father}
  ELSE IF IsBrother(id) /\ FindChild(brothers, id) # {} THEN FindChild(brothers, id)
  ELSE IF IsChild(id) THEN FindChild(children, id)
  ELSE {father} \ {None}

-----------------------------------------------------------------------------
Init ==
  /\ ep = [e \in Slots |-> Blank]
  /\ father = None /\ children = <<>> /\ brothers = <<>>
  /\ pending = {} /\ checked = {} /\ checking = FALSE /\ event = FALSE
  /\ ret = "OK" /\ hz = {}

\* add_endpoint: where the endpoint is put, or the error.
FatherLike(d) == d.width > SelfWidth /\ Covers(d, Self)
Placement(d) ==
  IF FatherLike(d) THEN IF father = None THEN "father" ELSE "INVALID_ID"
  ELSE IF IsBrother(d.id) THEN IF CanInsert(brothers, d) THEN "brother" ELSE "MASK_CONFLICT"
  ELSE IF IsChild(d.id) THEN IF CanInsert(children, d) THEN "child" ELSE "MASK_CONFLICT"
  ELSE "INVALID_ID"

\* on_recv_node_reg_req, a peer that is not known: a new endpoint is made, the
\* connection the request came from becomes its control connection, and data
\* connections to the peer's listen addresses are begun.  Those in memory or
\* shared memory are there at once, the others are being tried; an address may
\* fail at once.  An endpoint without any will be checked.
Register(p, where) ==
  /\ father'   = IF where = "father" THEN CHOOSE e \in Slots : e \notin Alive ELSE father
  /\ brothers' = IF where = "brother"
                 THEN Insert(brothers, p, CHOOSE e \in Slots : e \notin Alive) ELSE brothers
  /\ children' = IF where = "child"
                 THEN Insert(children, p, CHOOSE e \in Slots : e \notin Alive) ELSE children
  /\ \E begun \in [Kinds -> 0 .. MaxData] :
       LET e == CHOOSE s \in Slots : s \notin Alive
       IN  /\ \A k \in Kinds \ Addresses : begun[k] = 0
           /\ begun["trying"] + begun["local"] <= MaxData
           /\ pending' = IF begun = NoData THEN pending \cup {e} ELSE pending
           /\ UNCHANGED checked
           /\ Become([ep EXCEPT ![e] = [id |-> p.id, width |-> p.width, pid |-> p.pid,
                                       ctrl |-> "up", data |-> begun]])
  /\ ret' = "OK"
  /\ hz' = hz \cup (IF \E e \in pending \cup checked : ep[e].id = p.id
                    THEN {"reused"} ELSE {})
              \cup (IF where = "father" /\ \E b \in Elements(brothers) : ~Covers(p, ep[b].id)
                    THEN {"cousin"} ELSE {})

\* The same from a peer that is known: another connection for its endpoint, if
\* it is the same process.
Join(p, e) ==
  /\ IF p.pid # ep[e].pid
     THEN ret' = "ID_CONFLICT" /\ UNCHANGED ep
     ELSE /\ ret' = "OK"
          /\ IF ep[e].ctrl = "none"
             THEN ep' = [ep EXCEPT ![e].ctrl = "up"]
             ELSE /\ Running(e) + ep[e].data["dead"] < MaxData
                  /\ ep' = [ep EXCEPT ![e].data["running"] = @ + 1]
  /\ UNCHANGED <<tables, pending, checked, hz>>

Refuse(code) == ret' = code /\ UNCHANGED <<ep, tables, pending, checked, hz>>

RegReq(p) ==
  /\ ~checking /\ UNCHANGED <<checking, event>>
  /\ \/ \E e \in GetEndpoint(p.id) : Join(p, e)
     \/ /\ GetEndpoint(p.id) = {}
        /\ IF IsChild(p.id) /\ SelfWidth <= p.width THEN Refuse("MASK_CONFLICT")
           ELSE IF Placement(p) \in {"MASK_CONFLICT", "INVALID_ID"} THEN Refuse(Placement(p))
           ELSE Alive # Slots /\ Register(p, Placement(p))

-----------------------------------------------------------------------------
\* Connections.  endpoint::reset drops all of them and has the endpoint checked.
ResetOf(e) == [ep EXCEPT ![e].ctrl = "none", ![e].data = NoData]

ResetUnlisted(e) == UNCHANGED <<pending, checked>> /\ Become(ResetOf(e)) \* mutant
Reset(e) == pending' = pending \cup {e} /\ UNCHANGED checked /\ Become(ResetOf(e))

Quiet == ~checking /\ UNCHANGED <<checking, event, checked, tables, hz>>

\* on_recv_node_reg_rsp with an error: the connection is disconnected, and stays
\* with its endpoint, which will be checked.
RegRspError(e) ==
  /\ Quiet /\ ret' = "OK"
  /\ pending' = pending \cup {e}
  /\ \/ ep[e].ctrl = "up" /\ ep' = [ep EXCEPT ![e].ctrl = "dead"]
     \/ /\ ep[e].data["running"] > 0
        /\ ep' = [ep EXCEPT ![e].data["running"] = @ - 1, ![e].data["dead"] = @ + 1]

\* A connection is lost: iostream_on_disconnected, connection::reset, and
\* endpoint::remove_connection.
CtrlLost(e) ==
  /\ Quiet /\ ret' = "OK" /\ ep[e].ctrl = "up"
  /\ Reset(e)

DataLost(e, kind) ==
  LET left == [ep[e].data EXCEPT ![kind] = @ - 1]
  IN  /\ Quiet /\ ret' = "OK" /\ ep[e].data[kind] > 0
      /\ IF left = NoData THEN Reset(e)
         ELSE ep' = [ep EXCEPT ![e].data = left] /\ UNCHANGED pending

\* A data connection that was being tried is there (iostream_on_connected_cb).
DataUp(e) ==
  /\ Quiet /\ ret' = "OK" /\ ep[e].data["trying"] > 0
  /\ ep' = [ep EXCEPT ![e].data["trying"] = @ - 1, ![e].data["running"] = @ + 1]
  /\ UNCHANGED pending

-----------------------------------------------------------------------------
\* remove_endpoint, by id.
Removed(id) ==
  IF IsParent(id) THEN <<None, children, brothers>>
  ELSE IF IsBrother(id) THEN <<father, children, Without(brothers, id)>>
  ELSE IF IsChild(id) THEN <<father, Without(children, id), brothers>>
  ELSE tables

RemoveEndpoint(id) ==
  /\ father' = Removed(id)[1] /\ children' = Removed(id)[2] /\ brothers' = Removed(id)[3]
  /\ ret' = IF Removed(id) # tables THEN "OK"
            ELSE IF IsBrother(id) \/ IsChild(id) THEN "NOT_FOUND" ELSE "INVALID_ID"

\* add_endpoint_fault, beyond fault_tolerant (or a call of the user).
Fault(e) ==
  /\ ~checking /\ UNCHANGED <<checking, event, checked, pending, hz>>
  /\ RemoveEndpoint(ep[e].id) /\ Become(ep)

\* node::disconnect.  What it takes out of a table for a child is what
\* remove_child(node_brother_, id) finds (437).
Disconnect(id) ==
  \/ /\ IsParent(id)
     /\ father' = None /\ UNCHANGED <<children, brothers>>
     /\ Reset(father) /\ ret' = "OK"
  \/ /\ ~IsParent(id) /\ \E e \in Named(brothers, id) \cup Named(children, id) :
          /\ Named(brothers, id) # {} => e \in Named(brothers, id)
          /\ brothers' = Without(brothers, id)
          /\ UNCHANGED <<father, children>>
          /\ Reset(e) /\ ret' = "OK"
  \/ /\ ~IsParent(id) /\ Named(brothers, id) \cup Named(children, id) = {}
     /\ UNCHANGED <<ep, tables, pending, checked>> /\ ret' = "NOT_FOUND"

UserDisconnect(id) ==
  /\ ~checking /\ Disconnect(id) /\ UNCHANGED <<checking, event, hz>>

-----------------------------------------------------------------------------
\* The end of node::proc.
CheckBegin ==
  /\ ~checking /\ pending # {}
  /\ checking' = TRUE /\ checked' = pending /\ pending' = {} /\ event' = FALSE
  /\ ret' = "OK" /\ UNCHANGED <<ep, tables, hz>>

\* An endpoint that is not available is reset and removed.
CheckOne(e) ==
  /\ checking /\ checked' = checked \ {e}
  /\ IF Available(e)
     THEN /\ event' = FALSE /\ ret' = "OK"
          /\ UNCHANGED <<tables, pending>> /\ Become(ep)
     ELSE /\ pending' = pending \cup {e}
          /\ RemoveEndpoint(ep[e].id)
          /\ event' = (tables' # tables)
          /\ Become(ResetOf(e))
  /\ UNCHANGED <<checking, hz>>

\* on_endpoint_removed runs; the user disconnects somebody else.
Callback(id) ==
  /\ checking /\ event /\ event' = FALSE
  /\ Disconnect(id) /\ ret' = "OK"
  /\ hz' = hz \cup {"callback"} /\ UNCHANGED checking

\* pending_check_list_ is cleared once more.
CheckEnd ==
  /\ checking /\ checked = {}
  /\ checking' = FALSE /\ event' = FALSE /\ pending' = {}
  /\ ret' = "OK" /\ UNCHANGED <<tables, checked, hz>> /\ Become(ep)

Ids == {p.id : p \in Peers}

Next ==
  \/ \E p \in Peers : RegReq(p)
  \/ \E e \in Alive :
       \/ RegRspError(e) \/ CtrlLost(e) \/ DataUp(e) \/ Fault(e)
       \/ \E kind \in {"trying", "running"} : DataLost(e, kind)
  \/ \E id \in Ids : UserDisconnect(id) \/ Callback(id)
  \/ CheckBegin \/ CheckEnd
  \/ \E e \in checked : CheckOne(e)

Spec == Init /\ [][Next]_vars
-----------------------------------------------------------------------------
EpType == [id : Nat, width : Nat \ {0}, pid : {p.pid : p \in Peers} \cup {None},
           ctrl : {"none", "up", "dead"}, data : [Kinds -> Nat]]

\* The tables are keyed by the last id of each domain, and everything they and
\* the check list refer to is an endpoint that has not been destroyed.
TypeOK ==
  /\ ep \in [Slots -> EpType]
  /\ father \in Slots \cup {None}
  /\ \A coll \in {children, brothers} :
       /\ Elements(coll) \subseteq Slots
       /\ \A k \in DOMAIN coll : k = MaxId(ep[coll[k]])
  /\ pending \subseteq Slots /\ checked \subseteq Slots
  /\ \A e \in Alive : ep[e].pid # None
  /\ checking \in BOOLEAN /\ event \in BOOLEAN
  /\ ret \in {"OK", "NOT_FOUND", "INVALID_ID", "MASK_CONFLICT", "ID_CONFLICT"}
  /\ hz \subseteq Windows

Hit(windows) == hz \cap windows # {}

\* Two domains have an id in common.
Meet(d, f) == Covers(d, f.id) \/ Covers(f, d.id)

\* No id belongs to two children, or to two brothers, or to a child and a
\* brother, whatever the order in which they register and leave.
DomainsDisjoint ==
  \A e, f \in Elements(children) \cup Elements(brothers) :
    e # f => ~Meet(ep[e], ep[f])

\* The lookup by upper bounds finds the endpoint to which an id belongs, for
\* each id of each registered domain, and no other.
FindsOwner ==
  \A coll \in {children, brothers} :
    \A id \in 0 .. SelfWidth + Self :
      FindChild(coll, id) = {e \in Elements(coll) : Covers(ep[e], id)}

\* A message to a peer that is registered directly goes to that peer, though
\* domains of a father, brothers and children contain one another.
DirectRoute ==
  ~Hit({"cousin"}) =>
    \A e \in Registered : ep[e].id # Self => Route(ep[e].id) = {e}

\* An endpoint that was reset and is still registered is going to be checked
\* (and so taken out of its table), unless the list was cleared under it.
ResetIsPending ==
  ~Hit({"callback", "cousin"}) =>
    \A e \in Registered : ep[e].ctrl = "none" => e \in pending \cup checked

\* A check takes out only what is not available, unless an id was registered
\* again before an earlier endpoint with it was checked.
KeepsAvailable ==
  [][checked \ checked' # {} /\ ~Hit({"reused"}) =>
       \A f \in Registered : Available(f) => f \in Registered']_vars

\* A registration is refused only for a conflict with something that is there.
RefusalJustified ==
  [][ret' = "MASK_CONFLICT" =>
       \A p \in Peers : RegReq(p) =>
         \/ p.width >= SelfWidth /\ IsChild(p.id)
         \/ \E e \in Registered : Meet(p, ep[e])]_vars

=============================================================================
