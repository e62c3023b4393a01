---------------------------- MODULE MCForwarding ----------------------------
(***************************************************************************)
(* A root with two children, one of them with a child of its own.  The id    *)
(* "y" lies in nobody's domain.  The node a forwards over fewer hops.        *)
(***************************************************************************)
EXTENDS Forwarding

Tree    == [f |-> None, a |-> "f", b |-> "f", g |-> "a"]
Domains == [f |-> {"f", "a", "b", "g"}, a |-> {"a", "g"}, b |-> {"b"}, g |-> {"g"}]
Hops    == [f |-> 3, a |-> 2, b |-> 3, g |-> 3]
Everyone   == DOMAIN Tree
Everywhere == Everyone \cup {"y"}
=============================================================================
