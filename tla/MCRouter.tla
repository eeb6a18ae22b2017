------------------------------ MODULE MCRouter ------------------------------
(* A router of a ring of 2^4 identifiers whose node sits near the end of   *)
(* the ring, so that intervals wrap, told of peers close by, far away and  *)
(* just behind it, and of itself under another endpoint.                   *)
EXTENDS Router

CONSTANTS SelfUuid, PeerUuids, Aliased, Own, Seen

MCSelf == [uuid |-> SelfUuid, endpoint |-> Own]
MCPeers == {[uuid |-> u, endpoint |-> Own] : u \in PeerUuids \cup {SelfUuid}}
           \cup {[uuid |-> u, endpoint |-> Seen] : u \in Aliased}
=============================================================================
