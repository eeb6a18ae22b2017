------------------------------ MODULE MCOverlay ------------------------------
(* A handful of peers on a ring of 2^4 identifiers.  The ring 0, 4, 8, 12  *)
(* is the one of config/node0.yml to node3.yml: node1 and node2 join node0 *)
(* which creates the ring, node3 joins node1.                              *)
EXTENDS Overlay, TLC

MCJoinAddr == [u \in Members \ Bootstrap |-> IF u = 12 THEN 4 ELSE Root]

(* node0 is configured to join node1.                                      *)
ConfigJoinAddr == MCJoinAddr @@ 0 :> 4

ASSUME SpreadAssumption == Spread

ASSUME CreatorAssumption == OneCreator
=============================================================================
