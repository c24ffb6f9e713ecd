--------------------------- MODULE MCBeaconManager ---------------------------
(* Three peers, two of them beacons, a primary network and one subnet.     *)
(* RequiredConns is (3 * 2 + 3) / 4 = 2, the node's quorum of two beacons. *)
EXTENDS BeaconManager

MCNodes == {"b1", "b2", "n1"}
MCBeacons == {"b1", "b2"}
MCSubnets == {"P", "S"}
=============================================================================
