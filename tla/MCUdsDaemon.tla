---------------------------- MODULE MCUdsDaemon ----------------------------
(* An instance of UdsDaemon: two clients, "local." and one wide-area       *)
(* domain.                                                                 *)
EXTENDS UdsDaemon, TLC
CONSTANTS c1, c2, r1, r2, r3, i1, i2, k1

Alike == Permutations(Clients)
=============================================================================
