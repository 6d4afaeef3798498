---------------------------- MODULE MCIperfAccept ----------------------------
(* IperfAccept for TLC: three connections, the parameters of a TCP test in    *)
(* both directions, one with a duration, of a TCP test whose title is no      *)
(* string, of a UDP test, and none.                                           *)
EXTENDS IperfAccept, TLC

MCParams ==
  {[k \in {"tcp"} |-> 1],
   [k \in {"tcp", "reverse", "time"} |-> IF k = "time" THEN 3 ELSE 1],
   [k \in {"tcp", "title"} |-> IF k = "title" THEN 0 ELSE 1],
   [k \in {"udp"} |-> 1],
   [k \in {} |-> 0]}

Symmetry == Permutations(Peer)

=============================================================================
