---------------------------- MODULE MCIperfServer ----------------------------
(* IperfServer for TLC: a first client and one that connects behind it.       *)
EXTENDS IperfServer, TLC

MCParams == {[k \in {"tcp"} |-> 1], [k \in {"udp"} |-> 1]}

=============================================================================
