---------------------------- MODULE ControlSession ----------------------------
(* What the control channel of the server promises, without its sockets,      *)
(* frames or descriptor: one peer at a time owns the test; the owner is       *)
(* offered a parameter exchange and then either gets its streams or an error; *)
(* any other peer is turned away, and only while a test is under way, never   *)
(* in the middle of the owner's exchange. An owner keeps the test for good:   *)
(* no code in the tree ever releases the control socket.                      *)
CONSTANTS Peer, NoPeer

VARIABLES owner, answer

Answers == {"none", "offered", "created", "refused", "denied"}

Init == owner = NoPeer /\ answer = [p \in Peer |-> "none"]

Claim(p) ==
  /\ owner = NoPeer
  /\ owner' = p
  /\ UNCHANGED answer

Reply(p, from, to) ==
  /\ answer[p] = from
  /\ answer' = [answer EXCEPT ![p] = to]
  /\ UNCHANGED owner

Offer  == owner # NoPeer /\ Reply(owner, "none", "offered")
Create == owner # NoPeer /\ Reply(owner, "offered", "created")
Refuse == owner # NoPeer /\ Reply(owner, "offered", "refused")

Deny(p) ==
  /\ owner \notin {NoPeer, p}
  /\ answer[owner] = "created"
  /\ Reply(p, "none", "denied")

Next ==
  \/ \E p \in Peer : Claim(p) \/ Deny(p)
  \/ Offer \/ Create \/ Refuse

Spec == Init /\ [][Next]_<<owner, answer>>

=============================================================================
