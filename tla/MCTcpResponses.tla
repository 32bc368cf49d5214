---------------------------- MODULE MCTcpResponses ----------------------------
(* Instances of TcpResponses for TLC: the error simulations the user sets. *)
EXTENDS TcpResponses

Respond(delays) == [noResponse |-> FALSE, delays |-> delays]
Mute == [noResponse |-> TRUE, delays |-> {0}]

\* At once, after a fixed delay, after a random delay.
AllSettings == {Respond({0}), Respond({2}), Respond({0, 1, 2}), Mute}
=============================================================================
