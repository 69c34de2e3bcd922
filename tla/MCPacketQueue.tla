--------------------------- MODULE MCPacketQueue ---------------------------
(* Two producers, two consumers and a clearer on a queue of two packets.   *)
EXTENDS PacketQueue, TLC

(* Producers are interchangeable, and so are consumers. *)
Symmetry == Permutations(Producers) \cup Permutations(Consumers)
=============================================================================
