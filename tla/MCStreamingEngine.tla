------------------------- MODULE MCStreamingEngine -------------------------
(* Instances of StreamingEngine for TLC. *)
EXTENDS StreamingEngine
=============================================================================
