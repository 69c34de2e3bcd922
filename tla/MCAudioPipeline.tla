-------------------------- MODULE MCAudioPipeline --------------------------
EXTENDS AudioPipeline

(* One of them out of range. *)
Offsets == {-2, -1, 0}
=============================================================================
