-------------------------- MODULE MCBufferManager --------------------------
(* Model-checking instance of BufferManager: the constants are in the cfgs. *)
EXTENDS BufferManager
=============================================================================
