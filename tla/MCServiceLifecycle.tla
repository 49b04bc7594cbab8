------------------------- MODULE MCServiceLifecycle -------------------------
(* ServiceLifecycle on small instances. *)
EXTENDS ServiceLifecycle
=============================================================================
