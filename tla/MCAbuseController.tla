------------------------- MODULE MCAbuseController --------------------------
(* Small instances of AbuseController for TLC. *)
EXTENDS AbuseController
=============================================================================
