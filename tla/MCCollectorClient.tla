------------------------- MODULE MCCollectorClient -------------------------
(* Bounded instances of CollectorClient; the bounds are in the .cfg files. *)
EXTENDS CollectorClient
=============================================================================
