-------------------------- MODULE MCCollectorServer --------------------------
(* Bounded instances of CollectorServer. *)
EXTENDS CollectorServer

CONSTANTS s1, s2, s3, s4

\* With a cap of one session per trace, s1 and s2 exclude each other.
Traces == s1 :> "t1" @@ s2 :> "t1" @@ s3 :> "t2" @@ s4 :> "t3"
=============================================================================
