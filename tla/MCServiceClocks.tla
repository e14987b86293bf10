-------------------------- MODULE MCServiceClocks --------------------------
(* A bounded instance of ServiceClocks: two services, one of which records more. *)
EXTENDS ServiceClocks

CONSTANTS n1, n2

MCNode == {n1, n2}
MCMaxStamps == [n \in MCNode |-> IF n = n1 THEN 3 ELSE 1]
=============================================================================
