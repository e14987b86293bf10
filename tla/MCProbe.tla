------------------------------ MODULE MCProbe ------------------------------
(* A bounded instance of Probe: every kind of sampling is on, at a base     *)
(* rate of 0, so that only forceRecord() makes a random draw win.          *)
EXTENDS Probe

MCConfigs == {[rate |-> 0, newPaths |-> TRUE, errors |-> TRUE, upstream |-> TRUE,
               latency |-> TRUE, adaptive |-> TRUE]}

Symmetry == Permutations(Request)
=============================================================================
