------------------------------ MODULE MCReplay ------------------------------
(* A bounded instance of Replay: two engines and handlers of two operations. *)
EXTENDS Replay

MCMarker == [type |-> "custom", result |-> [of |-> 0, intact |-> FALSE]]

Symmetry == Permutations(Engine)
=============================================================================
