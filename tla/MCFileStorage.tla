--------------------------- MODULE MCFileStorage ---------------------------
(* Bounded instances of FileStorage. *)
EXTENDS FileStorage

CONSTANTS s1, s2

\* Two sessions of one trace.
OneTrace == s1 :> "t1" @@ s2 :> "t1"
=============================================================================
