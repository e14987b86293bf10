---------------------------- MODULE MCAdmission ----------------------------
(* A bounded instance of Admission: three addresses and room for two buckets. *)
EXTENDS Admission
=============================================================================
