---------------------------- MODULE MCLicensing ----------------------------
EXTENDS Licensing
MCTypeOf == [e \in Event |-> IF e = "e1" THEN "paid" ELSE "cancelled"]
MCTierOf == [e \in Event |-> "pro"]
MCAsked == {[features |-> {"audit_log"}, maxServices |-> 5, maxEventsPerDay |-> 500]}
=============================================================================
