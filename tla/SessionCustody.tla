--------------------------- MODULE SessionCustody ---------------------------
(***************************************************************************)
(* What the probe's transport promises the application about a finished    *)
(* recording (the header of transport/collector-client.ts), without        *)
(* buffers, retries, breaker or disk: from the moment it is accepted it is *)
(* held, until the collector has it or it is given up openly.              *)
(***************************************************************************)
EXTENDS Naturals, FiniteSets

CONSTANT Session   \* numbered in the order they complete

VARIABLES
    status,  \* what became of each session
    stored   \* the sessions the collector has

custodyVars == <<status, stored>>

Init ==
    /\ status = [s \in Session |-> "new"]
    /\ stored = {}

\* Delivered, local and lost are final.
Moves ==
    {<<"new", "held">>, <<"new", "local">>, <<"new", "lost">>,
     <<"held", "delivered">>, <<"held", "lost">>}

Moved == {s \in Session : status'[s] # status[s]}
Accepted == {s \in Moved : status[s] = "new"}

\* Sessions are accepted one at a time, in their order.
AcceptsNext ==
    \A s \in Accepted : \A t \in Session \ {s} : t < s <=> status[t] # "new"

\* Any number of held sessions may be delivered, or lost, in a step.  Only what
\* is held can reach the collector, and only what has reached it is delivered.
Next ==
    /\ \A s \in Moved : <<status[s], status'[s]>> \in Moves
    /\ AcceptsNext
    /\ stored \subseteq stored'
    /\ \A s \in stored' \ stored : status[s] = "held"
    /\ \A s \in Moved : status'[s] = "delivered" => s \in stored'

Spec == Init /\ [][Next]_custodyVars

=============================================================================
