---------------------------- MODULE MCActionGateway ----------------------------
(* Instances of ActionGateway for TLC: two calls, of different kinds. *)
EXTENDS GatewayContract, TLC

CONSTANTS c1, c2, d1, d2, s1, s2, s3

\* The stops bound the generation; the model needs no other bound.
\* Decisions differ in nothing but their identity.
DecisionSymmetry == Permutations({d1, d2})

\* DORMANT, THINKING and the listening voice manager, which never admits a request.
AmbientStates == {"DORMANT", "THINKING", "LISTENING", "TRANSCRIBING"}
================================================================================
