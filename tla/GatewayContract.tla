---------------------------- MODULE GatewayContract ----------------------------
(* The gateway implements the contract: the refinement mapping. *)
EXTENDS ActionGateway

\* Handler h carries the consent to its call, and no stop has come since.
HoldsGrant(h) ==
  /\ ~Stale(h)
  /\ \/ pc[h] \in {"authorising", "approving", "spawned", "starting"}
     \/ h \in Calls \ Confirmed /\ pc[h] = "lookup"

TicketOf(c) ==
  IF \E h \in dispatched : subject[h] = c THEN "executed"
  ELSE IF \E h \in Handlers : subject[h] = c /\ HoldsGrant(h) THEN "granted"
  ELSE IF Live(c) THEN "proposed"
  ELSE IF pc[c] = "idle" \/ (c \in Confirmed /\ pc[c] \in {"lookup", "review"}) THEN "new"
  ELSE "closed"

Ticket == [c \in Calls |-> TicketOf(c)]

Contract == INSTANCE ActionContract WITH ticket <- Ticket

\* The gateway keeps its contract: consent once, at most one execution, and no
\* execution on a consent that a stop has voided.
KeepsContract == Contract!Spec
================================================================================
