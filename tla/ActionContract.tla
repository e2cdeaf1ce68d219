----------------------------- MODULE ActionContract ----------------------------
(***************************************************************************)
(* What the action gateway promises its users, without its handlers, tasks *)
(* and awaits.  Each requested action holds a ticket.  Consent moves it to *)
(* granted: at once for an ordinary tool, through a proposal for one that  *)
(* needs a confirmation.  An action is executed on a granted ticket only,  *)
(* a ticket is used once, and a stop voids every ticket granted before it. *)
(***************************************************************************)
CONSTANTS Calls, Confirmed

VARIABLE ticket

Tickets == {"new", "proposed", "granted", "executed", "closed"}

Init == ticket = [c \in Calls |-> "new"]

Move(c, from, to) ==
  /\ ticket[c] \in from
  /\ ticket' = [ticket EXCEPT ![c] = to]

Propose(c) == c \in Confirmed /\ Move(c, {"new"}, "proposed")

Grant(c) == Move(c, {IF c \in Confirmed THEN "proposed" ELSE "new"}, "granted")

Execute(c) == Move(c, {"granted"}, "executed")

\* Refused, denied, expired, cancelled or failed before its execution.
Close(c) == Move(c, {"new", "proposed", "granted"}, "closed")

Stop == ticket' = [c \in Calls |-> IF ticket[c] = "granted" THEN "closed" ELSE ticket[c]]

Next == Stop \/ \E c \in Calls : Propose(c) \/ Grant(c) \/ Execute(c) \/ Close(c)

Spec == Init /\ [][Next]_ticket
================================================================================
