----------------------------- MODULE DesktopInput -----------------------------
(***************************************************************************)
(* Keys and pointer buttons (desktop/input.py): key, click, type_text and  *)
(* gesture press inputs at the compositor through its portal session, one  *)
(* operation at a time under _lock, and release whatever they hold when    *)
(* they end.  Every call to the portal is made by a thread, which goes on  *)
(* when the coroutine that waits for it is cancelled.                      *)
(*                                                                         *)
(* An operation may fail or be cancelled at each of its awaits, any number *)
(* of times; a call may fail before or after the compositor has accepted   *)
(* it.  Left out: targets, positions and motion, which are reasons to      *)
(* fail, and the handshake of connect: a grant may appear at any time.     *)
(***************************************************************************)
EXTENDS Naturals

CONSTANT Inputs

VARIABLES
  at,         \* where the operation that holds _lock is suspended
  held,       \* the inputs it has to release
  errors,     \* a release of them was not acknowledged
  call,       \* the call it waits for: an input and whether it is pressed
  result,     \* what has become of that call
  strays,     \* calls that nobody waits for any more
  closes,     \* how many threads are to close the session
  connected,  \* there is a granted session
  cancelled,  \* _cancelled
  down,       \* the compositor: the inputs that are pressed in the session
  strayed,    \* ghost: the inputs of abandoned presses
  late        \* ghost: how many presses began after _cancelled was last set

opVars == <<at, held, errors, call, result>>
portalVars == <<connected, cancelled, down>>
vars == <<opVars, strays, closes, portalVars, strayed, late>>

Init ==
  /\ at = "free" /\ held = {} /\ errors = FALSE /\ call = {} /\ result = "none"
  /\ strays = {} /\ closes = 0
  /\ connected = FALSE /\ cancelled = FALSE /\ down = {} /\ strayed = {} /\ late = 0

Calls == Inputs \X BOOLEAN

\* The first time, presses are counted anew.
SetCancelled == cancelled' = TRUE /\ late' = IF cancelled THEN late ELSE 0

--------------------------------------------------------------------------------
(* The operations                                                            *)

Start ==
  /\ at = "free" /\ at' = "between" /\ errors' = FALSE
  /\ UNCHANGED <<held, call, result, strays, closes, portalVars, strayed, late>>

\* gesture: the target is asked for between the check and the event.
CheckEvent ==
  /\ at = "between" /\ ~cancelled /\ at' = "targeting"
  /\ UNCHANGED <<held, errors, call, result, strays, closes, portalVars, strayed, late>>

\* _press_release checks at once; what is to be pressed is remembered first.
Press(k) ==
  /\ at = "targeting" \/ (at = "between" /\ ~cancelled)
  /\ k \notin held /\ held' = held \cup {k}
  /\ at' = "sending" /\ call' = {<<k, TRUE>>} /\ result' = "none"
  /\ late' = IF cancelled THEN late + 1 ELSE late
  /\ UNCHANGED <<errors, strays, closes, portalVars, strayed>>

\* A release within a gesture.
Release(k) ==
  /\ at = "targeting" /\ k \in held
  /\ at' = "sending" /\ call' = {<<k, FALSE>>} /\ result' = "none"
  /\ UNCHANGED <<held, errors, strays, closes, portalVars, strayed, late>>

\* Another event, or none: a move, a pause.
Pass ==
  /\ at = "targeting" /\ at' = "between"
  /\ UNCHANGED <<held, errors, call, result, strays, closes, portalVars, strayed, late>>

\* The end of the body, a failed check or a cancellation between two calls.
Leave ==
  /\ at \in {"between", "targeting"} /\ at' = "releasing"
  /\ UNCHANGED <<held, errors, call, result, strays, closes, portalVars, strayed, late>>

--------------------------------------------------------------------------------
(* _send_ordered                                                             *)

Sent ==
  /\ at = "sending" /\ result = "ok" /\ at' = "between"
  /\ held' = {k \in held : <<k, FALSE>> \notin call} /\ call' = {} /\ result' = "none"
  /\ UNCHANGED <<errors, strays, closes, portalVars, strayed, late>>

\* The call has failed, or it was cancelled and has settled.
SendEnds ==
  /\ (at = "sending" /\ result = "error") \/ (at = "settling" /\ result # "none")
  /\ at' = "releasing" /\ call' = {} /\ result' = "none"
  /\ UNCHANGED <<held, errors, strays, closes, portalVars, strayed, late>>

\* A cancelled call is waited for.
CancelSend ==
  /\ at \in {"sending", "unsending"}
  /\ at' = IF at = "sending" THEN "settling" ELSE "unsettling"
  /\ UNCHANGED <<held, errors, call, result, strays, closes, portalVars, strayed, late>>

\* A second cancellation is not caught: the thread goes on alone.
Abandon ==
  /\ at \in {"settling", "unsettling"}
  /\ IF result = "none"
       THEN strays' = strays \cup call /\ strayed' = strayed \cup {k \in Inputs : <<k, TRUE>> \in call}
       ELSE UNCHANGED <<strays, strayed>>
  /\ at' = "releasing" /\ errors' = (errors \/ at = "unsettling")
  /\ call' = {} /\ result' = "none"
  /\ UNCHANGED <<held, closes, portalVars, late>>

--------------------------------------------------------------------------------
(* _release_inputs                                                           *)

ReleaseNext(k) ==
  /\ at = "releasing" /\ k \in held
  /\ at' = "unsending" /\ held' = held \ {k} /\ call' = {<<k, FALSE>>} /\ result' = "none"
  /\ UNCHANGED <<errors, strays, closes, portalVars, strayed, late>>

ReleaseEnds ==
  /\ at \in {"unsending", "unsettling"} /\ result # "none"
  /\ at' = "releasing" /\ errors' = (errors \/ at = "unsettling" \/ result = "error")
  /\ call' = {} /\ result' = "none"
  /\ UNCHANGED <<held, strays, closes, portalVars, strayed, late>>

\* The next character or click follows, or the operation ends; whether an exception
\* is on its way is left open.  Without an acknowledgement the grant is given
\* back, by a thread that a cancellation does not stop.
ReleasesEnd ==
  /\ at = "releasing" /\ held = {}
  /\ IF errors THEN at' = "revoking" /\ closes' = closes + 1
               ELSE at' \in {"between", "free"} /\ UNCHANGED closes
  /\ UNCHANGED <<held, errors, call, result, strays, portalVars, strayed, late>>

Revoked ==
  /\ at = "revoking" /\ at' = "free"
  /\ UNCHANGED <<held, errors, call, result, strays, closes, portalVars, strayed, late>>

--------------------------------------------------------------------------------
(* connect, close and cancel_current                                         *)

Connect ==
  /\ ~connected /\ connected' = TRUE /\ down' = {}
  /\ UNCHANGED <<opVars, strays, closes, cancelled, strayed, late>>

\* connect, before it asks the user; not when it finds a session.
ClearCancelled ==
  /\ ~connected /\ cancelled' = FALSE
  /\ UNCHANGED <<opVars, strays, closes, connected, down, strayed, late>>

CancelCurrent ==
  /\ SetCancelled
  /\ UNCHANGED <<opVars, strays, closes, connected, down, strayed>>

\* The flag is set before the lock is awaited: see CancelCurrent.
Close ==
  /\ at = "free" /\ at' = "closing" /\ closes' = closes + 1
  /\ UNCHANGED <<held, errors, call, result, strays, portalVars, strayed, late>>

\* The thread has ended, or the wait is cancelled: the thread may go on, unless it
\* has not begun.
CloseEnds ==
  /\ at = "closing" /\ at' = "free"
  /\ closes' = closes \/ (closes > 0 /\ closes' = closes - 1)
  /\ UNCHANGED <<held, errors, call, result, strays, portalVars, strayed, late>>

--------------------------------------------------------------------------------
(* The threads                                                               *)

\* What the compositor makes of an accepted call.
Apply(c) == IF c[2] THEN down \cup {c[1]} ELSE down \ {c[1]}

\* RemoteDesktopPortal.notify.  A call that fails, accepted or not, closes the session,
\* which ends what is pressed in it.
Accepted(c) ==
  connected /\ down' = Apply(c) /\ UNCHANGED <<connected, cancelled, late>>
Refused == ~connected /\ UNCHANGED <<connected, down>> /\ (SetCancelled \/ UNCHANGED <<cancelled, late>>)
Broken == connected /\ connected' = FALSE /\ down' = {} /\ SetCancelled

Deliver(c) ==
  /\ c \in call /\ result = "none"
  /\ \/ Accepted(c) /\ result' = "ok"
     \/ (Refused \/ Broken) /\ result' = "error"
  /\ UNCHANGED <<at, held, errors, call, strays, closes, strayed>>

DeliverStray(c) ==
  /\ c \in strays /\ strays' = strays \ {c} /\ (Accepted(c) \/ Refused \/ Broken)
  /\ UNCHANGED <<opVars, closes, strayed>>

\* RemoteDesktopPortal.close.
CloseSession ==
  /\ closes > 0 /\ closes' = closes - 1
  /\ connected' = FALSE /\ down' = {} /\ SetCancelled
  /\ UNCHANGED <<opVars, strays, strayed>>

\* The compositor ends the session; the next call finds out (Refused).
SessionClosed ==
  /\ connected /\ connected' = FALSE /\ down' = {}
  /\ UNCHANGED <<opVars, strays, closes, cancelled, strayed, late>>

Next ==
  \/ Start \/ CheckEvent \/ Pass \/ Leave \/ Sent \/ SendEnds \/ CancelSend \/ Abandon
  \/ ReleaseEnds \/ ReleasesEnd \/ Revoked
  \/ Connect \/ ClearCancelled \/ CancelCurrent \/ Close \/ CloseEnds
  \/ CloseSession \/ SessionClosed
  \/ \E k \in Inputs : Press(k) \/ Release(k) \/ ReleaseNext(k)
  \/ \E c \in Calls : Deliver(c) \/ DeliverStray(c)

Spec == Init /\ [][Next]_vars

--------------------------------------------------------------------------------
(* Properties *)

\* HeldReleased (_press_release, _release_inputs, gesture): an operation that has
\* ended, however it was cancelled and whatever failed, has left no key or button
\* pressed, or a thread is about to close the session; but for an input whose press
\* was abandoned by a second cancellation, and may overtake its release.
HeldReleased == at = "free" /\ closes = 0 => down \subseteq strayed

\* PressesStop (_raise_if_cancelled): once cancel_current was called at most one more
\* press is begun, the one whose target is being looked for, until connect clears the
\* flag.
PressesStop == cancelled => late <= 1
================================================================================
