----------------------------- MODULE ActionGateway -----------------------------
(***************************************************************************)
(* The action gateway of the assistant core: CarlosCore.request_tool,      *)
(* resolve_confirmation, execute_tool and _stop_all_actions (service.py)   *)
(* with the PermissionBroker (permissions.py) and the privacy policy       *)
(* (privacy.py) they consult.                                              *)
(*                                                                         *)
(* Every handler is an asyncio coroutine of one event loop.  What the code *)
(* does between two awaits is one action here; pc says at which await the  *)
(* coroutine is suspended.  A handler is either a tool request (Calls) or  *)
(* a decision a client sends about a confirmation (Decisions); both end in *)
(* the same execute_tool task.                                             *)
(***************************************************************************)
EXTENDS CoreState, Naturals, FiniteSets

CONSTANTS
  Calls,       \* tool requests
  Decisions,   \* permission.resolve requests of the clients
  Stops,       \* stop-all requests
  Confirmed,   \* the calls whose tool needs a confirmation
  PlanOwned,   \* the calls a plan issues (_trusted_plan or _planner_owned)
  LookedUp,    \* the calls that first resolve a saved alias
  Reviewed,    \* the confirmed calls that first prepare a visual review
  Sensitive,   \* the calls a restrictive privacy mode denies
  PrivacyChanges, \* the stops that PrivacyPolicy.set_mode makes
  PlanCancels, \* the stop requests that only cancel the active plan
  Spoken,      \* the stops of everything that a voice capture heard
  StartModes,  \* whether the saved privacy mode may be restrictive at the start
  Ambient,     \* the core states the other components move between, tools apart
  NoHandler

ASSUME GatewayAssumption ==
  /\ Confirmed \subseteq Calls /\ PlanOwned \subseteq Calls /\ LookedUp \subseteq Calls
  /\ Reviewed \subseteq Confirmed /\ Sensitive \subseteq Calls
  /\ PrivacyChanges \subseteq Stops /\ PlanCancels \subseteq Stops \ PrivacyChanges
  /\ Spoken \subseteq Stops \ (PrivacyChanges \cup PlanCancels)
  /\ StartModes \subseteq BOOLEAN
  /\ Ambient \subseteq CoreStates \ {"USING_TOOL"}
  /\ Calls \cap Decisions = {}
  /\ NoHandler \notin Calls \cup Decisions

VARIABLES
  generation,  \* _action_generation
  stopPc,      \* position of each stop-all request
  revoking,    \* the confirmations a stop is about to revoke
  pending,     \* PermissionBroker._pending, by call: none, live or expired
  lapsed,      \* the expired confirmations the expiry loop has still to record
  audit,       \* the decisions memory.record_permission has stored, by call
  pc,          \* the await at which a handler is suspended, or its answer
  since,       \* the generation a handler captured when it started
  subject,     \* the call a handler is about
  cancelling,  \* handlers whose tool task has a cancellation to deliver
  dispatched,  \* handlers that handed their call to ExecutionController
  core,        \* StateMachine.current
  owner,       \* _tool_state_owner
  before,      \* the core state a handler restores after its tool
  restricted,  \* the privacy mode is a restrictive one
  changing     \* PrivacyPolicy.changing

stopVars == <<generation, stopPc, revoking>>
brokerVars == <<pending, lapsed, audit>>
handlerVars == <<pc, since, subject, cancelling, dispatched>>
coreVars == <<core, owner, before>>
privacyVars == <<restricted, changing>>
gatewayVars == <<stopVars, brokerVars, handlerVars, coreVars, privacyVars>>

Handlers == Calls \cup Decisions

\* Suspended in request_tool, in resolve_confirmation, in the execute_tool task.
Asking    == {"lookup", "authorising", "review", "proposing"}
Resolving == {"approving", "denying"}
Running_Dispatched == {"running", "saving", "failing"}
Running   == {"spawned", "starting", "running", "saving", "failing"}
Executing == Running \cup {"cleanup"}
\* "interrupted" answers that effects are unknown or finished; "cancelled" and
\* "abandoned", execute_tool's answer for a task that could not, that nothing changed.
Answers   == {"waiting", "busy", "denied", "cancelled", "abandoned", "interrupted",
              "failed", "raised", "done"}
StopPcs   == {"idle", "begun", "plan", "all", "applying", "withdrawing", "over", "cut"}
Verdicts  == {"APPROVED", "DENIED", "CANCELLED", "EXPIRED"}
Records   == Verdicts \cup {"AUTO_APPROVED", "PENDING"}

TypeOK ==
  /\ generation \in Nat
  /\ stopPc \in [Stops -> StopPcs]
  /\ revoking \in [Stops -> SUBSET Calls]
  /\ pending \in [Calls -> {"none", "live", "expired"}]
  /\ lapsed \in SUBSET Calls
  /\ audit \in [Calls -> SUBSET Records]
  /\ pc \in [Handlers -> {"idle"} \cup Asking \cup Resolving \cup Executing \cup Answers]
  /\ since \in [Handlers -> Nat]
  /\ subject \in [Handlers -> Calls \cup {NoHandler}]
  /\ cancelling \in SUBSET Handlers
  /\ dispatched \in SUBSET Handlers
  /\ core \in CoreStates
  /\ owner \in Handlers \cup {NoHandler}
  /\ before \in [Handlers -> {"DORMANT", "THINKING"}]
  /\ restricted \in BOOLEAN
  /\ changing \in BOOLEAN

Init ==
  /\ generation = 0
  /\ stopPc = [s \in Stops |-> "idle"]
  /\ revoking = [s \in Stops |-> {}]
  /\ pending = [c \in Calls |-> "none"]
  /\ lapsed = {}
  /\ audit = [c \in Calls |-> {}]
  /\ pc = [h \in Handlers |-> "idle"]
  /\ since = [h \in Handlers |-> 0]
  /\ subject = [h \in Handlers |-> IF h \in Calls THEN h ELSE NoHandler]
  /\ cancelling = {}
  /\ dispatched = {}
  /\ core = "DORMANT"
  /\ owner = NoHandler
  /\ before = [h \in Handlers |-> "DORMANT"]
  /\ restricted \in StartModes
  /\ changing = FALSE

--------------------------------------------------------------------------------
(* Helpers.  A definition named X_Y is a mutation of the definition X that   *)
(* follows it: a plausible bug that some property below must notice.        *)

\* _stopping_tools: at least one stop-all request is in progress.
Stopping == \E s \in Stops : stopPc[s] \in {"begun", "plan", "all"}

\* stop_capture dispatches the transcript of a spoken stop under _capture_stop_lock
\* and keeps the lock until the stop is answered.
LockHeld == \E s \in Spoken : stopPc[s] \in {"begun", "plan", "all"}

\* Its end_conversation waits in abort_capture for the lock its own task holds.
SelfBlocked == \E s \in Spoken : stopPc[s] = "all" /\ revoking[s] = {}

PolicyError_Settled(c) == restricted /\ c \in Sensitive

\* PrivacyPolicy.tool_error.
PolicyError(c) == changing \/ (restricted /\ c \in Sensitive)

\* The handler captured its generation before the last stop-all.
Stale(h) == since[h] # generation

\* A recorded permission may be acted on.
GateOpen_Now(h) == ~Stopping
GateOpen(h) == ~Stale(h) /\ ~Stopping

Live(c) == pending[c] = "live"

\* permissions.list_public.
Listed_Waiting == {c \in Calls : Live(c) /\ pc[c] = "waiting"}
Listed == {c \in Calls : Live(c)}

Goto(h, place) == pc' = [pc EXCEPT ![h] = place]

Record_BestEffort(c, decision) ==
  audit' \in {audit, [audit EXCEPT ![c] = @ \cup {decision}]}
Record(c, decision) == audit' = [audit EXCEPT ![c] = @ \cup {decision}]

\* PermissionBroker.resolve and cancel take the confirmation away.
Pop_Nothing(c) == UNCHANGED pending
Pop(c) == pending' = [pending EXCEPT ![c] = "none"]

\* permissions.cancel and, if there was something to cancel, the record of it.
Withdraw_Again(c) == Pop(c) /\ Record(c, "CANCELLED")
Withdraw_Listed(c) == pending[c] # "none" /\ Pop(c) /\ Record(c, "CANCELLED")
Withdraw(c) ==
  /\ Pop(c)
  /\ IF pending[c] = "none" THEN UNCHANGED audit ELSE Record(c, "CANCELLED")

\* A planner-owned request leaves the core state to its plan.
PreservesState(h) == h \in PlanOwned

\* The state a tool leaves the core in when it ends, and the release of the core.
Previous_Verbatim(state) == state
Previous(state) == IF state \in {"THINKING", "RETRIEVING_MEMORY"} THEN "THINKING" ELSE "DORMANT"

Release_InPlace(state) == owner' = NoHandler /\ UNCHANGED <<core, before>>
Release(state) == core' = state /\ owner' = NoHandler /\ UNCHANGED before

OwnsCore(h) == ~PreservesState(h) /\ owner = h

\* _cancelled_tool_result or the exception path of a handler not yet executing.
Answer(h, answer) ==
  /\ Goto(h, answer)
  /\ UNCHANGED <<since, subject, cancelling, dispatched>>

--------------------------------------------------------------------------------
(* request_tool *)

Runnable(c) == core \in RunnableStates \/ (c \in PlanOwned /\ core = "USING_TOOL")

\* permissions.create: the confirmation can be decided from now on.
Propose(c) ==
  /\ pending' = [pending EXCEPT ![c] = "live"]
  /\ Goto(c, "proposing")

\* The admission decision.  A request of another client is also turned away
\* while an interactive command owns the dormant core.
Admit(c) ==
  \/ /\ ~Runnable(c) \/ (core = "DORMANT" /\ c \notin PlanOwned)
     /\ Goto(c, "busy") /\ UNCHANGED pending
  \/ /\ Runnable(c) /\ c \notin Confirmed
     /\ Goto(c, "authorising") /\ UNCHANGED pending
  \/ /\ Runnable(c) /\ c \in Reviewed
     /\ Goto(c, "review") /\ UNCHANGED pending
  \/ /\ Runnable(c) /\ c \in Confirmed \ Reviewed
     /\ Propose(c)

\* request_tool up to its first await; the core state is the caller's business.
RequestCall(c) ==
  /\ pc[c] = "idle"
  /\ since' = [since EXCEPT ![c] = generation]
  /\ \/ Stopping /\ Goto(c, "cancelled") /\ UNCHANGED pending
     \/ ~Stopping /\ PolicyError(c) /\ Goto(c, "denied") /\ UNCHANGED pending
     \/ /\ ~Stopping /\ ~PolicyError(c) /\ c \in LookedUp
        /\ Goto(c, "lookup") /\ UNCHANGED pending
     \/ ~Stopping /\ ~PolicyError(c) /\ c \notin LookedUp /\ Admit(c)
  /\ UNCHANGED <<stopVars, lapsed, audit, subject, cancelling, dispatched, privacyVars>>

Request(c) == RequestCall(c) /\ UNCHANGED coreVars

AliasFound(c) ==
  /\ pc[c] = "lookup"
  /\ IF Stale(c) THEN Goto(c, "cancelled") /\ UNCHANGED pending ELSE Admit(c)
  /\ UNCHANGED <<stopVars, lapsed, audit, since, subject, cancelling, dispatched,
                 coreVars, privacyVars>>

\* The automatic approval has been recorded: execute_tool, unless a stop came.
Authorised(c) ==
  /\ pc[c] = "authorising"
  /\ Record(c, "AUTO_APPROVED")
  /\ Answer(c, IF GateOpen(c) THEN "spawned" ELSE "cancelled")
  /\ UNCHANGED <<stopVars, pending, lapsed, coreVars, privacyVars>>

\* The visual review is ready, or it failed or timed out.
ReviewReady(c) ==
  /\ pc[c] = "review"
  /\ \/ Goto(c, "failed") /\ UNCHANGED pending
     \/ Stale(c) /\ Goto(c, "cancelled") /\ UNCHANGED pending
     \/ ~Stale(c) /\ Propose(c)
  /\ UNCHANGED <<stopVars, lapsed, audit, since, subject, cancelling, dispatched,
                 coreVars, privacyVars>>

\* The proposal has been recorded.  The transition to WAITING_FOR_CONFIRMATION
\* can be illegal: the request then raises and its confirmation stays live.
Proposed(c) ==
  /\ pc[c] = "proposing"
  /\ Record(c, "PENDING")
  /\ \/ /\ Stale(c)
        /\ Pop(c)
        /\ Answer(c, "cancelled") /\ UNCHANGED core
     \/ /\ ~Stale(c) /\ CanMove(core, "WAITING_FOR_CONFIRMATION")
        /\ core' = "WAITING_FOR_CONFIRMATION"
        /\ Answer(c, "waiting") /\ UNCHANGED pending
     \/ /\ ~Stale(c) /\ ~CanMove(core, "WAITING_FOR_CONFIRMATION")
        /\ Answer(c, "failed") /\ UNCHANGED <<pending, core>>
  /\ UNCHANGED <<stopVars, lapsed, owner, before, privacyVars>>

--------------------------------------------------------------------------------
(* PermissionBroker and resolve_confirmation *)

\* PermissionBroker.resolve pops a confirmation that is listed and not expired.
Resolve(d, c, verdict) ==
  /\ pc[d] = "idle"
  /\ Live(c)
  /\ Pop(c)
  /\ since' = [since EXCEPT ![d] = generation]
  /\ subject' = [subject EXCEPT ![d] = c]
  /\ Goto(d, verdict)
  /\ UNCHANGED <<stopVars, lapsed, audit, cancelling, dispatched, coreVars, privacyVars>>

\* The decision has been recorded: revoked by a stop, denied, or executed.
Decided(d) ==
  /\ pc[d] \in Resolving
  /\ Record(subject[d], IF pc[d] = "approving" THEN "APPROVED" ELSE "DENIED")
  /\ \/ /\ ~GateOpen(d)
        /\ Answer(d, "cancelled") /\ UNCHANGED core
     \/ /\ GateOpen(d) /\ pc[d] = "denying"
        /\ core' = "DORMANT" /\ Answer(d, "denied")
     \/ /\ GateOpen(d) /\ pc[d] = "approving"
        /\ Answer(d, "spawned") /\ UNCHANGED core
  /\ UNCHANGED <<stopVars, pending, lapsed, owner, before, privacyVars>>

\* The confirmation's time has passed: it can no longer be resolved.
Expire(c) ==
  /\ Live(c)
  /\ pending' = [pending EXCEPT ![c] = "expired"]
  /\ UNCHANGED <<stopVars, lapsed, audit, handlerVars, coreVars, privacyVars>>

\* _prune_expired_confirmations, awaited only by its loop: PermissionBroker.prune
\* pops every expired confirmation.
Prune ==
  LET expired == {c \in Calls : pending[c] = "expired"} IN
  /\ lapsed = {} /\ expired # {}
  /\ lapsed' = expired
  /\ pending' = [c \in Calls |-> IF c \in expired THEN "none" ELSE pending[c]]
  /\ UNCHANGED <<stopVars, audit, handlerVars, coreVars, privacyVars>>

\* The expiry is recorded.  After the last one the core may be free again.
RecordLapse(c) ==
  /\ c \in lapsed
  /\ lapsed' = lapsed \ {c}
  /\ Record(c, "EXPIRED")
  /\ core' = IF lapsed' = {} /\ core = "WAITING_FOR_CONFIRMATION" /\ Listed = {}
             THEN "DORMANT" ELSE core
  /\ UNCHANGED <<stopVars, pending, handlerVars, owner, before, privacyVars>>

--------------------------------------------------------------------------------
(* execute_tool and the task it creates *)

\* The task's first step: the policy again, then the core state.
StartTask(h) ==
  /\ pc[h] = "spawned" /\ h \notin cancelling
  /\ \/ PolicyError(subject[h]) /\ Answer(h, "denied") /\ UNCHANGED coreVars
     \/ /\ ~PolicyError(subject[h]) /\ PreservesState(h)
        /\ Answer(h, "starting") /\ UNCHANGED coreVars
     \/ /\ ~PolicyError(subject[h]) /\ ~PreservesState(h) /\ CanMove(core, "USING_TOOL")
        /\ Answer(h, "starting")
        /\ core' = "USING_TOOL" /\ owner' = h
        /\ before' = [before EXCEPT ![h] = Previous(core)]
     \/ /\ ~PolicyError(subject[h]) /\ ~PreservesState(h) /\ ~CanMove(core, "USING_TOOL")
        /\ Answer(h, "raised") /\ UNCHANGED coreVars
  /\ UNCHANGED <<stopVars, brokerVars, privacyVars>>

\* The journal row of the step is written (or refused): dispatch the tool.
Dispatch(h) ==
  /\ pc[h] = "starting" /\ h \notin cancelling
  /\ \/ Goto(h, "running") /\ dispatched' = dispatched \cup {h}
     \/ Goto(h, "failing") /\ UNCHANGED dispatched
  /\ UNCHANGED <<stopVars, brokerVars, since, subject, cancelling, coreVars, privacyVars>>

\* The tool returns, or raises or exceeds its timeout.
ToolReturns(h) ==
  /\ pc[h] = "running" /\ h \notin cancelling
  /\ \E next \in {"saving", "failing"} : Answer(h, next)
  /\ UNCHANGED <<stopVars, brokerVars, coreVars, privacyVars>>

\* The result is journalled.  The owner of the core state restores it; an
\* illegal restore raises into the failure path.
Finish(h) ==
  /\ pc[h] = "saving" /\ h \notin cancelling
  /\ \/ ~OwnsCore(h) /\ Answer(h, "done") /\ UNCHANGED coreVars
     \/ /\ OwnsCore(h) /\ CanMove(core, before[h])
        /\ Release(before[h]) /\ Answer(h, "done")
     \/ OwnsCore(h) /\ ~CanMove(core, before[h]) /\ Answer(h, "failing") /\ UNCHANGED coreVars
  /\ UNCHANGED <<stopVars, brokerVars, privacyVars>>

\* The failure is journalled; the owner leaves through ERROR to DORMANT.
Fail(h) ==
  /\ pc[h] = "failing" /\ h \notin cancelling
  /\ Answer(h, "raised")
  /\ IF OwnsCore(h) THEN Release("DORMANT") ELSE UNCHANGED coreVars
  /\ UNCHANGED <<stopVars, brokerVars, privacyVars>>

DeliverCancel_Early(h) ==
  /\ h \in cancelling /\ pc[h] \in {"spawned", "starting", "running"}
  /\ cancelling' = cancelling \ {h}
  /\ Goto(h, IF pc[h] = "spawned" THEN "abandoned" ELSE "cleanup")
  /\ UNCHANGED <<stopVars, brokerVars, since, subject, dispatched, coreVars, privacyVars>>

\* The cancellation reaches the task.  Before its first step the task never
\* runs; inside the except block of a failure it ends the task at once, and
\* execute_tool answers for it; elsewhere the task records the cancellation.
DeliverCancel(h) ==
  /\ h \in cancelling
  /\ cancelling' = cancelling \ {h}
  /\ Goto(h, IF pc[h] \in {"spawned", "failing"} THEN "abandoned" ELSE "cleanup")
  /\ UNCHANGED <<stopVars, brokerVars, since, subject, dispatched, coreVars, privacyVars>>

\* record_cancellation, which absorbs further cancellations.
CleanUp(h) ==
  /\ pc[h] = "cleanup"
  /\ Answer(h, IF h \in dispatched THEN "interrupted" ELSE "cancelled")
  /\ IF OwnsCore(h) THEN Release(IF core = "USING_TOOL" THEN "DORMANT" ELSE core)
     ELSE UNCHANGED coreVars
  /\ UNCHANGED <<stopVars, brokerVars, privacyVars>>

--------------------------------------------------------------------------------
(* _stop_all_actions, and the privacy change built on it *)

\* Synchronous up to the first await: close the gate, cancel the tool tasks and
\* start a new generation.  PrivacyPolicy.set_mode first marks the policy; a
\* spoken stop is dispatched by the one capture that is being transcribed.
BeginStop(s) ==
  /\ s \notin PlanCancels /\ stopPc[s] = "idle"
  /\ s \in Spoken => core = "TRANSCRIBING" /\ ~LockHeld
  /\ IF s \in PrivacyChanges THEN ~changing /\ changing' = TRUE ELSE UNCHANGED changing
  /\ stopPc' = [stopPc EXCEPT ![s] = "begun"]
  /\ generation' = generation + 1
  /\ cancelling' = cancelling \cup {h \in Handlers : pc[h] \in Running}
  /\ UNCHANGED <<revoking, brokerVars, pc, since, subject, dispatched, coreVars, restricted>>

\* planner.cancel names the confirmations of the active plan.
CancelPlan(s, confirmations) ==
  /\ stopPc[s] = "begun"
  /\ stopPc' = [stopPc EXCEPT ![s] = "plan"]
  /\ revoking' = [revoking EXCEPT ![s] = confirmations]
  /\ UNCHANGED <<generation, brokerVars, handlerVars, coreVars, privacyVars>>

\* permissions.cancel on the next confirmation of the stop's list.
Revoke(s, c) ==
  /\ stopPc[s] \in {"plan", "all", "withdrawing"} /\ c \in revoking[s]
  /\ revoking' = [revoking EXCEPT ![s] = @ \ {c}]
  /\ Withdraw(c)
  /\ UNCHANGED <<generation, stopPc, lapsed, handlerVars, coreVars, privacyVars>>

\* The plan's confirmations are gone; list every other one.
ListPending(s, planCancelled) ==
  /\ stopPc[s] = "plan" /\ revoking[s] = {}
  /\ stopPc' = [stopPc EXCEPT ![s] = "all"]
  /\ revoking' = [revoking EXCEPT ![s] = Listed]
  /\ core' = IF planCancelled /\ core = "WAITING_FOR_CONFIRMATION" THEN "DORMANT" ELSE core
  /\ UNCHANGED <<generation, brokerVars, handlerVars, owner, before, privacyVars>>

\* The conversation has ended, for which abort_capture took the capture lock, and
\* the cancelled tasks have settled or two seconds have passed: open the gate.  A
\* privacy change installs its mode in the same step.
EndStop(s, planActive) ==
  /\ stopPc[s] = "all" /\ revoking[s] = {} /\ ~LockHeld
  /\ core' = IF core = "WAITING_FOR_CONFIRMATION" /\ ~planActive
                /\ Listed = {}
             THEN "DORMANT" ELSE core
  /\ IF s \in PrivacyChanges
     THEN /\ stopPc' = [stopPc EXCEPT ![s] = "applying"]
          /\ restricted' \in BOOLEAN
     ELSE /\ stopPc' = [stopPc EXCEPT ![s] = "over"]
          /\ UNCHANGED restricted
  /\ UNCHANGED <<generation, revoking, brokerVars, handlerVars, owner, before, changing>>

\* A wake word during the transcription cancels the capture's task, and with it the
\* spoken stop.  Of the confirmations it has still to revoke, the one in hand may be
\* gone and not recorded.
CutStop(s, inHand) ==
  /\ s \in Spoken /\ stopPc[s] \in {"begun", "plan", "all"}
  /\ core = "TRANSCRIBING" /\ core' = "DORMANT"
  /\ inHand \subseteq revoking[s]
  /\ stopPc' = [stopPc EXCEPT ![s] =
                  IF stopPc[s] = "all" /\ revoking[s] = {} THEN "over" ELSE "cut"]
  /\ revoking' = [revoking EXCEPT ![s] = {}]
  /\ pending' = [c \in Calls |-> IF c \in inHand THEN "none" ELSE pending[c]]
  /\ UNCHANGED <<generation, lapsed, audit, handlerVars, owner, before, privacyVars>>

\* The voice manager follows the new mode; the policy is settled.
EndPrivacyChange(s) ==
  /\ stopPc[s] = "applying"
  /\ stopPc' = [stopPc EXCEPT ![s] = "over"]
  /\ changing' = FALSE
  /\ UNCHANGED <<generation, revoking, brokerVars, handlerVars, coreVars, restricted>>

\* _cancel_active_plan on its own: the gate stays open and no generation starts.
BeginCancel(s, confirmations) ==
  /\ s \in PlanCancels /\ stopPc[s] = "idle"
  /\ stopPc' = [stopPc EXCEPT ![s] = "withdrawing"]
  /\ revoking' = [revoking EXCEPT ![s] = confirmations]
  /\ UNCHANGED <<generation, brokerVars, handlerVars, coreVars, privacyVars>>

EndCancel(s, planCancelled) ==
  /\ stopPc[s] = "withdrawing" /\ revoking[s] = {}
  /\ stopPc' = [stopPc EXCEPT ![s] = "over"]
  /\ core' = IF planCancelled /\ core = "WAITING_FOR_CONFIRMATION" THEN "DORMANT" ELSE core
  /\ UNCHANGED <<generation, revoking, brokerVars, handlerVars, owner, before, privacyVars>>

--------------------------------------------------------------------------------
\* The voice manager and the command engine move the core between their states.
OthersMoveCore ==
  /\ core \in Ambient
  /\ core' \in Ambient \cap AllowedTransitions[core]
  /\ UNCHANGED <<stopVars, brokerVars, handlerVars, owner, before, privacyVars>>

RequestStep(c) == AliasFound(c) \/ Authorised(c) \/ ReviewReady(c) \/ Proposed(c)

TaskStep(h) ==
  StartTask(h) \/ Dispatch(h) \/ ToolReturns(h) \/ Finish(h) \/ Fail(h)
  \/ DeliverCancel(h) \/ CleanUp(h)

\* The expiry loop.
ExpiryStep == Prune \/ \E c \in Calls : RecordLapse(c)

\* Steps of the gateway that need no client and no other component.
HandlerStep ==
  \/ \E c \in Calls : RequestStep(c) \/ Expire(c)
  \/ \E d \in Decisions : Decided(d)
  \/ \E h \in Handlers : TaskStep(h)
  \/ ExpiryStep

\* The confirmations a plan can be waiting for.
PlanConfirmations == {c \in PlanOwned : pc[c] = "waiting"}

StopStep(s) ==
  \/ \E S \in SUBSET PlanConfirmations : CancelPlan(s, S)
  \/ \E c \in Calls : Revoke(s, c)
  \/ \E b \in BOOLEAN : ListPending(s, b) \/ EndStop(s, b) \/ EndCancel(s, b)
  \/ EndPrivacyChange(s)

\* What a stop can have in hand: one confirmation or none.
AtMostOne == {{}} \cup {{c} : c \in Calls}

Next ==
  \/ \E c \in Calls : Request(c)
  \/ \E d \in Decisions, c \in Calls, v \in Resolving : Resolve(d, c, v)
  \/ HandlerStep
  \/ \E s \in Stops :
       \/ BeginStop(s) \/ StopStep(s)
       \/ \E inHand \in AtMostOne : CutStop(s, inHand)
       \/ \E S \in SUBSET PlanConfirmations : BeginCancel(s, S)
  \/ OthersMoveCore

\* The event loop resumes every coroutine whose await has completed; a tool has
\* a timeout, and every wait of a stop is bounded, but for that on the capture lock:
\* EndStop has it as its guard, and the change into DO NOT LISTEN aborts a capture
\* once more before it ends.  Nobody has to say the wake word that cuts a stop.
Fairness ==
  /\ \A c \in Calls : WF_gatewayVars(RequestStep(c))
  /\ \A d \in Decisions : WF_gatewayVars(Decided(d))
  /\ \A h \in Handlers : WF_gatewayVars(TaskStep(h))
  /\ \A s \in Stops :
       WF_gatewayVars(StopStep(s) /\ (stopPc[s] = "applying" => ~LockHeld))

Spec == Init /\ [][Next]_gatewayVars

FairSpec == Spec /\ Fairness

--------------------------------------------------------------------------------
(* Properties *)

\* No tool is handed to its executor by a handler that was accepted before the
\* last stop-all: neither the record of the permission nor the journal row, both
\* written in threads while a stop may run, lets an old operation through.
NoDispatchAcrossStop ==
  [][\A h \in dispatched' \ dispatched : ~Stale(h)]_gatewayVars

\* A confirmation is settled once: of approval, denial, revocation by a stop and
\* expiry, which race for it in different coroutines, at most one is recorded.
DecidedOnce == \A c \in Calls : Cardinality(audit[c] \cap Verdicts) <= 1

\* What was dispatched was consented to: a call that needs a confirmation only
\* after its approval was stored and nothing else was decided about it, and never
\* by the request itself; any other call after its automatic approval was stored.
ConsentBeforeDispatch ==
  \A h \in dispatched :
    IF subject[h] \in Confirmed
    THEN h \in Decisions /\ audit[subject[h]] \cap Verdicts = {"APPROVED"}
    ELSE h \in Calls /\ "AUTO_APPROVED" \in audit[subject[h]]

\* One request leads to at most one execution, however many clients decide.
DispatchedOnce ==
  \A g, h \in dispatched : subject[g] = subject[h] => g = h

\* A tool is dispatched only under a privacy mode that allows it, and never while
\* the mode is changing, although the policy is read an await earlier.
PolicyAtDispatch ==
  [][\A h \in dispatched' \ dispatched :
       ~changing /\ (restricted => subject[h] \notin Sensitive)]_gatewayVars

\* Once no stop is in progress, every confirmation that can still be approved was
\* requested after the last stop: nothing pending outlives a stop, unless a wake word
\* cut a spoken stop before it had revoked everything.
NoStaleConfirmation ==
  ~Stopping /\ (\A s \in Stops : stopPc[s] # "cut") => \A c \in Calls : Live(c) => ~Stale(c)

\* The tool task that took the core to USING_TOOL is responsible for leaving it:
\* the core stays there only while its owner still executes, or for good when a stop
\* interrupted the record of its owner's failure.
CoreHasOwner ==
  core = "USING_TOOL" =>
    /\ owner # NoHandler
    /\ pc[owner] \in Executing \cup {"abandoned"}

\* A stop-all request, the privacy change around it and the cancellation of a plan
\* come to an end, whatever it has to wait for: unless a spoken stop waits for ever
\* for the capture lock it holds itself, and keeps the others waiting.
StopsEnd ==
  <>[]SelfBlocked \/ \A s \in Stops : stopPc[s] # "idle" ~> stopPc[s] \in {"over", "cut"}

\* Every request and every decision is answered, stopped or not.
EveryHandlerAnswers == \A h \in Handlers : pc[h] # "idle" ~> pc[h] \in Answers

\* What USAGE.md says of a cancelled action: the reply claims that nothing changed
\* only if the action was not dispatched.
HonestCancel == \A h \in dispatched : pc[h] \notin {"cancelled", "abandoned"}

\* What PrivacyPolicy.set_mode says of a stop: approvals outstanding at the stop
\* are revoked, so no call requested before the last stop is dispatched.
NoMigratedApproval ==
  [][\A h \in dispatched' \ dispatched : ~Stale(subject[h])]_gatewayVars
================================================================================
