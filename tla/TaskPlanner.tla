------------------------------ MODULE TaskPlanner ------------------------------
(***************************************************************************)
(* TaskPlanner (planner.py) on top of the action gateway: plans of several *)
(* steps run one at a time under an asyncio lock, each step one call of    *)
(* request_tool, with one bounded retry, suspension while a confirmation   *)
(* is pending, resumption by resolve_confirmation and cancellation by      *)
(* other coroutines while a call is in flight.                             *)
(*                                                                         *)
(* Call <<p, i, n>> is the n-th attempt of step i of plan p; the step      *)
(* after the last is the observation that verifies the declared goal.      *)
(* The stops here are the ones clients send and those a privacy change     *)
(* makes; what a wake word leaves of a spoken stop is ActionGateway's.     *)
(***************************************************************************)
EXTENDS GatewayContract, Sequences

CONSTANTS
  Plans,
  Length,     \* number of steps of a plan
  Retryable,  \* <<plan, step>> whose tool _retryable accepts
  External,   \* provider plans: CommandEngine owns their confirmation
  WithGoal,   \* plans with declared goal conditions
  NoPlan

PlanCalls == UNION {{<<p, i, n>> : i \in 1..(Length[p] + 1), n \in {1, 2}} : p \in Plans}

PlanOf(c) == c[1]

ASSUME PlannerAssumption ==
  /\ Length \in [Plans -> Nat \ {0}]
  /\ Retryable \subseteq Plans \X Nat
  /\ External \subseteq Plans /\ WithGoal \subseteq Plans /\ NoPlan \notin Plans
  /\ PlanCalls = PlanOwned
  /\ Spoken = {}

VARIABLES
  lock,      \* the plan that holds _lock
  queue,     \* the plans that wait for _lock, first come first served
  active,    \* TaskPlanner.active
  position,  \* where the coroutine of a plan is suspended
  index,     \* the step a plan has reached
  status,    \* TaskPlan.status
  reason,    \* the plans with a cancellation_reason
  waiting,   \* keys of TaskPlanner.pending
  handedOver,\* keys of TaskPlanner.external_pending
  settled,   \* decisions whose effect on the planner has been applied
  withdrew   \* stops whose planner.cancel ended a waiting plan

confirmVars == <<waiting, handedOver, settled, withdrew>>
planVars == <<lock, queue, active, position, index, status, reason>>
plannerVars == <<planVars, confirmVars>>
vars == <<gatewayVars, plannerVars>>

InExecute == {"calling", "backoff", "retrying", "recheck", "rechecking", "verifying"}
Final == {"SUCCEEDED", "FAILED", "CANCELLED", "DENIED"}

PlannerTypeOK ==
  /\ lock \in Plans \cup {NoPlan}
  /\ queue \in Seq(Plans)
  /\ active \in Plans \cup {NoPlan}
  /\ position \in [Plans -> {"new", "queued", "suspended", "crashed", "ended"} \cup InExecute]
  /\ index \in [Plans -> Nat]
  /\ status \in [Plans -> {"PENDING", "RUNNING", "WAITING_CONFIRMATION", "CANCEL_REQUESTED"}
                          \cup Final]
  /\ reason \in SUBSET Plans
  /\ waiting \in SUBSET PlanCalls /\ handedOver \in SUBSET PlanCalls
  /\ settled \in SUBSET Decisions /\ withdrew \in SUBSET Stops

PlannerInit ==
  /\ lock = NoPlan /\ queue = <<>> /\ active = NoPlan
  /\ position = [p \in Plans |-> "new"]
  /\ index = [p \in Plans |-> 1]
  /\ status = [p \in Plans |-> "PENDING"]
  /\ reason = {} /\ waiting = {} /\ handedOver = {}
  /\ settled = {} /\ withdrew = {}

--------------------------------------------------------------------------------
(* Helpers.  As in ActionGateway, X_Y is a mutation of the definition X.    *)

\* _settle_terminal_state.
Settled(state) ==
  IF state \in {"THINKING", "RETRIEVING_MEMORY", "USING_TOOL", "ERROR"} THEN "DORMANT" ELSE state

\* A final status and _archive.
End(p, outcome) ==
  /\ status' = [status EXCEPT ![p] = outcome]
  /\ position' = [position EXCEPT ![p] = "ended"]
  /\ active' = IF active = p THEN NoPlan ELSE active

\* The entry of a settled or cancelled confirmation is taken out of pending.
Forget_Nothing(calls) == UNCHANGED waiting
Forget(calls) == waiting' = waiting \ calls

\* What execute looks at before it goes on with a plan.
Cancelled_Never(p) == FALSE
Cancelled(p) == p \in reason

\* The step that follows the one a plan is at.
Following_Skip(p) == index[p] + 2
Following(p) == index[p] + 1

EndExecute_Locked(p, outcome) ==
  /\ status' = [status EXCEPT ![p] = outcome]
  /\ position' = [position EXCEPT ![p] = "ended"]
  /\ active' = NoPlan /\ UNCHANGED lock
  /\ core' = Settled(core)
  /\ UNCHANGED <<reason, index, stopVars, brokerVars, handlerVars, owner, before, privacyVars>>

\* The end of execute: a final response, the lock released, the core settled.
EndExecute(p, outcome) ==
  /\ status' = [status EXCEPT ![p] = outcome]
  /\ position' = [position EXCEPT ![p] = "ended"]
  /\ active' = NoPlan /\ lock' = NoPlan
  /\ core' = Settled(core)
  /\ UNCHANGED <<reason, index, stopVars, brokerVars, handlerVars, owner, before, privacyVars>>

\* Await request_tool for a step, holding the lock.
CallStep(p, i, n, place) ==
  /\ RequestCall(<<p, i, n>>)
  /\ position' = [position EXCEPT ![p] = place]
  /\ index' = [index EXCEPT ![p] = i]
  /\ lock' = p /\ active' = p
  /\ UNCHANGED <<reason, owner, before>>

Await(p, place) ==
  /\ position' = [position EXCEPT ![p] = place]
  /\ UNCHANGED <<lock, active, index, status, reason, gatewayVars>>

\* The loop of execute entered at step i with the lock held.  Everything up to the
\* next request_tool, or to the end of the plan, happens without an await.  An
\* illegal transition to USING_TOOL leaves execute by an exception: the lock is
\* released and nothing else is cleaned up.
Proceed(p, i) ==
  \/ /\ i <= Length[p] /\ Cancelled(p)
     /\ EndExecute(p, "CANCELLED")
  \/ /\ i \in 2..Length[p] /\ ~Cancelled(p)     \* a needed result is unavailable
     /\ EndExecute(p, "FAILED")
  \/ /\ i <= Length[p] /\ ~Cancelled(p) /\ CanMove(core, "USING_TOOL")
     /\ core' = "USING_TOOL"
     /\ status' = [status EXCEPT ![p] = "RUNNING"]
     /\ CallStep(p, i, 1, "calling")
  \/ /\ i <= Length[p] /\ ~Cancelled(p) /\ ~CanMove(core, "USING_TOOL")
     /\ status' = [status EXCEPT ![p] = "RUNNING"]
     /\ position' = [position EXCEPT ![p] = "crashed"]
     /\ active' = p /\ lock' = NoPlan
     /\ UNCHANGED <<index, reason, gatewayVars>>
  \/ /\ i > Length[p] /\ p \notin WithGoal
     /\ EndExecute(p, "SUCCEEDED")
  \/ /\ i > Length[p] /\ p \in WithGoal /\ Cancelled(p)
     /\ EndExecute(p, "FAILED")
  \/ /\ i > Length[p] /\ p \in WithGoal /\ ~Cancelled(p)
     /\ status' = [status EXCEPT ![p] = "RUNNING"]
     /\ UNCHANGED core
     /\ CallStep(p, i, 1, "verifying")

Execute_AtOnce(p, i) == Proceed(p, i) /\ UNCHANGED queue

\* execute: take the lock if nobody has it or waits for it, queue otherwise.
Execute(p, i) ==
  IF lock = NoPlan /\ queue = <<>>
  THEN Proceed(p, i) /\ UNCHANGED queue
  ELSE /\ queue' = Append(queue, p)
       /\ position' = [position EXCEPT ![p] = "queued"]
       /\ index' = [index EXCEPT ![p] = i]
       /\ UNCHANGED <<lock, active, status, reason, gatewayVars>>

--------------------------------------------------------------------------------
(* execute *)

Submit(p) ==
  /\ position[p] = "new"
  /\ Execute(p, 1)
  /\ UNCHANGED confirmVars

Acquire(p) ==
  /\ position[p] = "queued" /\ lock = NoPlan /\ Head(queue) = p
  /\ queue' = Tail(queue)
  /\ Proceed(p, index[p])
  /\ UNCHANGED confirmVars

CurrentCall(p) ==
  <<p, index[p], IF position[p] \in {"retrying", "rechecking"} THEN 2 ELSE 1>>

Raised(c) == pc[c] \in {"raised", "failed"}

\* The reply of request_tool while a plan awaits it.
Replied(p) == position[p] \in InExecute \ {"backoff", "recheck"} /\ pc[CurrentCall(p)] \in Answers

MayRetry_Any(p) == position[p] = "calling"
MayRetry(p) == position[p] = "calling" /\ <<p, index[p]>> \in Retryable

\* The outcome of a step, as _verified sees it.
Verified_Ran(c) == pc[c] \notin {"raised", "failed"}
Verified(c) == pc[c] = "done"

\* The except clause: a cancelled plan stops, an idempotent step is tried again
\* after a pause, anything else fails.  A second exception always fails.
OnException(p) ==
  /\ Replied(p) /\ position[p] # "verifying" /\ Raised(CurrentCall(p))
  /\ \/ position[p] = "calling" /\ Cancelled(p) /\ EndExecute(p, "CANCELLED")
     \/ ~Cancelled(p) /\ MayRetry(p) /\ Await(p, "backoff")
     \/ (~Cancelled(p) \/ position[p] # "calling") /\ EndExecute(p, "FAILED")
  /\ UNCHANGED <<queue, confirmVars>>

\* A result: the cancellation is looked at (not after a recheck), a confirmation
\* suspends the plan, a verified step leads on, an unverified one is tried again
\* once if it is idempotent.
OnResult(p) ==
  LET c == CurrentCall(p)
      sawCancel == position[p] # "rechecking" /\ Cancelled(p)
      suspends == position[p] # "rechecking" /\ pc[c] = "waiting" IN
  /\ Replied(p) /\ position[p] # "verifying" /\ ~Raised(c) /\ ~(suspends /\ ~sawCancel)
  /\ \/ sawCancel /\ EndExecute(p, "CANCELLED")
     \/ ~sawCancel /\ Verified(c) /\ Proceed(p, Following(p))
     \/ ~sawCancel /\ MayRetry(p) /\ Await(p, "recheck")
     \/ ~sawCancel /\ EndExecute(p, "FAILED")
  /\ UNCHANGED <<queue, confirmVars>>

\* The key of pending is the confirmation, not the plan.
WaitFor_Plan(p, c) == waiting' = waiting \cup {p} /\ UNCHANGED <<handedOver, active>>
WaitFor(p, c) ==
  IF p \in External
  THEN handedOver' = handedOver \cup {c} /\ active' = NoPlan /\ UNCHANGED waiting
  ELSE waiting' = waiting \cup {c} /\ UNCHANGED <<handedOver, active>>

\* confirmation_required: the plan waits in pending, or a provider plan is handed
\* over and archived.  Either way execute returns and releases the lock.
Suspend(p) ==
  LET c == CurrentCall(p) IN
  /\ position[p] \in {"calling", "retrying"} /\ pc[c] = "waiting" /\ ~Cancelled(p)
  /\ status' = [status EXCEPT ![p] = "WAITING_CONFIRMATION"]
  /\ position' = [position EXCEPT ![p] = "suspended"]
  /\ lock' = NoPlan
  /\ WaitFor(p, c)
  /\ UNCHANGED <<gatewayVars, queue, index, reason, settled, withdrew>>

\* The pause before the second attempt is over.  Nothing is looked at again.
Retry(p) ==
  /\ position[p] \in {"backoff", "recheck"}
  /\ CallStep(p, index[p], 2, IF position[p] = "backoff" THEN "retrying" ELSE "rechecking")
  /\ UNCHANGED <<core, queue, status, confirmVars>>

OnGoalChecked_Blindly(p) ==
  /\ Replied(p) /\ position[p] = "verifying"
  /\ \/ pc[CurrentCall(p)] = "done" /\ EndExecute(p, "SUCCEEDED")
     \/ EndExecute(p, "FAILED")
  /\ UNCHANGED <<queue, confirmVars>>

\* verify_conditions is over: verified only if the plan is still not cancelled.
OnGoalChecked(p) ==
  /\ Replied(p) /\ position[p] = "verifying"
  /\ \/ ~Cancelled(p) /\ Verified(CurrentCall(p)) /\ EndExecute(p, "SUCCEEDED")
     \/ EndExecute(p, "FAILED")
  /\ UNCHANGED <<queue, confirmVars>>

--------------------------------------------------------------------------------
(* Confirmations: what the handlers of the gateway do with the planner *)

\* record_external_confirmation for calls with the same outcome: a provider plan
\* takes its final status when its confirmation is settled.
RecordExternal(calls, outcome) ==
  LET decided == {PlanOf(c) : c \in handedOver \cap calls} IN
  /\ handedOver' = handedOver \ calls
  /\ status' = [p \in Plans |-> IF p \in decided THEN outcome ELSE status[p]]
  /\ position' = [p \in Plans |-> IF p \in decided THEN "ended" ELSE position[p]]
  /\ UNCHANGED <<lock, queue, active, index, reason, waiting>>

\* resolve_confirmation after its record: an approval goes on to execute_tool, a
\* denial rejects the plan that waits for it, a stop revokes the decision.
PlannerDecided(d) ==
  LET c == subject[d] IN
  /\ Decided(d)
  /\ UNCHANGED withdrew
  /\ \/ pc'[d] = "spawned" /\ UNCHANGED <<planVars, confirmVars>>
     \/ /\ pc'[d] = "denied" /\ c \in waiting
        /\ End(PlanOf(c), "DENIED")
        /\ reason' = reason \cup {PlanOf(c)}
        /\ Forget({c}) /\ settled' = settled \cup {d}
        /\ UNCHANGED <<lock, queue, index, handedOver>>
     \/ /\ pc'[d] = "cancelled" \/ (pc'[d] = "denied" /\ c \notin waiting)
        /\ RecordExternal({c}, "FAILED") /\ settled' = settled \cup {d}

\* resolve_confirmation after execute_tool: the plan is failed, without its lock,
\* or executed from its next step.  An exception of the tool skips all of it.
Continue(d) ==
  LET c == subject[d]
      p == PlanOf(c) IN
  /\ d \notin settled /\ pc[d] \in Answers \ {"raised"}
  /\ settled' = settled \cup {d} /\ UNCHANGED withdrew
  /\ \E ok \in {Verified(d), FALSE} :
       \/ /\ c \notin waiting
          /\ RecordExternal({c}, IF ok THEN "SUCCEEDED" ELSE "FAILED")
          /\ UNCHANGED gatewayVars
       \/ /\ c \in waiting /\ ok
          /\ Execute(p, Following(p))
          /\ Forget({c}) /\ UNCHANGED handedOver
       \/ /\ c \in waiting /\ ~ok
          /\ End(p, "FAILED")
          /\ core' = Settled(core)
          /\ Forget({c})
          /\ UNCHANGED <<lock, queue, index, reason, handedOver, stopVars, brokerVars,
                         handlerVars, owner, before, privacyVars>>

\* planner.cancel, called by a stop or by a cancellation of the plan alone.  Only
\* the active plan is cancelled; it ends at once if it waits for a confirmation.
PlannerCancel(s) ==
  LET cancellable == active # NoPlan /\ status[active] \in {"RUNNING", "WAITING_CONFIRMATION"}
      confirmations == {c \in waiting : cancellable /\ PlanOf(c) = active} IN
  /\ CancelPlan(s, confirmations) \/ BeginCancel(s, confirmations)
  /\ reason' = IF cancellable THEN reason \cup {active} ELSE reason
  /\ Forget(confirmations)
  /\ withdrew' = IF confirmations # {} THEN withdrew \cup {s} ELSE withdrew
  /\ IF confirmations # {} THEN End(active, "CANCELLED")
     ELSE /\ status' = [q \in Plans |-> IF cancellable /\ q = active THEN "CANCEL_REQUESTED"
                                        ELSE status[q]]
          /\ UNCHANGED <<active, position>>
  /\ UNCHANGED <<lock, queue, index, handedOver, settled>>

\* A stop revokes a confirmation; a provider plan that waits for it fails.
PlannerRevoke(s, c) ==
  /\ Revoke(s, c)
  /\ RecordExternal({c} \cap {k \in Calls : pending[k] # "none"}, "FAILED")
  /\ UNCHANGED <<settled, withdrew>>

\* Nobody else can settle what prune has popped, so all of it is settled at once.
PlannerPrune ==
  /\ Prune
  /\ RecordExternal({c \in Calls : pending[c] = "expired"}, "FAILED")
  /\ UNCHANGED <<settled, withdrew>>

--------------------------------------------------------------------------------
PlanStep(p) ==
  Submit(p) \/ Acquire(p) \/ OnException(p) \/ OnResult(p) \/ Suspend(p) \/ Retry(p)
  \/ OnGoalChecked(p)

PlannerStopStep(s) ==
  \/ PlannerCancel(s)
  \/ \E c \in Calls : PlannerRevoke(s, c)
  \/ /\ ListPending(s, s \in withdrew) \/ EndStop(s, active # NoPlan)
        \/ EndCancel(s, s \in withdrew) \/ EndPrivacyChange(s)
     /\ UNCHANGED plannerVars

\* The gateway's own steps, which leave the planner alone.
GatewayOnly ==
  /\ \/ \E c \in Calls \ PlanCalls : Request(c)
     \/ \E d \in Decisions, c \in Calls, v \in Resolving : Resolve(d, c, v)
     \/ \E c \in Calls : RequestStep(c) \/ Expire(c) \/ RecordLapse(c)
     \/ \E h \in Handlers : TaskStep(h)
     \/ \E s \in Stops : BeginStop(s)
     \/ OthersMoveCore
  /\ UNCHANGED plannerVars

PlannerNext ==
  \/ \E p \in Plans : PlanStep(p)
  \/ \E d \in Decisions : PlannerDecided(d) \/ Continue(d)
  \/ \E s \in Stops : PlannerStopStep(s)
  \/ PlannerPrune
  \/ GatewayOnly

PlannerSpec == Init /\ PlannerInit /\ [][PlannerNext]_vars

\* asyncio.Lock wakes its waiters in order; the event loop resumes every coroutine.
PlannerFairness ==
  /\ \A p \in Plans : WF_vars(PlanStep(p))
  /\ \A d \in Decisions : WF_vars(PlannerDecided(d) \/ Continue(d))
  /\ \A s \in Stops : WF_vars(PlannerStopStep(s))
  /\ \A c \in Calls : WF_vars(RequestStep(c) /\ UNCHANGED plannerVars)
  /\ \A h \in Handlers : WF_vars(TaskStep(h) /\ UNCHANGED plannerVars)

FairPlannerSpec == PlannerSpec /\ PlannerFairness

--------------------------------------------------------------------------------
(* Properties *)

\* A call of the plan has been made.
Made(c) == pc[c] # "idle"

\* The step took effect: one of its attempts, or the decision about it, was done.
StepDone(p, i) ==
  \E h \in dispatched : pc[h] = "done" /\ subject[h] \in {<<p, i, 1>>, <<p, i, 2>>}

\* One plan executes at a time, whoever resumes it, and it holds the lock: plans
\* resumed by a decision never interleave their steps with a running plan.
OnePlanExecutes ==
  \A p \in Plans : position[p] \in InExecute => lock = p

\* No step is asked for before every earlier step of its plan took effect, also
\* when the plan was suspended for a confirmation or a step was tried twice.
StepsInOrder ==
  \A p \in Plans : \A i \in 2..Length[p] : Made(<<p, i, 1>>) => \A j \in 1..(i - 1) : StepDone(p, j)

\* Only an idempotent step may be handed to its tool twice.
ReplayOnlyRetryable ==
  \A g, h \in dispatched :
    LET a == subject[g]  b == subject[h] IN
    a \in PlanCalls /\ b \in PlanCalls /\ g # h /\ a[1] = b[1] /\ a[2] = b[2] =>
      <<a[1], a[2]>> \in Retryable

\* A plan that succeeded did all its steps; with declared conditions, they were
\* observed after the last of them and the plan was not cancelled meanwhile.
SuccessIsComplete ==
  \A p \in Plans \ External : status[p] = "SUCCEEDED" =>
    /\ \A i \in 1..Length[p] : StepDone(p, i)
    /\ p \in WithGoal => StepDone(p, Length[p] + 1) /\ p \notin reason

\* A plan with an acknowledged cancellation never moves on to another step: what
\* it may still ask for is the second attempt of the step it was at.
CancelledPlanStays ==
  [][\A p \in reason : \A i \in 1..Length[p] : Made(<<p, i, 1>>)' => Made(<<p, i, 1>>)]_vars

\* A plan that ended never asks for anything again, and its end is final.
EndIsFinal ==
  [][\A p \in Plans : position[p] = "ended" =>
       /\ status'[p] = status[p] /\ position'[p] = "ended"
       /\ \A c \in PlanCalls : PlanOf(c) = p /\ Made(c)' => Made(c)]_vars

\* Every submitted plan comes to its end or waits for the user: no plan waits for
\* the lock, for a call or for a retry for ever.
PlansSettle ==
  \A p \in Plans : position[p] # "new" ~> position[p] \in {"ended", "suspended", "crashed"}

\* USAGE.md: a stop cancels planner actions.  When a stop ends, a plan from before
\* it that is resumed but still waits for the lock has been cancelled too.
StopCancelsQueuedPlans ==
  [][\A s \in Stops \ PlanCancels : stopPc[s] = "all" /\ stopPc'[s] # "all" =>
       \A p \in Plans : position[p] = "queued" /\ Stale(<<p, 1, 1>>) => p \in reason \/ index[p] = 1]_vars

\* USAGE.md: a stop cancels planner actions.  The second attempt of a step is not
\* handed to a tool if a stop has come since the first.
StopEndsRetries ==
  [][\A h \in (dispatched' \ dispatched) \cap PlanCalls :
       h[3] = 2 => ~Stale(<<h[1], h[2], 1>>)]_vars
================================================================================
