-------------------------- MODULE ActionGatewayProofs --------------------------
(***************************************************************************)
(* What holds of the action gateway and of the task planner on top of it   *)
(* for every number of requests, clients, plans, steps, stops and privacy  *)
(* changes, without any fairness.  Of ActionGateway!Spec, under            *)
(* GatewayAssumption alone: its invariants, and that every step of its     *)
(* handlers maps, under Ticket, to a step of ActionContract or to none.    *)
(* Of PlannerSpec, under PlannerAssumption as well: the same again, for a  *)
(* gateway whose confirmations and dispatches belong to plans, and the     *)
(* invariants and step properties of the plans.                            *)
(***************************************************************************)
EXTENDS TaskPlanner, FiniteSetTheorems, SequenceTheorems, TLAPS

--------------------------------------------------------------------------------
(* Steps of the gateway and of the planner on top of it *)

RestVars == <<stopVars, brokerVars, handlerVars, owner, before, privacyVars>>

\* What a step of the planner is to the gateway: one of the gateway's own, or one that
\* asks for a tool, names the confirmations of its plan to a stop or does nothing,
\* while it may move the core state as well.
PlannedStep ==
  \/ Next
  \/ \E c \in Calls : RequestCall(c) /\ UNCHANGED <<owner, before>>
  \/ \E s \in Stops, S \in SUBSET Calls : CancelPlan(s, S) \/ BeginCancel(s, S)
  \/ UNCHANGED RestVars

\* A step of the gateway alone is one of those.
LEMMA OwnStep ==
  ASSUME [Next]_gatewayVars
  PROVE  PlannedStep
BY DEF PlannedStep, RestVars, gatewayVars, coreVars

\* The cases of a step, without what it does to the core.
LEMMA StepCases ==
  ASSUME PlannedStep
  PROVE  \/ \E c \in Calls : RequestCall(c) /\ UNCHANGED <<owner, before>>
         \/ \E c \in Calls : RequestStep(c) \/ Expire(c)
         \/ \E d \in Decisions : Decided(d) \/ \E c \in Calls, v \in Resolving : Resolve(d, c, v)
         \/ \E h \in Handlers : TaskStep(h)
         \/ \E s \in Stops : \/ BeginStop(s) \/ StopStep(s)
                            \/ \E S \in SUBSET Calls : CancelPlan(s, S) \/ BeginCancel(s, S)
                            \/ \E inHand \in AtMostOne : CutStop(s, inHand)
         \/ ExpiryStep \/ OthersMoveCore \/ UNCHANGED RestVars
<1>1. PlanConfirmations \subseteq Calls
  BY GatewayAssumption DEF PlanConfirmations
<1>2. ASSUME NEW c \in Calls, Request(c)
      PROVE  RequestCall(c) /\ UNCHANGED <<owner, before>>
  BY <1>2 DEF Request, coreVars
<1> QED BY <1>1, <1>2 DEF PlannedStep, Next, HandlerStep

--------------------------------------------------------------------------------
(* Type correctness *)

\* A request, and the time limit of its confirmation, keep the types.
LEMMA RequestType ==
  ASSUME TypeOK, NEW c \in Calls, core' \in CoreStates,
         \/ RequestCall(c) /\ UNCHANGED <<owner, before>>
         \/ RequestStep(c) \/ Expire(c)
  PROVE  TypeOK'
<1> USE GatewayAssumption
    DEF TypeOK, stopVars, brokerVars, handlerVars, coreVars, privacyVars, Handlers,
        Goto, Answer
<1>1. CASE RequestCall(c) /\ UNCHANGED <<owner, before>>
  BY <1>1 DEF RequestCall, Admit, Propose, Asking, Answers
<1>2. CASE AliasFound(c)
  BY <1>2 DEF AliasFound, Admit, Propose, Asking, Answers
<1>3. CASE Authorised(c)
  BY <1>3 DEF Authorised, Record, Records, Executing, Running, Answers
<1>4. CASE ReviewReady(c)
  BY <1>4 DEF ReviewReady, Propose, Asking, Answers
<1>5. CASE Proposed(c)
  BY <1>5 DEF Proposed, Record, Records, Pop, Answers, CoreStates
<1>6. CASE Expire(c)
  BY <1>6 DEF Expire
<1> QED BY <1>1, <1>2, <1>3, <1>4, <1>5, <1>6 DEF RequestStep

\* A decision and the expiry loop keep the types.
LEMMA DecisionType ==
  ASSUME TypeOK,
         \/ ExpiryStep
         \/ \E d \in Decisions : Decided(d)
         \/ \E d \in Decisions, c \in Calls, v \in Resolving : Resolve(d, c, v)
  PROVE  TypeOK'
<1> USE GatewayAssumption
    DEF TypeOK, stopVars, brokerVars, handlerVars, coreVars, privacyVars, Handlers,
        Goto, Answer
<1>1. CASE ExpiryStep
  <2>1. CASE Prune
    BY <2>1 DEF Prune
  <2>2. ASSUME NEW c \in Calls, RecordLapse(c)
        PROVE  TypeOK'
    BY <2>2 DEF RecordLapse, Record, Records, Verdicts, CoreStates
  <2> QED BY <1>1, <2>1, <2>2 DEF ExpiryStep
<1>2. ASSUME NEW d \in Decisions, Decided(d)
      PROVE  TypeOK'
  <2>1. subject[d] \in Calls => audit' \in [Calls -> SUBSET Records]
    BY <1>2 DEF Decided, Record, Records, Verdicts
  <2>2. ASSUME subject[d] \notin Calls
        PROVE  audit' \in [Calls -> SUBSET Records]
    <3>1. PICK x : audit' = [audit EXCEPT ![subject[d]] = @ \cup {x}]
      BY <1>2 DEF Decided, Record
    <3>2. audit' = audit
      BY <3>1, <2>2
    <3> QED BY <3>2
  <2> QED BY <1>2, <2>1, <2>2 DEF Decided, Executing, Running, Answers, CoreStates
<1>3. ASSUME NEW d \in Decisions, NEW c \in Calls, NEW v \in Resolving, Resolve(d, c, v)
      PROVE  TypeOK'
  BY <1>3 DEF Resolve, Pop
<1> QED BY <1>1, <1>2, <1>3

\* The task of a tool keeps the types.
LEMMA TaskType ==
  ASSUME TypeOK, NEW h \in Handlers, TaskStep(h)
  PROVE  TypeOK'
<1> USE GatewayAssumption
    DEF TypeOK, stopVars, brokerVars, handlerVars, coreVars, privacyVars, Handlers,
        Goto, Answer, Executing, Running, Answers
<1>1. CASE StartTask(h)
  BY <1>1 DEF StartTask, Previous, CoreStates
<1>2. CASE Dispatch(h)
  BY <1>2 DEF Dispatch
<1>3. CASE ToolReturns(h)
  BY <1>3 DEF ToolReturns
<1>4. CASE Finish(h)
  BY <1>4 DEF Finish, Release, CoreStates
<1>5. CASE Fail(h)
  BY <1>5 DEF Fail, Release, CoreStates
<1>6. CASE DeliverCancel(h)
  BY <1>6 DEF DeliverCancel
<1>7. CASE CleanUp(h)
  BY <1>7 DEF CleanUp, Release, CoreStates
<1> QED BY <1>1, <1>2, <1>3, <1>4, <1>5, <1>6, <1>7 DEF TaskStep

\* A stop keeps the types.
LEMMA StopType ==
  ASSUME TypeOK, NEW s \in Stops,
         \/ BeginStop(s) \/ StopStep(s)
         \/ \E S \in SUBSET Calls : CancelPlan(s, S) \/ BeginCancel(s, S)
         \/ core' \in CoreStates /\ \E inHand \in AtMostOne : CutStop(s, inHand)
  PROVE  TypeOK'
<1> USE GatewayAssumption
    DEF TypeOK, stopVars, brokerVars, handlerVars, coreVars, privacyVars, StopPcs
<1>1. CASE BeginStop(s)
  <2> USE <1>1 DEF BeginStop
  <2>1. generation' \in Nat
    OBVIOUS
  <2>2. cancelling' \in SUBSET Handlers /\ changing' \in BOOLEAN
    OBVIOUS
  <2>3. stopPc' \in [Stops -> StopPcs]
    OBVIOUS
  <2> QED BY <2>1, <2>2, <2>3
<1>2. ASSUME NEW S \in SUBSET Calls, CancelPlan(s, S) \/ BeginCancel(s, S)
      PROVE  TypeOK'
  BY <1>2 DEF CancelPlan, BeginCancel
<1>3. ASSUME NEW c \in Calls, Revoke(s, c)
      PROVE  TypeOK'
  BY <1>3 DEF Revoke, Withdraw, Pop, Record, Records, Verdicts
<1>4. ASSUME NEW b \in BOOLEAN, ListPending(s, b) \/ EndStop(s, b) \/ EndCancel(s, b)
      PROVE  TypeOK'
  BY <1>4 DEF ListPending, Listed, EndStop, EndCancel, CoreStates
<1>5. CASE EndPrivacyChange(s)
  BY <1>5 DEF EndPrivacyChange
<1>6. ASSUME NEW inHand \in AtMostOne, CutStop(s, inHand), core' \in CoreStates
      PROVE  TypeOK'
  BY <1>6 DEF CutStop
<1> QED BY <1>1, <1>2, <1>3, <1>4, <1>5, <1>6 DEF StopStep, PlanConfirmations

\* Every step keeps the types.
LEMMA TypeStep ==
  ASSUME TypeOK, PlannedStep, core' \in CoreStates
  PROVE  TypeOK'
<1>1. CASE OthersMoveCore
  BY <1>1, GatewayAssumption
     DEF OthersMoveCore, TypeOK, stopVars, brokerVars, handlerVars, privacyVars
<1>2. CASE UNCHANGED RestVars
  BY <1>2 DEF RestVars, TypeOK, stopVars, brokerVars, handlerVars, privacyVars
<1> QED
  BY <1>1, <1>2, StepCases, RequestType, DecisionType, TaskType, StopType

\* The state of the gateway always has its type.
THEOREM TypeCorrect == Spec => []TypeOK
<1>1. Init => TypeOK
  <2> SUFFICES ASSUME Init PROVE TypeOK
    OBVIOUS
  <2> USE GatewayAssumption DEF Init, Handlers
  <2>1. stopPc \in [Stops -> StopPcs] /\ revoking \in [Stops -> SUBSET Calls]
    BY DEF StopPcs
  <2>2. /\ pending \in [Calls -> {"none", "live", "expired"}]
        /\ audit \in [Calls -> SUBSET Records]
    OBVIOUS
  <2>3. /\ pc \in [Handlers -> {"idle"} \cup Asking \cup Resolving \cup Executing \cup Answers]
        /\ since \in [Handlers -> Nat]
        /\ subject \in [Handlers -> Calls \cup {NoHandler}]
        /\ before \in [Handlers -> {"DORMANT", "THINKING"}]
    OBVIOUS
  <2>4. core \in CoreStates
    BY DEF CoreStates
  <2>5. restricted \in BOOLEAN
    OBVIOUS
  <2> QED BY <2>1, <2>2, <2>3, <2>4, <2>5 DEF TypeOK
<1>2. TypeOK /\ [Next]_gatewayVars => TypeOK'
  <2> SUFFICES ASSUME TypeOK, [Next]_gatewayVars PROVE TypeOK'
    OBVIOUS
  <2>1. core' \in CoreStates
    <3> USE GatewayAssumption DEF TypeOK, CoreStates, coreVars
    <3>1. ASSUME NEW c \in Calls, Request(c) \/ RequestStep(c) \/ Expire(c) \/ RecordLapse(c)
          PROVE  core' \in CoreStates
      BY <3>1 DEF Request, RequestStep, AliasFound, Authorised, ReviewReady, Proposed, Expire,
                  RecordLapse
    <3>2. ASSUME NEW d \in Decisions,
                 Decided(d) \/ \E c \in Calls, v \in Resolving : Resolve(d, c, v)
          PROVE  core' \in CoreStates
      BY <3>2 DEF Decided, Resolve
    <3>3. ASSUME NEW h \in Handlers, TaskStep(h)
          PROVE  core' \in CoreStates
      BY <3>3 DEF TaskStep, StartTask, Dispatch, ToolReturns, Finish, Fail, Release, DeliverCancel,
                  CleanUp
    <3>4. ASSUME NEW s \in Stops,
                 \/ BeginStop(s) \/ StopStep(s)
                 \/ \E inHand \in AtMostOne : CutStop(s, inHand)
                 \/ \E S \in SUBSET PlanConfirmations : BeginCancel(s, S)
          PROVE  core' \in CoreStates
      BY <3>4 DEF BeginStop, StopStep, CancelPlan, BeginCancel, Revoke, ListPending, EndStop,
                  EndCancel, EndPrivacyChange, CutStop
    <3>5. CASE Prune \/ OthersMoveCore \/ UNCHANGED gatewayVars
      BY <3>5 DEF Prune, OthersMoveCore, gatewayVars
    <3> QED BY <3>1, <3>2, <3>3, <3>4, <3>5 DEF Next, HandlerStep, ExpiryStep
  <2> QED BY <2>1, OwnStep, TypeStep
<1> QED BY <1>1, <1>2, PTL DEF Spec

--------------------------------------------------------------------------------
(* No dispatch across a stop *)

\* A tool task that has not dispatched its tool and is not being cancelled belongs
\* to a handler of the current generation: this is what BeginStop, which cancels
\* the tasks and starts a generation in one step, keeps true.
FreshTasks ==
  \A h \in Handlers : pc[h] \in {"spawned", "starting"} /\ h \notin cancelling => ~Stale(h)

\* Every step of the gateway keeps the waiting tasks fresh.
LEMMA FreshTasksStep ==
  ASSUME TypeOK, FreshTasks, PlannedStep
  PROVE  FreshTasks'
<1> USE GatewayAssumption
    DEF FreshTasks, TypeOK, Stale, Handlers, Goto, Answer,
        stopVars, brokerVars, handlerVars, coreVars, privacyVars
<1>1. ASSUME NEW c \in Calls, RequestCall(c) PROVE FreshTasks'
  BY <1>1 DEF RequestCall, Admit, Propose
<1>2. ASSUME NEW c \in Calls, AliasFound(c) PROVE FreshTasks'
  BY <1>2 DEF AliasFound, Admit, Propose
<1>3. ASSUME NEW c \in Calls, Authorised(c) PROVE FreshTasks'
  BY <1>3 DEF Authorised, GateOpen
<1>4. ASSUME NEW c \in Calls, ReviewReady(c) \/ Proposed(c) \/ Expire(c) PROVE FreshTasks'
  BY <1>4 DEF ReviewReady, Propose, Proposed, Expire
<1>5. ASSUME NEW d \in Decisions, Decided(d) PROVE FreshTasks'
  BY <1>5 DEF Decided, GateOpen
<1>6. ASSUME NEW d \in Decisions, NEW c \in Calls, NEW v \in Resolving, Resolve(d, c, v)
      PROVE  FreshTasks'
  BY <1>6 DEF Resolve, Resolving
<1>7. ASSUME NEW h \in Handlers, TaskStep(h) PROVE FreshTasks'
  <2> USE <1>7
  <2>1. CASE StartTask(h)   BY <2>1 DEF StartTask
  <2>2. CASE Dispatch(h)    BY <2>2 DEF Dispatch
  <2>3. CASE ToolReturns(h) BY <2>3 DEF ToolReturns
  <2>4. CASE Finish(h)      BY <2>4 DEF Finish
  <2>5. CASE Fail(h)        BY <2>5 DEF Fail
  <2>6. CASE DeliverCancel(h) BY <2>6 DEF DeliverCancel
  <2>7. CASE CleanUp(h)     BY <2>7 DEF CleanUp
  <2> QED BY <2>1, <2>2, <2>3, <2>4, <2>5, <2>6, <2>7 DEF TaskStep
<1>8. ASSUME NEW s \in Stops, BeginStop(s) PROVE FreshTasks'
  BY <1>8 DEF BeginStop, Running
<1>9. CASE \/ ExpiryStep
           \/ OthersMoveCore
           \/ \E s \in Stops : \/ StopStep(s)
                              \/ \E S \in SUBSET Calls : CancelPlan(s, S) \/ BeginCancel(s, S)
                              \/ \E inHand \in AtMostOne : CutStop(s, inHand)
           \/ UNCHANGED RestVars
  <2>1. UNCHANGED <<generation, pc, since, cancelling>>
    BY <1>9 DEF ExpiryStep, Prune, RecordLapse, OthersMoveCore, StopStep, BeginCancel, CutStop,
                CancelPlan, Revoke, ListPending, EndStop, EndCancel, EndPrivacyChange, RestVars
  <2> QED BY <2>1
<1> QED
  BY <1>1, <1>2, <1>3, <1>4, <1>5, <1>6, <1>7, <1>8, <1>9, StepCases DEF RequestStep

\* Only Dispatch hands a tool to its executor.
LEMMA OnlyDispatch ==
  ASSUME TypeOK, PlannedStep, dispatched' # dispatched
  PROVE  \E h \in Handlers : Dispatch(h)
<1> USE DEF stopVars, brokerVars, handlerVars, coreVars, privacyVars, Goto, Answer
<1>1. ASSUME NEW c \in Calls, RequestCall(c) PROVE FALSE
  BY <1>1 DEF RequestCall
<1>2. ASSUME NEW c \in Calls, RequestStep(c) \/ Expire(c) PROVE FALSE
  BY <1>2 DEF RequestStep, AliasFound, Authorised, ReviewReady, Proposed, Expire
<1>3. ASSUME NEW d \in Decisions, NEW c \in Calls, NEW v \in Resolving,
             Decided(d) \/ Resolve(d, c, v)
      PROVE  FALSE
  BY <1>3 DEF Decided, Resolve
<1>4. ASSUME NEW h \in Handlers, TaskStep(h), ~Dispatch(h) PROVE FALSE
  BY <1>4 DEF TaskStep, StartTask, ToolReturns, Finish, Fail, DeliverCancel, CleanUp
<1>5. ASSUME NEW s \in Stops,
             \/ BeginStop(s) \/ StopStep(s)
             \/ \E S \in SUBSET Calls : CancelPlan(s, S) \/ BeginCancel(s, S)
             \/ \E inHand \in AtMostOne : CutStop(s, inHand)
      PROVE  FALSE
  BY <1>5 DEF BeginStop, StopStep, BeginCancel, CancelPlan, Revoke, ListPending, EndStop,
              EndCancel, EndPrivacyChange, CutStop
<1>6. ~(ExpiryStep \/ OthersMoveCore \/ UNCHANGED RestVars)
  BY DEF ExpiryStep, Prune, RecordLapse, OthersMoveCore, RestVars
<1>7. ~\E d \in Decisions : Decided(d)
  BY DEF Decided
<1> QED BY <1>1, <1>2, <1>3, <1>4, <1>5, <1>6, <1>7, StepCases

\* Whatever a stop overtakes, no tool is dispatched for a handler from before it.
THEOREM StopHolds == Spec => NoDispatchAcrossStop
<1>1. Init => FreshTasks
  BY DEF Init, FreshTasks
<1>2. TypeOK /\ FreshTasks /\ [Next]_gatewayVars => FreshTasks'
  BY OwnStep, FreshTasksStep
<1>3. TypeOK /\ FreshTasks /\ [Next]_gatewayVars
        => [\A h \in dispatched' \ dispatched : ~Stale(h)]_gatewayVars
  <2> SUFFICES ASSUME TypeOK, FreshTasks, [Next]_gatewayVars,
                      NEW h \in dispatched' \ dispatched
               PROVE  ~Stale(h)
    OBVIOUS
  <2>1. PICK g \in Handlers : Dispatch(g)
    BY OwnStep, OnlyDispatch
  <2>2. g = h
    BY <2>1 DEF Dispatch
  <2> QED BY <2>1, <2>2 DEF Dispatch, FreshTasks
<1> QED BY <1>1, <1>2, <1>3, TypeCorrect, PTL DEF Spec, NoDispatchAcrossStop

--------------------------------------------------------------------------------
(* The privacy policy at dispatch *)

Underway(s) == stopPc[s] \notin {"idle", "over", "cut"}

\* A privacy change marks the policy as long as it is under way, at most one is,
\* and a task that still waits for its journal row was started under a settled
\* policy that allows its tool and has not changed since.
PolicyInv ==
  /\ \A s \in Stops : stopPc[s] = "applying" => s \in PrivacyChanges
  /\ \A s \in PrivacyChanges : Underway(s) => changing
  /\ \A s, t \in PrivacyChanges : Underway(s) /\ Underway(t) => s = t
  /\ \A h \in Handlers : pc[h] = "starting" /\ h \notin cancelling =>
       ~changing /\ (restricted => subject[h] \notin Sensitive)

\* Every step of the gateway keeps the policy of the waiting tasks settled.
LEMMA PolicyStep ==
  ASSUME TypeOK, PolicyInv, PlannedStep
  PROVE  PolicyInv'
<1> USE GatewayAssumption
    DEF PolicyInv, Underway, TypeOK, Handlers, Goto, Answer,
        stopVars, brokerVars, handlerVars, coreVars, privacyVars
<1>1. ASSUME NEW c \in Calls, RequestCall(c) \/ RequestStep(c) \/ Expire(c) PROVE PolicyInv'
  BY <1>1 DEF RequestCall, RequestStep, AliasFound, Authorised, ReviewReady, Proposed,
              Expire, Admit, Propose
<1>2. ASSUME NEW d \in Decisions, Decided(d) PROVE PolicyInv'
  BY <1>2 DEF Decided
<1>3. ASSUME NEW d \in Decisions, NEW c \in Calls, NEW v \in Resolving, Resolve(d, c, v)
      PROVE  PolicyInv'
  BY <1>3 DEF Resolve, Resolving
<1>4. ASSUME NEW h \in Handlers, TaskStep(h) PROVE PolicyInv'
  <2>1. CASE StartTask(h)
    BY <2>1 DEF StartTask, PolicyError
  <2>2. CASE Dispatch(h) \/ ToolReturns(h) \/ Finish(h) \/ Fail(h) \/ CleanUp(h)
    BY <2>2 DEF Dispatch, ToolReturns, Finish, Fail, CleanUp
  <2>3. CASE DeliverCancel(h)
    BY <2>3 DEF DeliverCancel
  <2> QED BY <1>4, <2>1, <2>2, <2>3 DEF TaskStep
<1>5. ASSUME NEW s \in Stops, BeginStop(s) PROVE PolicyInv'
  BY <1>5 DEF BeginStop, Running
<1>6. ASSUME NEW s \in Stops, StopStep(s) PROVE PolicyInv'
  <2>1. ASSUME NEW S \in SUBSET PlanConfirmations, CancelPlan(s, S) PROVE PolicyInv'
    BY <2>1 DEF CancelPlan
  <2>2. ASSUME NEW c \in Calls, Revoke(s, c) PROVE PolicyInv'
    BY <2>2 DEF Revoke
  <2>3. ASSUME NEW b \in BOOLEAN, ListPending(s, b) \/ EndCancel(s, b) PROVE PolicyInv'
    BY <2>3 DEF ListPending, EndCancel
  <2>4. ASSUME NEW b \in BOOLEAN, EndStop(s, b) PROVE PolicyInv'
    BY <2>4 DEF EndStop
  <2>5. CASE EndPrivacyChange(s)
    BY <2>5 DEF EndPrivacyChange
  <2> QED BY <1>6, <2>1, <2>2, <2>3, <2>4, <2>5 DEF StopStep
<1>7. ASSUME NEW s \in Stops, NEW S \in SUBSET Calls, CancelPlan(s, S) \/ BeginCancel(s, S)
      PROVE  PolicyInv'
  BY <1>7 DEF CancelPlan, BeginCancel
<1>8. CASE ExpiryStep \/ OthersMoveCore \/ UNCHANGED RestVars
  BY <1>8 DEF ExpiryStep, Prune, RecordLapse, OthersMoveCore, RestVars
<1>9. ASSUME NEW s \in Stops, NEW inHand \in AtMostOne, CutStop(s, inHand) PROVE PolicyInv'
  BY <1>9 DEF CutStop
<1> QED
  BY <1>1, <1>2, <1>3, <1>4, <1>5, <1>6, <1>7, <1>8, <1>9, StepCases

\* A tool is dispatched under a settled privacy mode that allows it.
THEOREM PolicyHolds == Spec => PolicyAtDispatch
<1>1. Init => PolicyInv
  BY GatewayAssumption DEF Init, PolicyInv, Underway
<1>2. TypeOK /\ PolicyInv /\ [Next]_gatewayVars => PolicyInv'
  BY OwnStep, PolicyStep
<1>3. TypeOK /\ PolicyInv /\ [Next]_gatewayVars
        => [\A h \in dispatched' \ dispatched :
              ~changing /\ (restricted => subject[h] \notin Sensitive)]_gatewayVars
  <2> SUFFICES ASSUME TypeOK, PolicyInv, [Next]_gatewayVars,
                      NEW h \in dispatched' \ dispatched
               PROVE  ~changing /\ (restricted => subject[h] \notin Sensitive)
    OBVIOUS
  <2>1. PICK g \in Handlers : Dispatch(g)
    BY OwnStep, OnlyDispatch
  <2>2. g = h
    BY <2>1 DEF Dispatch
  <2> QED BY <2>1, <2>2 DEF Dispatch, PolicyInv
<1> QED BY <1>1, <1>2, <1>3, TypeCorrect, PTL DEF Spec, PolicyAtDispatch

--------------------------------------------------------------------------------
(* No confirmation outlives a stop *)

\* A live confirmation from before the last stop is one that a stop in progress has
\* still to list, or has listed and has still to revoke, or one a cut stop left.
StaleRevoked ==
  \A c \in Calls : Live(c) /\ Stale(c) =>
    \E s \in Stops : \/ stopPc[s] \in {"begun", "plan", "cut"}
                     \/ stopPc[s] = "all" /\ c \in revoking[s]

\* Every step of the gateway leaves the stale confirmations to a stop.
LEMMA StaleRevokedStep ==
  ASSUME TypeOK, StaleRevoked, PlannedStep
  PROVE  StaleRevoked'
<1> USE GatewayAssumption
    DEF StaleRevoked, Live, Stale, TypeOK, Handlers, Goto, Answer, Pop,
        stopVars, brokerVars, handlerVars, coreVars, privacyVars
<1>1. ASSUME NEW c \in Calls, RequestCall(c) \/ RequestStep(c) \/ Expire(c) PROVE StaleRevoked'
  <2>1. CASE RequestCall(c)
    BY <2>1 DEF RequestCall, Admit, Propose
  <2>2. CASE AliasFound(c)
    BY <2>2 DEF AliasFound, Admit, Propose
  <2>4. CASE ReviewReady(c)
    BY <2>4 DEF Propose, ReviewReady
  <2>3. CASE Authorised(c) \/ Proposed(c) \/ Expire(c)
    BY <2>3 DEF Authorised, Proposed, Expire
  <2> QED BY <1>1, <2>1, <2>2, <2>3, <2>4 DEF RequestStep
<1>2. ASSUME NEW d \in Decisions, Decided(d) PROVE StaleRevoked'
  BY <1>2 DEF Decided
<1>3. ASSUME NEW d \in Decisions, NEW c \in Calls, NEW v \in Resolving, Resolve(d, c, v)
      PROVE  StaleRevoked'
  BY <1>3 DEF Resolve
<1>4. ASSUME NEW h \in Handlers, TaskStep(h) PROVE StaleRevoked'
  BY <1>4 DEF TaskStep, StartTask, Dispatch, ToolReturns, Finish, Fail, DeliverCancel, CleanUp
<1>5. ASSUME NEW s \in Stops, BeginStop(s) PROVE StaleRevoked'
  BY <1>5 DEF BeginStop
<1>6. ASSUME NEW s \in Stops, StopStep(s) PROVE StaleRevoked'
  <2>1. ASSUME NEW S \in SUBSET PlanConfirmations, CancelPlan(s, S) PROVE StaleRevoked'
    BY <2>1 DEF CancelPlan
  <2>2. ASSUME NEW c \in Calls, Revoke(s, c) PROVE StaleRevoked'
    BY <2>2 DEF Revoke, Withdraw
  <2>3. ASSUME NEW b \in BOOLEAN, ListPending(s, b) PROVE StaleRevoked'
    BY <2>3 DEF ListPending, Listed
  <2>4. ASSUME NEW b \in BOOLEAN, EndStop(s, b) \/ EndCancel(s, b) PROVE StaleRevoked'
    BY <2>4 DEF EndStop, EndCancel
  <2>5. CASE EndPrivacyChange(s)
    BY <2>5 DEF EndPrivacyChange
  <2> QED BY <1>6, <2>1, <2>2, <2>3, <2>4, <2>5 DEF StopStep
<1>7. ASSUME NEW s \in Stops, NEW S \in SUBSET Calls, CancelPlan(s, S) \/ BeginCancel(s, S)
      PROVE  StaleRevoked'
  BY <1>7 DEF CancelPlan, BeginCancel
<1>8. CASE ExpiryStep
  BY <1>8 DEF ExpiryStep, Prune, RecordLapse
<1>9. CASE OthersMoveCore \/ UNCHANGED RestVars
  BY <1>9 DEF OthersMoveCore, RestVars
<1>10. ASSUME NEW s \in Stops, NEW inHand \in AtMostOne, CutStop(s, inHand)
       PROVE  StaleRevoked'
  BY <1>10 DEF CutStop
<1> QED
  BY <1>1, <1>2, <1>3, <1>4, <1>5, <1>6, <1>7, <1>8, <1>9, <1>10, StepCases

\* Without a stop in progress no confirmation is left to one.
LEMMA InvFresh ==
  ASSUME StaleRevoked
  PROVE  NoStaleConfirmation
BY DEF StaleRevoked, NoStaleConfirmation, Stopping

\* When no stop is in progress, every live confirmation is younger than the last.
THEOREM ConfirmationsFresh == Spec => []NoStaleConfirmation
<1>1. Init => StaleRevoked
  BY DEF Init, StaleRevoked, Live
<1>2. TypeOK /\ StaleRevoked /\ [Next]_gatewayVars => StaleRevoked'
  BY OwnStep, StaleRevokedStep
<1> QED BY <1>1, <1>2, InvFresh, TypeCorrect, PTL DEF Spec

--------------------------------------------------------------------------------
(* Consent: one decision for a confirmation, one execution for a call *)

Undecided(c) == \A v \in Verdicts : v \notin audit[c]
Approved(c)  == \A v \in Verdicts : v \in audit[c] <=> v = "APPROVED"

\* A handler that has started is about one call; two decisions are never about the
\* same, because resolve takes the confirmation away.
SubjectInv ==
  /\ \A c \in Calls : subject[c] = c
  /\ \A d \in Decisions : pc[d] # "idle" => subject[d] \in Confirmed
  /\ \A d, e \in Decisions : pc[d] # "idle" /\ pc[e] # "idle" /\ subject[d] = subject[e] => d = e
  /\ \A d \in Decisions : d \in dispatched => pc[d] # "idle"

\* A confirmation that can still come, or that is there, has not been decided.
PendingInv ==
  /\ \A c \in Calls : pc[c] = "review" => c \in Confirmed
  /\ \A c \in Calls : pc[c] = "authorising" => c \notin Confirmed
  /\ \A c \in Calls :
       pc[c] \in {"idle", "lookup", "review"} \/ pending[c] # "none" \/ c \in lapsed =>
         Undecided(c) /\ \A d \in Decisions : pc[d] # "idle" => subject[d] # c
  /\ \A c \in Calls : pc[c] \in {"idle", "lookup", "review"} \/ c \in lapsed => pending[c] = "none"
  /\ \A c \in lapsed : pc[c] \notin {"idle", "lookup", "review"}
  /\ \A c \in Calls : pending[c] # "none" => c \in Confirmed

\* A decision is recorded once, when its handler leaves Resolving.
VerdictInv ==
  /\ \A d \in Decisions : pc[d] \in Resolving => Undecided(subject[d])
  /\ \A c \in Calls, v, w \in Verdicts : v \in audit[c] /\ w \in audit[c] => v = w

\* Only a task is cancelled, and what executes, or was dispatched, was consented to.
ConsentInv ==
  /\ \A h \in cancelling : pc[h] \in Running
  /\ \A c \in Calls : pc[c] \in Executing \/ c \in dispatched =>
       c \notin Confirmed /\ "AUTO_APPROVED" \in audit[c]
  /\ \A d \in Decisions : pc[d] \in Executing \/ d \in dispatched => Approved(subject[d])

DecisionInv == SubjectInv /\ PendingInv /\ VerdictInv /\ ConsentInv

\* Every step of the gateway keeps the decisions and the consents in order.
LEMMA DecisionStep ==
  ASSUME TypeOK, DecisionInv, PlannedStep
  PROVE  DecisionInv'
<1> USE GatewayAssumption
    DEF DecisionInv, SubjectInv, PendingInv, VerdictInv, ConsentInv, Undecided, Approved,
        TypeOK, Handlers, Goto, Answer, Pop, Record, Verdicts, Resolving, Executing, Running,
        stopVars, brokerVars, handlerVars, coreVars, privacyVars
<1>1. ASSUME NEW c \in Calls, RequestCall(c) PROVE DecisionInv'
  BY <1>1 DEF RequestCall, Admit, Propose
<1>2. ASSUME NEW c \in Calls, AliasFound(c) PROVE DecisionInv'
  BY <1>2 DEF AliasFound, Admit, Propose
<1>3. ASSUME NEW c \in Calls, Authorised(c) PROVE DecisionInv'
  BY <1>3 DEF Authorised
<1>4. ASSUME NEW c \in Calls, ReviewReady(c) PROVE DecisionInv'
  BY <1>4 DEF ReviewReady, Propose
<1>5. ASSUME NEW c \in Calls, Proposed(c) PROVE DecisionInv'
  BY <1>5 DEF Proposed
<1>6. ASSUME NEW c \in Calls, Expire(c) PROVE DecisionInv'
  BY <1>6 DEF Expire, Live
<1>7. ASSUME NEW d \in Decisions, Decided(d) PROVE DecisionInv'
  BY <1>7 DEF Decided
<1>8. ASSUME NEW d \in Decisions, NEW c \in Calls, NEW v \in Resolving, Resolve(d, c, v)
      PROVE  DecisionInv'
  BY <1>8 DEF Resolve, Live
<1>9. CASE ExpiryStep
  BY <1>9 DEF ExpiryStep, Prune, RecordLapse
<1>10. ASSUME NEW h \in Handlers, TaskStep(h) PROVE DecisionInv'
  <2>1. CASE StartTask(h)   BY <2>1 DEF StartTask
  <2>2. CASE Dispatch(h)    BY <2>2 DEF Dispatch
  <2>3. CASE ToolReturns(h) BY <2>3 DEF ToolReturns
  <2>4. CASE Finish(h)      BY <2>4 DEF Finish
  <2>5. CASE Fail(h)        BY <2>5 DEF Fail
  <2>6. CASE DeliverCancel(h) BY <2>6 DEF DeliverCancel
  <2>7. CASE CleanUp(h)     BY <2>7 DEF CleanUp
  <2> QED BY <1>10, <2>1, <2>2, <2>3, <2>4, <2>5, <2>6, <2>7 DEF TaskStep
<1>11. ASSUME NEW s \in Stops, NEW c \in Calls, Revoke(s, c) PROVE DecisionInv'
  BY <1>11 DEF Revoke, Withdraw
<1>12. CASE UNCHANGED <<pending, lapsed, audit, pc, subject, cancelling, dispatched>>
  BY <1>12
<1>13. ASSUME NEW s \in Stops,
              \/ BeginStop(s) \/ StopStep(s)
              \/ \E S \in SUBSET Calls : CancelPlan(s, S) \/ BeginCancel(s, S)
       PROVE  DecisionInv'
  <2>1. CASE BeginStop(s)
    BY <2>1 DEF BeginStop
  <2>2. CASE StopStep(s) \/ \E S \in SUBSET Calls : CancelPlan(s, S) \/ BeginCancel(s, S)
    BY <1>11, <1>12, <2>2
       DEF StopStep, BeginCancel, CancelPlan, ListPending, EndStop, EndCancel, EndPrivacyChange
  <2> QED BY <1>13, <2>1, <2>2
<1>14. CASE OthersMoveCore \/ UNCHANGED RestVars
  BY <1>12, <1>14 DEF OthersMoveCore, RestVars
<1>15. ASSUME NEW c \in Calls, RequestStep(c) PROVE DecisionInv'
  BY <1>2, <1>3, <1>4, <1>5, <1>15 DEF RequestStep
<1>16. ASSUME NEW s \in Stops, NEW inHand \in AtMostOne, CutStop(s, inHand)
       PROVE  DecisionInv'
  BY <1>16 DEF CutStop
<1> QED
  BY <1>1, <1>6, <1>7, <1>8, <1>9, <1>10, <1>13, <1>14, <1>15, <1>16, StepCases

\* The decisions and consents are in order in every reachable state.
LEMMA DecisionsInOrder == Spec => [](TypeOK /\ DecisionInv)
<1>1. Init => DecisionInv
  BY GatewayAssumption
     DEF Init, DecisionInv, SubjectInv, PendingInv, VerdictInv, ConsentInv, Undecided, Approved,
         Handlers, Resolving, Executing, Running
<1>2. TypeOK /\ DecisionInv /\ [Next]_gatewayVars => DecisionInv'
  BY OwnStep, DecisionStep
<1> QED BY <1>1, <1>2, TypeCorrect, PTL DEF Spec

\* What was dispatched in such a state was consented to.
LEMMA InvConsent ==
  ASSUME TypeOK, DecisionInv
  PROVE  ConsentBeforeDispatch
BY GatewayAssumption
   DEF TypeOK, DecisionInv, SubjectInv, ConsentInv, Approved, ConsentBeforeDispatch,
       Handlers, Verdicts

\* A tool is dispatched only with the consent its confirmation asks for.
THEOREM ConsentHolds == Spec => []ConsentBeforeDispatch
BY InvConsent, DecisionsInOrder, PTL

\* A call was dispatched once.
LEMMA InvOnce ==
  ASSUME TypeOK, DecisionInv
  PROVE  DispatchedOnce
BY GatewayAssumption
   DEF TypeOK, DecisionInv, SubjectInv, ConsentInv, DispatchedOnce, Handlers

\* No call is dispatched twice, whatever the clients decide.
THEOREM AtMostOnce == Spec => []DispatchedOnce
BY InvOnce, DecisionsInOrder, PTL

\* A confirmation has one verdict.
LEMMA InvDecided ==
  ASSUME TypeOK, DecisionInv
  PROVE  DecidedOnce
<1> SUFFICES ASSUME NEW c \in Calls
             PROVE  Cardinality(audit[c] \cap Verdicts) <= 1
  BY DEF DecidedOnce
<1>1. CASE audit[c] \cap Verdicts = {}
  BY <1>1, FS_EmptySet
<1>2. ASSUME NEW v \in audit[c] \cap Verdicts
      PROVE  Cardinality(audit[c] \cap Verdicts) <= 1
  <2>1. audit[c] \cap Verdicts = {v}
    BY <1>2 DEF DecisionInv, VerdictInv
  <2>2. Cardinality({v}) = 1
    BY FS_Singleton
  <2> QED BY <2>1, <2>2
<1> QED BY <1>1, <1>2

\* No confirmation is settled twice.
THEOREM OneDecision == Spec => []DecidedOnce
BY InvDecided, DecisionsInOrder, PTL

--------------------------------------------------------------------------------
(* The core state has an owner *)

\* The owner of the core state took it to USING_TOOL itself, and has not answered
\* since, unless a stop interrupted the record of its failure.
CoreInv ==
  /\ core = "USING_TOOL" => owner # NoHandler
  /\ owner # NoHandler =>
       /\ owner \notin PlanOwned
       /\ pc[owner] \in (Executing \ {"spawned"}) \cup {"abandoned"}

\* Every step of the gateway keeps an owner of the core state.
LEMMA CoreStep ==
  ASSUME TypeOK, CoreInv, [Next]_gatewayVars
  PROVE  CoreInv'
<1> USE GatewayAssumption
    DEF CoreInv, TypeOK, Handlers, Goto, Answer, Executing, Running,
        stopVars, brokerVars, handlerVars, coreVars, privacyVars
<1>1. ASSUME NEW c \in Calls, Request(c) \/ RequestStep(c) \/ Expire(c) PROVE CoreInv'
  BY <1>1 DEF Request, RequestCall, RequestStep, AliasFound, Authorised, ReviewReady, Proposed,
              Expire, Admit, Propose
<1>2. ASSUME NEW d \in Decisions, Decided(d) PROVE CoreInv'
  BY <1>2 DEF Decided, Resolving
<1>3. ASSUME NEW d \in Decisions, NEW c \in Calls, NEW v \in Resolving, Resolve(d, c, v)
      PROVE  CoreInv'
  BY <1>3 DEF Resolve
<1>4. ASSUME NEW h \in Handlers, TaskStep(h) PROVE CoreInv'
  <2> USE DEF OwnsCore, PreservesState
  <2>1. CASE StartTask(h)   BY <2>1 DEF StartTask
  <2>2. CASE Dispatch(h) \/ ToolReturns(h) \/ DeliverCancel(h)
    BY <2>2 DEF Dispatch, ToolReturns, DeliverCancel
  <2>3. CASE Finish(h)      BY <2>3 DEF Finish, Release
  <2>4. CASE Fail(h)        BY <2>4 DEF Fail, Release
  <2>5. CASE CleanUp(h)     BY <2>5 DEF CleanUp, Release
  <2> QED BY <1>4, <2>1, <2>2, <2>3, <2>4, <2>5 DEF TaskStep
<1>5. ASSUME NEW s \in Stops,
             \/ BeginStop(s) \/ StopStep(s)
             \/ \E S \in SUBSET PlanConfirmations : BeginCancel(s, S)
             \/ \E inHand \in AtMostOne : CutStop(s, inHand)
      PROVE  CoreInv'
  BY <1>5 DEF BeginStop, StopStep, BeginCancel, CancelPlan, Revoke, ListPending, EndStop,
              EndCancel, EndPrivacyChange, CutStop
<1>6. CASE ExpiryStep \/ OthersMoveCore \/ UNCHANGED gatewayVars
  BY <1>6 DEF ExpiryStep, Prune, RecordLapse, OthersMoveCore, gatewayVars
<1> QED BY <1>1, <1>2, <1>3, <1>4, <1>5, <1>6 DEF Next, HandlerStep

\* The core is in USING_TOOL only with an owner that is responsible for leaving it.
THEOREM CoreOwned == Spec => []CoreHasOwner
<1>1. Init => CoreInv
  BY DEF Init, CoreInv
<1>2. TypeOK /\ CoreInv /\ [Next]_gatewayVars => CoreInv'
  BY CoreStep
<1>3. CoreInv => CoreHasOwner
  BY DEF CoreInv, CoreHasOwner
<1> QED BY <1>1, <1>2, <1>3, TypeCorrect, PTL DEF Spec

--------------------------------------------------------------------------------
(* The gateway implements its contract *)

Past == (Executing \ {"spawned", "starting"}) \cup Answers

\* No handler is ahead of the last stop, a dispatched one is past its dispatch, and
\* only a decision resolves a confirmation.
TicketInv ==
  /\ \A h \in Handlers : since[h] <= generation
  /\ \A h \in dispatched : pc[h] \in Past
  /\ \A c \in Calls : pc[c] \notin Resolving

GatewayInv == TypeOK /\ FreshTasks /\ DecisionInv /\ TicketInv

\* Every step of the gateway keeps the tickets in order.
LEMMA TicketInvStep ==
  ASSUME TypeOK, DecisionInv, TicketInv, PlannedStep
  PROVE  TicketInv'
<1> USE GatewayAssumption
    DEF TicketInv, Past, TypeOK, Handlers, Goto, Answer, Answers, Executing, Running, Resolving,
        stopVars, brokerVars, handlerVars, coreVars, privacyVars
<1>1. ASSUME NEW c \in Calls, RequestCall(c) PROVE TicketInv'
  BY <1>1 DEF RequestCall, Admit, Propose
<1>2. ASSUME NEW c \in Calls, RequestStep(c) PROVE TicketInv'
  <2>1. CASE AliasFound(c)  BY <2>1 DEF AliasFound, Admit, Propose
  <2>2. CASE Authorised(c)  BY <2>2 DEF Authorised
  <2>3. CASE ReviewReady(c) BY <2>3 DEF ReviewReady, Propose
  <2>4. CASE Proposed(c)    BY <2>4 DEF Proposed
  <2> QED BY <1>2, <2>1, <2>2, <2>3, <2>4 DEF RequestStep
<1>3. ASSUME NEW d \in Decisions, Decided(d) PROVE TicketInv'
  BY <1>3 DEF Decided
<1>4. ASSUME NEW d \in Decisions, NEW c \in Calls, NEW v \in Resolving, Resolve(d, c, v)
      PROVE  TicketInv'
  BY <1>4 DEF Resolve
<1>5. ASSUME NEW h \in Handlers, TaskStep(h) PROVE TicketInv'
  <2>1. CASE StartTask(h)   BY <2>1 DEF StartTask
  <2>2. CASE Dispatch(h)    BY <2>2 DEF Dispatch
  <2>3. CASE ToolReturns(h) \/ Finish(h) \/ Fail(h) \/ CleanUp(h)
    BY <2>3 DEF ToolReturns, Finish, Fail, CleanUp
  <2>4. CASE DeliverCancel(h) BY <2>4 DEF DeliverCancel
  <2> QED BY <1>5, <2>1, <2>2, <2>3, <2>4 DEF TaskStep
<1>6. ASSUME NEW s \in Stops, BeginStop(s) PROVE TicketInv'
  BY <1>6 DEF BeginStop
<1>7. CASE UNCHANGED <<generation, since, dispatched, pc>>
  BY <1>7
<1>8. ASSUME NEW s \in Stops,
             \/ StopStep(s) \/ \E S \in SUBSET Calls : CancelPlan(s, S) \/ BeginCancel(s, S)
             \/ \E inHand \in AtMostOne : CutStop(s, inHand)
      PROVE  TicketInv'
  BY <1>7, <1>8 DEF StopStep, BeginCancel, CancelPlan, Revoke, ListPending, EndStop, EndCancel,
                    EndPrivacyChange, CutStop
<1>9. CASE ExpiryStep \/ OthersMoveCore \/ (\E c \in Calls : Expire(c)) \/ UNCHANGED RestVars
  BY <1>7, <1>9 DEF ExpiryStep, Prune, RecordLapse, OthersMoveCore, Expire, RestVars
<1> QED BY <1>1, <1>2, <1>3, <1>4, <1>5, <1>6, <1>8, <1>9, StepCases

--------------------------------------------------------------------------------
(* Reading a ticket *)

\* The handlers that have the consent to their call, or had it before a stop came.
Carries(h) ==
  \/ h \in dispatched
  \/ pc[h] \in {"authorising", "approving", "spawned", "starting"}
  \/ h \in Calls \ Confirmed /\ pc[h] = "lookup"

\* A call has one carrier of its consent.
LEMMA OneCarrier ==
  ASSUME GatewayInv, NEW g \in Handlers, NEW h \in Handlers,
         Carries(g), Carries(h), subject[g] = subject[h]
  PROVE  g = h
<1> USE GatewayAssumption DEF GatewayInv, Handlers
<1>1. \A k \in Calls : subject[k] = k /\ (Carries(k) => k \notin Confirmed)
  BY DEF DecisionInv, SubjectInv, PendingInv, ConsentInv, TicketInv, Carries, HoldsGrant,
         Executing, Running, Resolving
<1>2. \A d \in Decisions : Carries(d) => subject[d] \in Confirmed /\ pc[d] # "idle"
  BY DEF DecisionInv, SubjectInv, Carries, HoldsGrant
<1>3. CASE g \in Decisions /\ h \in Decisions
  BY <1>2, <1>3 DEF DecisionInv, SubjectInv
<1> QED BY <1>1, <1>2, <1>3

\* The ticket of a call, read from its place.
LEMMA TicketRead ==
  ASSUME GatewayInv, NEW c \in Calls
  PROVE  /\ Live(c) => TicketOf(c) = "proposed"
         /\ pc[c] = "idle" \/ (c \in Confirmed /\ pc[c] \in {"lookup", "review"})
              => TicketOf(c) = "new"
         /\ \A h \in Handlers : subject[h] = c /\ HoldsGrant(h) => TicketOf(c) = "granted"
<1> USE GatewayAssumption DEF GatewayInv, Handlers
<1>1. ASSUME Live(c) \/ pc[c] = "idle" \/ (c \in Confirmed /\ pc[c] \in {"lookup", "review"}),
             NEW h \in Handlers, subject[h] = c
      PROVE  ~Carries(h)
  <2>1. CASE h \in Decisions
    <3>1. pc[h] = "idle"
      BY <1>1, <2>1 DEF DecisionInv, PendingInv, Live
    <3> QED BY <2>1, <3>1 DEF DecisionInv, SubjectInv, Carries, HoldsGrant
  <2>2. CASE h \in Calls
    <3>1. h = c
      BY <1>1, <2>2 DEF DecisionInv, SubjectInv
    <3>2. h \notin dispatched
      <4>1. CASE pc[c] = "idle"
        BY <3>1, <4>1 DEF TicketInv, Past, Executing, Running, Answers
      <4>2. CASE c \in Confirmed
        BY <3>1, <4>2 DEF DecisionInv, ConsentInv
      <4> QED BY <1>1, <4>1, <4>2 DEF DecisionInv, PendingInv, Live
    <3>3. ~Carries(h)
      <4>1. CASE pc[c] = "idle"
        BY <3>1, <3>2, <4>1 DEF Carries
      <4>2. CASE c \in Confirmed
        BY <3>1, <3>2, <4>2
           DEF DecisionInv, PendingInv, ConsentInv, TicketInv, Carries, Executing, Running,
               Resolving
      <4> QED BY <1>1, <4>1, <4>2 DEF DecisionInv, PendingInv, Live
    <3> QED BY <3>3
  <2> QED BY <2>1, <2>2
<1>2. ASSUME NEW h \in Handlers, subject[h] = c, HoldsGrant(h),
             NEW g \in dispatched, subject[g] = c
      PROVE  FALSE
  <2>1. g = h
    BY <1>2, OneCarrier DEF Carries, HoldsGrant, TypeOK
  <2> QED
    BY <1>2, <2>1 DEF HoldsGrant, TicketInv, Past, Executing, Running, Answers
<1>3. dispatched \subseteq Handlers
  BY DEF TypeOK
<1>4. ASSUME Live(c) \/ pc[c] = "idle" \/ (c \in Confirmed /\ pc[c] \in {"lookup", "review"})
      PROVE  /\ ~\E h \in dispatched : subject[h] = c
             /\ ~\E h \in Handlers : subject[h] = c /\ HoldsGrant(h)
  BY <1>1, <1>3, <1>4 DEF Carries, HoldsGrant
<1>5. pc[c] = "idle" \/ (c \in Confirmed /\ pc[c] \in {"lookup", "review"}) => ~Live(c)
  BY DEF DecisionInv, PendingInv, Live
<1>6. Live(c) => TicketOf(c) = "proposed"
  BY <1>4 DEF TicketOf
<1>7. pc[c] = "idle" \/ (c \in Confirmed /\ pc[c] \in {"lookup", "review"})
        => TicketOf(c) = "new"
  BY <1>4, <1>5 DEF TicketOf
<1>8. ASSUME NEW h \in Handlers, subject[h] = c, HoldsGrant(h)
      PROVE  TicketOf(c) = "granted"
  BY <1>2, <1>8 DEF TicketOf
<1> QED BY <1>6, <1>7, <1>8

--------------------------------------------------------------------------------
(* Moving a ticket *)

\* A step that is about call c leaves the tickets of the other calls alone.
LEMMA TicketLocal ==
  ASSUME TypeOK, NEW c \in Calls, NEW k \in Calls \ {c},
         generation' = generation,
         pending'[k] = pending[k], pc'[k] = pc[k],
         dispatched \subseteq Handlers, dispatched' \subseteq Handlers,
         \A h \in Handlers :
           \/ /\ pc'[h] = pc[h] /\ since'[h] = since[h] /\ subject'[h] = subject[h]
              /\ h \in dispatched' <=> h \in dispatched
           \/ (subject[h] = c \/ ~Carries(h)) /\ subject'[h] = c
  PROVE  TicketOf(k)' = TicketOf(k)
<1>1. (\E h \in dispatched : subject[h] = k) <=> (\E h \in dispatched' : subject'[h] = k)
  BY DEF Carries
<1>2. \A h \in Handlers : subject[h] = k /\ HoldsGrant(h) <=> subject'[h] = k /\ HoldsGrant(h)'
  BY DEF HoldsGrant, Stale, Carries
<1>3. Live(k)' = Live(k)
  BY DEF Live
<1> QED BY <1>1, <1>2, <1>3 DEF TicketOf

\* The step of the contract that moves one ticket.
LEMMA TicketMove ==
  ASSUME NEW c \in Calls, NEW from, NEW to,
         TicketOf(c) \in from, TicketOf(c)' = to,
         \A k \in Calls \ {c} : TicketOf(k)' = TicketOf(k)
  PROVE  Contract!Move(c, from, to)
BY DEF Contract!Move, Ticket

\* No ticket moves.
LEMMA TicketRest ==
  ASSUME \A k \in Calls : TicketOf(k)' = TicketOf(k)
  PROVE  UNCHANGED Ticket
BY DEF Ticket

\* The ticket of a call with a handler that carries the consent and has not used it.
LEMMA TicketHeld ==
  ASSUME GatewayInv, NEW h \in Handlers, NEW c \in Calls, subject[h] = c,
         pc[h] \in {"authorising", "approving", "spawned", "starting"}
  PROVE  TicketOf(c) = IF Stale(h) THEN "closed" ELSE "granted"
<1> USE GatewayAssumption DEF GatewayInv, Handlers
<1>1. \A g \in Handlers : subject[g] = c /\ Carries(g) => g = h
  BY OneCarrier DEF Carries
<1>2. h \notin dispatched
  BY DEF TicketInv, Past, Executing, Running, Answers
<1>3. \A g \in dispatched : subject[g] # c
  BY <1>1, <1>2 DEF Carries, TypeOK
<1>4. ~Stale(h) => HoldsGrant(h)
  BY DEF HoldsGrant
<1>5. Stale(h) => \A g \in Handlers : subject[g] = c => ~HoldsGrant(g)
  BY <1>1 DEF Carries, HoldsGrant
<1>6. ~Live(c) /\ ~(pc[c] = "idle" \/ (c \in Confirmed /\ pc[c] \in {"lookup", "review"}))
  <2>1. CASE h \in Decisions
    BY <2>1 DEF DecisionInv, SubjectInv, PendingInv, Live
  <2>2. CASE h \in Calls
    <3>1. h = c
      BY <2>2 DEF DecisionInv, SubjectInv
    <3>2. c \notin Confirmed
      BY <3>1 DEF DecisionInv, PendingInv, ConsentInv, TicketInv, Executing, Running, Resolving
    <3> QED BY <3>1, <3>2 DEF DecisionInv, PendingInv, Live
  <2> QED BY <2>1, <2>2
<1> QED BY <1>3, <1>4, <1>5, <1>6 DEF TicketOf

\* A handler that carries the consent to its call uses it, keeps it or gives it up.
LEMMA HandlerMoves ==
  ASSUME GatewayInv, NEW h \in Handlers,
         pc[h] \in {"authorising", "approving", "spawned", "starting"},
         UNCHANGED <<generation, subject, since, pending>>,
         \A g \in Handlers \ {h} : pc'[g] = pc[g],
         pc'[h] \notin {"idle", "lookup", "review"},
         dispatched' \in {dispatched, dispatched \cup {h}},
         h \in dispatched' => ~Stale(h)
  PROVE  [Contract!Next]_Ticket
<1> USE GatewayAssumption DEF GatewayInv, Handlers
<1>1. subject[h] \in Calls
  BY DEF DecisionInv, SubjectInv
<1>2. PICK c \in Calls : subject[h] = c
  BY <1>1
<1>3. dispatched \subseteq Handlers
  BY DEF TypeOK
<1>4. \A k \in Calls \ {c} : TicketOf(k)' = TicketOf(k)
  <2> SUFFICES ASSUME NEW k \in Calls \ {c} PROVE TicketOf(k)' = TicketOf(k)
    OBVIOUS
  <2>1. h \notin Calls \ {c}
    BY <1>2 DEF DecisionInv, SubjectInv
  <2> QED BY <1>1, <1>2, <1>3, <2>1, TicketLocal
<1>5. TicketOf(c) = IF Stale(h) THEN "closed" ELSE "granted"
  BY <1>1, <1>2, TicketHeld
<1>6. \A g \in Handlers \ {h} : subject[g] = c => ~Carries(g)
  BY <1>2, OneCarrier DEF Carries
<1>7. \A g \in dispatched' : subject'[g] = c => g = h
  BY <1>3, <1>6 DEF Carries
<1>8. \A g \in Handlers : subject'[g] = c /\ HoldsGrant(g)' => g = h
  BY <1>6 DEF Carries, HoldsGrant, Stale
<1>9. ~Live(c)' /\ ~(pc'[c] = "idle" \/ (c \in Confirmed /\ pc'[c] \in {"lookup", "review"}))
  <2>1. ~Live(c) /\ ~(pc[c] = "idle" \/ (c \in Confirmed /\ pc[c] \in {"lookup", "review"}))
    BY <1>1, <1>5, TicketRead
  <2>2. pc'[c] = pc[c] \/ c = h
    BY <1>1
  <2> QED BY <2>1, <2>2 DEF Live
<1>10. CASE h \in dispatched'
  <2>1. TicketOf(c)' = "executed"
    BY <1>2, <1>10 DEF TicketOf
  <2>2. Contract!Move(c, {"granted"}, "executed")
    BY <1>1, <1>4, <1>5, <1>10, <2>1, TicketMove
  <2> QED BY <1>1, <2>2 DEF Contract!Next, Contract!Execute
<1>11. CASE h \notin dispatched'
  <2>1. \A g \in dispatched' : subject'[g] # c
    BY <1>7, <1>11
  <2>2. CASE HoldsGrant(h)'
    <3>1. TicketOf(c)' = "granted"
      BY <1>2, <2>1, <2>2 DEF TicketOf
    <3>2. ~Stale(h)
      BY <2>2 DEF HoldsGrant, Stale
    <3>3. TicketOf(c)' = TicketOf(c)
      BY <1>5, <3>1, <3>2
    <3> QED BY <1>4, <3>3, TicketRest
  <2>3. CASE ~HoldsGrant(h)'
    <3>1. TicketOf(c)' = "closed"
      BY <1>8, <1>9, <2>1, <2>3 DEF TicketOf
    <3>2. CASE TicketOf(c) = "closed"
      BY <1>4, <3>1, <3>2, TicketRest
    <3>3. CASE TicketOf(c) = "granted"
      <4>1. Contract!Move(c, {"new", "proposed", "granted"}, "closed")
        BY <1>1, <1>4, <3>1, <3>3, TicketMove
      <4> QED BY <1>1, <4>1 DEF Contract!Next, Contract!Close
    <3> QED BY <1>5, <3>2, <3>3
  <2> QED BY <2>2, <2>3
<1> QED BY <1>10, <1>11

\* A request moves its ticket as the contract allows.
LEMMA RequestMoves ==
  ASSUME GatewayInv, NEW c \in Calls, RequestCall(c) \/ RequestStep(c)
  PROVE  [Contract!Next]_Ticket
<1> USE GatewayAssumption
    DEF GatewayInv, TypeOK, Handlers, Goto, Answer, Pop,
        stopVars, brokerVars, handlerVars, coreVars, privacyVars
<1>1. subject[c] = c
  BY DEF DecisionInv, SubjectInv
<1>2. /\ generation' = generation /\ subject' = subject /\ dispatched' = dispatched
      /\ \A h \in Handlers \ {c} : pc'[h] = pc[h] /\ since'[h] = since[h]
      /\ \A k \in Calls \ {c} : pending'[k] = pending[k]
  <2>1. CASE RequestCall(c) BY <2>1 DEF RequestCall, Admit, Propose
  <2>2. CASE AliasFound(c)  BY <2>2 DEF AliasFound, Admit, Propose
  <2>3. CASE Authorised(c)  BY <2>3 DEF Authorised
  <2>4. CASE ReviewReady(c) BY <2>4 DEF ReviewReady, Propose
  <2>5. CASE Proposed(c)    BY <2>5 DEF Proposed
  <2> QED BY <2>1, <2>2, <2>3, <2>4, <2>5 DEF RequestStep
<1>3. \A k \in Calls \ {c} : TicketOf(k)' = TicketOf(k)
  BY <1>1, <1>2, TicketLocal
<1>4. ASSUME NEW from, NEW to, TicketOf(c) \in from, TicketOf(c)' = to
      PROVE  Contract!Move(c, from, to)
  BY <1>3, <1>4, TicketMove
<1>5. ASSUME TicketOf(c)' = TicketOf(c)
      PROVE  UNCHANGED Ticket
  BY <1>3, <1>5, TicketRest
<1>6. CASE RequestCall(c) \/ AliasFound(c) \/ ReviewReady(c)
  <2>1. /\ pc[c] \in {"idle", "lookup", "review"} /\ pending[c] = "none"
        /\ pc[c] = "review" => c \in Confirmed
    BY <1>6 DEF RequestCall, AliasFound, ReviewReady, DecisionInv, PendingInv
  <2>2. \A h \in Handlers \ {c} : subject[h] = c => ~Carries(h)
    BY <2>1 DEF DecisionInv, SubjectInv, PendingInv, Carries, HoldsGrant
  <2>3. c \notin dispatched
    BY <2>1 DEF TicketInv, Past, Executing, Running, Answers
  <2>4. \A h \in dispatched' : subject'[h] # c
    BY <1>2, <2>2, <2>3 DEF Carries
  <2>5. \A h \in Handlers \ {c} : subject'[h] = c => ~HoldsGrant(h)'
    BY <1>2, <2>2 DEF Carries, HoldsGrant, Stale
  <2>6. TicketOf(c)' = IF HoldsGrant(c)' THEN "granted"
                       ELSE IF pending'[c] = "live" THEN "proposed"
                       ELSE IF (c \in Confirmed /\ pc'[c] \in {"lookup", "review"}) \/ pc'[c] = "idle"
                            THEN "new" ELSE "closed"
    BY <1>1, <1>2, <2>4, <2>5 DEF TicketOf, Live
  <2>7. \/ TicketOf(c) = "new"
        \/ c \notin Confirmed /\ pc[c] = "lookup" /\ ~Stale(c) /\ TicketOf(c) = "granted"
        \/ c \notin Confirmed /\ pc[c] = "lookup" /\ Stale(c) /\ TicketOf(c) = "closed"
    <3>1. CASE pc[c] = "idle" \/ c \in Confirmed
      BY <2>1, <3>1, TicketRead
    <3>2. CASE pc[c] = "lookup" /\ c \notin Confirmed
      <4>1. ~\E h \in dispatched : subject[h] = c
        BY <2>2, <2>3 DEF Carries
      <4>2. CASE Stale(c)
        <5>1. ~\E h \in Handlers : subject[h] = c /\ HoldsGrant(h)
          BY <2>2, <4>2 DEF Carries, HoldsGrant
        <5> QED BY <2>1, <3>2, <4>1, <4>2, <5>1 DEF TicketOf, Live
      <4>3. CASE ~Stale(c)
        BY <1>1, <3>2, <4>3, TicketRead DEF HoldsGrant
      <4> QED BY <3>2, <4>2, <4>3
    <3> QED BY <2>1, <3>1, <3>2
  <2>8. \/ pc'[c] \in {"cancelled", "denied", "busy", "failed"} /\ pending'[c] = "none"
        \/ /\ pc'[c] \in {"lookup", "review"} /\ c \in Confirmed /\ pending'[c] = "none"
           /\ TicketOf(c) = "new"
        \/ /\ pc'[c] \in {"lookup", "authorising"} /\ c \notin Confirmed /\ since'[c] = generation
           /\ TicketOf(c) # "closed"
        \/ /\ pc'[c] = "proposing" /\ c \in Confirmed /\ pending'[c] = "live"
           /\ TicketOf(c) = "new"
    <3>1. CASE RequestCall(c)
      BY <2>1, <2>7, <3>1 DEF RequestCall, Admit, Propose
    <3>2. CASE AliasFound(c)
      BY <2>1, <2>7, <3>2 DEF AliasFound, Admit, Propose, Stale
    <3>3. CASE ReviewReady(c)
      BY <2>1, <2>7, <3>3 DEF ReviewReady, Propose
    <3> QED BY <1>6, <3>1, <3>2, <3>3
  <2>9. CASE pc'[c] \in {"cancelled", "denied", "busy", "failed"} /\ pending'[c] = "none"
    <3>1. TicketOf(c)' = "closed"
      BY <2>6, <2>9 DEF HoldsGrant
    <3> QED BY <1>4, <1>5, <2>7, <3>1 DEF Contract!Next, Contract!Close
  <2>10. CASE /\ pc'[c] \in {"lookup", "review"} /\ c \in Confirmed /\ pending'[c] = "none"
              /\ TicketOf(c) = "new"
    BY <1>5, <2>6, <2>10 DEF HoldsGrant
  <2>11. CASE /\ pc'[c] \in {"lookup", "authorising"} /\ c \notin Confirmed
              /\ since'[c] = generation /\ TicketOf(c) # "closed"
    <3>1. TicketOf(c)' = "granted"
      BY <1>2, <2>6, <2>11 DEF HoldsGrant, Stale
    <3>2. TicketOf(c) = "new" => Contract!Move(c, {"new"}, "granted")
      BY <1>4, <3>1
    <3> QED BY <1>5, <2>7, <2>11, <3>1, <3>2 DEF Contract!Next, Contract!Grant
  <2>12. CASE /\ pc'[c] = "proposing" /\ c \in Confirmed /\ pending'[c] = "live"
              /\ TicketOf(c) = "new"
    <3>1. TicketOf(c)' = "proposed"
      BY <2>6, <2>12 DEF HoldsGrant
    <3> QED BY <1>4, <2>12, <3>1 DEF Contract!Next, Contract!Propose
  <2> QED BY <2>8, <2>9, <2>10, <2>11, <2>12
<1>7. CASE Authorised(c)
  <2>1. /\ pc[c] = "authorising" /\ UNCHANGED <<since, pending>>
        /\ pc'[c] \in {"spawned", "cancelled"}
    BY <1>7 DEF Authorised
  <2>2. c \notin dispatched
    BY <2>1 DEF TicketInv, Past, Executing, Running, Answers
  <2> QED BY <1>2, <2>1, <2>2, HandlerMoves
<1>8. CASE Proposed(c)
  <2>1. /\ pc[c] = "proposing" /\ since' = since
        /\ pc'[c] \in {"cancelled", "waiting", "failed"}
        /\ pending'[c] = pending[c] \/ pending'[c] = "none"
    BY <1>8 DEF Proposed
  <2>2. (\E h \in dispatched' : subject'[h] = c) <=> (\E h \in dispatched : subject[h] = c)
    BY <1>2
  <2>3. \A h \in Handlers : HoldsGrant(h)' <=> HoldsGrant(h)
    BY <1>2, <2>1 DEF HoldsGrant, Stale
  <2>4. (\E h \in Handlers : subject'[h] = c /\ HoldsGrant(h)')
          <=> (\E h \in Handlers : subject[h] = c /\ HoldsGrant(h))
    BY <1>2, <2>3
  <2>5. CASE pending'[c] = pending[c]
    <3>1. TicketOf(c)' = TicketOf(c)
      BY <2>1, <2>2, <2>4, <2>5 DEF TicketOf, Live
    <3> QED BY <1>5, <3>1
  <2>6. CASE pending'[c] = "none" /\ ~Live(c)
    <3>1. TicketOf(c)' = TicketOf(c)
      BY <2>1, <2>2, <2>4, <2>6 DEF TicketOf, Live
    <3> QED BY <1>5, <3>1
  <2>7. CASE pending'[c] = "none" /\ Live(c)
    <3>1. TicketOf(c) = "proposed"
      BY <2>7, TicketRead
    <3>2. TicketOf(c)' = "closed"
      BY <2>1, <2>2, <2>4, <2>7, <3>1 DEF TicketOf, Live
    <3> QED BY <1>4, <3>1, <3>2 DEF Contract!Next, Contract!Close
  <2> QED BY <2>1, <2>5, <2>6, <2>7
<1> QED BY <1>6, <1>7, <1>8 DEF RequestStep

\* A live confirmation is taken away, by the decisions D if there are any.
LEMMA ConfirmationTaken ==
  ASSUME GatewayInv, NEW c \in Calls, Live(c), NEW D \in SUBSET Decisions, NEW place,
         \A d \in D : pc[d] = "idle" /\ pc'[d] = place /\ subject'[d] = c
                      /\ since'[d] = generation,
         \A h \in Handlers \ D : pc'[h] = pc[h] /\ since'[h] = since[h] /\ subject'[h] = subject[h],
         \A k \in Calls \ {c} : pending'[k] = pending[k],
         pending'[c] # "live", generation' = generation, dispatched' = dispatched,
         place \in {"approving", "denying"}
  PROVE  /\ \A k \in Calls \ {c} : TicketOf(k)' = TicketOf(k)
         /\ TicketOf(c) = "proposed"
         /\ D = {} \/ place = "denying" => TicketOf(c)' = "closed"
         /\ D # {} /\ place = "approving" => TicketOf(c)' = "granted"
<1> USE GatewayAssumption DEF GatewayInv, TypeOK, Handlers
<1>1. \A d \in D : ~Carries(d)
  BY DEF DecisionInv, SubjectInv, Carries
<1>2. \A k \in Calls \ {c} : TicketOf(k)' = TicketOf(k)
  BY <1>1, TicketLocal
<1>3. TicketOf(c) = "proposed"
  BY TicketRead
<1>4. \A h \in dispatched' : subject'[h] # c
  BY <1>1, <1>3 DEF TicketOf, Carries
<1>5. \A h \in Handlers \ D : subject'[h] = c => ~HoldsGrant(h)'
  BY <1>3 DEF TicketOf, HoldsGrant, Stale
<1>6. \A d \in D : HoldsGrant(d)' <=> place = "approving"
  BY DEF HoldsGrant, Stale
<1>7. ~Live(c)' /\ pc'[c] \notin {"idle", "lookup", "review"}
  BY DEF Live, DecisionInv, PendingInv
<1>8. ASSUME D = {} \/ place = "denying" PROVE TicketOf(c)' = "closed"
  BY <1>4, <1>5, <1>6, <1>7, <1>8 DEF TicketOf
<1>9. ASSUME D # {}, place = "approving" PROVE TicketOf(c)' = "granted"
  <2>1. PICK d \in D : TRUE
    BY <1>9
  <2> QED BY <1>4, <1>6, <1>9, <2>1 DEF TicketOf
<1> QED BY <1>2, <1>3, <1>8, <1>9

\* The approval of a confirmation is the grant, its denial the end of the ticket.
LEMMA ResolveMoves ==
  ASSUME GatewayInv, NEW d \in Decisions, NEW c \in Calls, NEW v \in Resolving, Resolve(d, c, v)
  PROVE  [Contract!Next]_Ticket
<1>1. PICK D \in SUBSET Decisions : D = {d}
  OBVIOUS
<1>2. Live(c) /\ generation' = generation /\ dispatched' = dispatched
  BY DEF Resolve, stopVars
<1>3. \A e \in D : pc[e] = "idle" /\ pc'[e] = v /\ subject'[e] = c /\ since'[e] = generation
  BY <1>1 DEF Resolve, Goto, GatewayInv, TypeOK, Handlers
<1>4. \A h \in Handlers \ D : pc'[h] = pc[h] /\ since'[h] = since[h] /\ subject'[h] = subject[h]
  BY <1>1 DEF Resolve, Goto, GatewayInv, TypeOK
<1>5. pending'[c] # "live" /\ \A k \in Calls \ {c} : pending'[k] = pending[k]
  BY DEF Resolve, Pop, GatewayInv, TypeOK
<1>6. v \in {"approving", "denying"}
  BY DEF Resolving
<1>7. /\ \A k \in Calls \ {c} : TicketOf(k)' = TicketOf(k)
      /\ TicketOf(c) = "proposed"
      /\ D = {} \/ v = "denying" => TicketOf(c)' = "closed"
      /\ D # {} /\ v = "approving" => TicketOf(c)' = "granted"
  BY <1>2, <1>3, <1>4, <1>5, <1>6, ConfirmationTaken
<1>8. CASE v = "denying"
  <2>1. Contract!Move(c, {"new", "proposed", "granted"}, "closed")
    BY <1>7, <1>8, TicketMove
  <2> QED BY <2>1 DEF Contract!Next, Contract!Close
<1>9. CASE v = "approving"
  <2>1. D # {}
    BY <1>1
  <2>2. Contract!Move(c, {"proposed"}, "granted")
    BY <1>7, <1>9, <2>1, TicketMove
  <2>3. c \in Confirmed
    BY <1>2 DEF GatewayInv, Live, DecisionInv, PendingInv
  <2> QED BY <2>2, <2>3 DEF Contract!Next, Contract!Grant
<1> QED BY <1>6, <1>8, <1>9

\* A decision, and the time limit of a confirmation, move a ticket as the contract
\* allows: the approval is the grant.
LEMMA DecisionMoves ==
  ASSUME GatewayInv,
         \/ \E c \in Calls : Expire(c)
         \/ \E d \in Decisions : Decided(d)
         \/ \E d \in Decisions, c \in Calls, v \in Resolving : Resolve(d, c, v)
         \/ \E s \in Stops, c \in Calls : Revoke(s, c) \/ CutStop(s, {c})
  PROVE  [Contract!Next]_Ticket
<1> USE GatewayAssumption
    DEF GatewayInv, TypeOK, Handlers, Goto, Answer, Pop,
        stopVars, brokerVars, handlerVars, coreVars, privacyVars
<1>1. ASSUME NEW d \in Decisions, Decided(d)
      PROVE  [Contract!Next]_Ticket
  <2>1. CASE pc[d] = "approving"
    <3>1. /\ UNCHANGED <<generation, subject, since, pending, dispatched>>
          /\ pc'[d] \in {"spawned", "cancelled"} /\ \A g \in Handlers \ {d} : pc'[g] = pc[g]
      BY <1>1, <2>1 DEF Decided
    <3>2. d \notin dispatched
      BY <2>1 DEF TicketInv, Past, Executing, Running, Answers
    <3> QED BY <2>1, <3>1, <3>2, HandlerMoves
  <2>2. CASE pc[d] = "denying"
    <3>1. /\ UNCHANGED <<generation, subject, since, pending, dispatched>>
          /\ pc'[d] \in {"denied", "cancelled"} /\ \A g \in Handlers \ {d} : pc'[g] = pc[g]
      BY <1>1, <2>2 DEF Decided
    <3>2. \A g \in Handlers : HoldsGrant(g)' <=> HoldsGrant(g)
      BY <2>2, <3>1 DEF HoldsGrant, Stale
    <3>3. \A k \in Calls : TicketOf(k)' = TicketOf(k)
      BY <3>1, <3>2 DEF TicketOf, Live
    <3> QED BY <3>3, TicketRest
  <2> QED BY <1>1, <2>1, <2>2 DEF Decided, Resolving
<1>3. ASSUME NEW c \in Calls,
             Expire(c) \/ (\E s \in Stops : (Revoke(s, c) \/ CutStop(s, {c})) /\ Live(c))
      PROVE  [Contract!Next]_Ticket
  <2>1. /\ Live(c) /\ UNCHANGED <<pc, since, subject, generation, dispatched>>
        /\ pending'[c] # "live" /\ \A k \in Calls \ {c} : pending'[k] = pending[k]
    BY <1>3 DEF Expire, Revoke, Withdraw, CutStop
  <2>2. /\ \A k \in Calls \ {c} : TicketOf(k)' = TicketOf(k)
        /\ TicketOf(c) = "proposed" /\ TicketOf(c)' = "closed"
    BY <2>1, ConfirmationTaken, {} \in SUBSET Decisions
  <2>3. Contract!Move(c, {"new", "proposed", "granted"}, "closed")
    BY <2>2, TicketMove
  <2> QED BY <2>3 DEF Contract!Next, Contract!Close
<1>4. ASSUME NEW s \in Stops, NEW c \in Calls, Revoke(s, c) \/ CutStop(s, {c}), ~Live(c)
      PROVE  [Contract!Next]_Ticket
  <2>1. /\ UNCHANGED <<pc, since, subject, generation, dispatched>>
        /\ \A k \in Calls : Live(k)' <=> Live(k)
    BY <1>4 DEF Revoke, Withdraw, CutStop, Live
  <2>2. \A h \in Handlers : HoldsGrant(h)' <=> HoldsGrant(h)
    BY <2>1 DEF HoldsGrant, Stale
  <2>3. \A k \in Calls : TicketOf(k)' = TicketOf(k)
    BY <2>1, <2>2 DEF TicketOf
  <2> QED BY <2>3, TicketRest
<1>5. ASSUME NEW d \in Decisions, NEW c \in Calls, NEW v \in Resolving, Resolve(d, c, v)
      PROVE  [Contract!Next]_Ticket
  BY <1>5, ResolveMoves
<1> QED BY <1>1, <1>3, <1>4, <1>5

\* What changes no confirmation and no place of a handler moves no ticket.
LEMMA NothingMoves ==
  ASSUME UNCHANGED <<generation, pc, since, subject, dispatched>>,
         \A k \in Calls : Live(k)' <=> Live(k)
  PROVE  UNCHANGED Ticket
<1>1. \A h : HoldsGrant(h)' <=> HoldsGrant(h)
  BY DEF HoldsGrant, Stale
<1>2. \A k \in Calls : TicketOf(k)' = TicketOf(k)
  BY <1>1 DEF TicketOf
<1> QED BY <1>2, TicketRest

\* A tool task moves its ticket as the contract allows: its dispatch is the execution.
LEMMA TaskMoves ==
  ASSUME GatewayInv, NEW h \in Handlers, TaskStep(h)
  PROVE  [Contract!Next]_Ticket
<1>1. /\ UNCHANGED <<generation, subject, since, pending>>
      /\ \A g \in Handlers \ {h} : pc'[g] = pc[g]
  <2> USE DEF GatewayInv, TypeOK, Goto, Answer, stopVars, brokerVars, handlerVars
  <2>1. CASE StartTask(h) \/ Dispatch(h)
    BY <2>1 DEF StartTask, Dispatch
  <2>2. CASE ToolReturns(h) \/ Finish(h) \/ Fail(h)
    BY <2>2 DEF ToolReturns, Finish, Fail
  <2>3. CASE DeliverCancel(h) \/ CleanUp(h)
    BY <2>3 DEF DeliverCancel, CleanUp
  <2> QED BY <2>1, <2>2, <2>3 DEF TaskStep
<1>2. CASE pc[h] \in {"spawned", "starting"}
  <2>1. h \notin dispatched
    BY <1>2 DEF GatewayInv, TicketInv, Past, Executing, Running, Answers
  <2>2. /\ dispatched' \in {dispatched, dispatched \cup {h}}
        /\ h \in dispatched' => ~Stale(h)
        /\ pc'[h] \notin {"idle", "lookup", "review"}
    <3> USE DEF GatewayInv, TypeOK, Goto, Answer
    <3>1. CASE StartTask(h)
      BY <2>1, <3>1 DEF StartTask
    <3>2. CASE Dispatch(h)
      BY <2>1, <3>2 DEF Dispatch, FreshTasks
    <3>3. CASE DeliverCancel(h)
      BY <2>1, <3>3 DEF DeliverCancel
    <3> QED BY <1>2, <3>1, <3>2, <3>3 DEF TaskStep, ToolReturns, Finish, Fail, CleanUp
  <2> QED BY <1>1, <1>2, <2>1, <2>2, HandlerMoves
<1>3. CASE pc[h] \notin {"spawned", "starting"}
  <2>1. /\ dispatched' = dispatched
        /\ pc[h] \in Executing \ {"spawned", "starting"}
        /\ pc'[h] \in (Executing \cup Answers) \ {"spawned", "starting"}
    <3> USE DEF GatewayInv, TypeOK, Goto, Answer, handlerVars, Executing, Running, Answers
    <3>1. CASE ToolReturns(h)
      BY <3>1 DEF ToolReturns
    <3>2. CASE Finish(h) \/ Fail(h) \/ CleanUp(h)
      BY <3>2 DEF Finish, Fail, CleanUp
    <3>3. CASE DeliverCancel(h)
      BY <1>3, <3>3 DEF DeliverCancel, DecisionInv, ConsentInv
    <3> QED BY <1>3, <3>1, <3>2, <3>3 DEF TaskStep, StartTask, Dispatch
  <2>2. \A g \in Handlers : HoldsGrant(g)' <=> HoldsGrant(g)
    <3>1. ~HoldsGrant(h) /\ ~HoldsGrant(h)'
      BY <2>1 DEF HoldsGrant, Executing, Running, Answers
    <3>2. \A g \in Handlers \ {h} : HoldsGrant(g)' <=> HoldsGrant(g)
      BY <1>1 DEF HoldsGrant, Stale
    <3> QED BY <3>1, <3>2
  <2>3. \A k \in Calls : pc'[k] = pc[k] \/ k = h
    BY <1>1 DEF Handlers
  <2>4. {pc[h], pc'[h]} \cap {"idle", "lookup", "review"} = {}
    BY <2>1 DEF Executing, Running, Answers
  <2>5. \A k \in Calls : TicketOf(k)' = TicketOf(k)
    BY <1>1, <2>1, <2>2, <2>3, <2>4 DEF TicketOf, Live
  <2> QED BY <2>5, TicketRest
<1> QED BY <1>2, <1>3

\* A stop voids every granted ticket and no other.
LEMMA StopMoves ==
  ASSUME GatewayInv, NEW s \in Stops, BeginStop(s)
  PROVE  Contract!Stop
<1>1. /\ generation' = generation + 1
      /\ UNCHANGED <<pending, pc, since, subject, dispatched>>
  BY DEF BeginStop, brokerVars
<1>2. \A h \in Handlers : ~HoldsGrant(h)'
  BY <1>1 DEF HoldsGrant, Stale, GatewayInv, TypeOK, TicketInv
<1>3. ASSUME NEW c \in Calls
      PROVE  TicketOf(c)' = IF TicketOf(c) = "granted" THEN "closed" ELSE TicketOf(c)
  <2>1. CASE TicketOf(c) = "granted"
    <3>1. ~Live(c) /\ ~(pc[c] = "idle" \/ (c \in Confirmed /\ pc[c] \in {"lookup", "review"}))
      BY <2>1, TicketRead
    <3> QED BY <1>1, <1>2, <2>1, <3>1 DEF TicketOf, Live
  <2>2. CASE TicketOf(c) # "granted"
    BY <1>1, <1>2, <2>2 DEF TicketOf, Live
  <2> QED BY <2>1, <2>2
<1> QED BY <1>3 DEF Contract!Stop, Ticket

\* Every step of the gateway is a step of the contract, or moves no ticket.
LEMMA ContractStep ==
  ASSUME GatewayInv, PlannedStep
  PROVE  [Contract!Next]_Ticket
<1> USE DEF stopVars, brokerVars, handlerVars, coreVars, privacyVars
<1>1. ASSUME NEW c \in Calls, RequestCall(c) \/ RequestStep(c) PROVE [Contract!Next]_Ticket
  BY <1>1, RequestMoves
<1>2. ASSUME NEW h \in Handlers, TaskStep(h) PROVE [Contract!Next]_Ticket
  BY <1>2, TaskMoves
<1>3. ASSUME NEW s \in Stops, BeginStop(s) PROVE [Contract!Next]_Ticket
  BY <1>3, StopMoves DEF Contract!Next
<1>4. CASE ExpiryStep
  <2>1. \A k \in Calls : Live(k)' <=> Live(k)
    BY <1>4 DEF ExpiryStep, Prune, RecordLapse, Live
  <2> QED BY <1>4, <2>1, NothingMoves DEF ExpiryStep, Prune, RecordLapse
<1>5. CASE UNCHANGED <<generation, pending, pc, since, subject, dispatched>>
  BY <1>5, NothingMoves DEF Live
<1>6. ASSUME NEW s \in Stops, NEW S,
             CancelPlan(s, S) \/ BeginCancel(s, S) \/ EndPrivacyChange(s)
             \/ \E b \in BOOLEAN : ListPending(s, b) \/ EndStop(s, b) \/ EndCancel(s, b)
      PROVE  [Contract!Next]_Ticket
  BY <1>5, <1>6 DEF CancelPlan, BeginCancel, EndPrivacyChange, ListPending, EndStop, EndCancel
<1>7. CASE OthersMoveCore \/ UNCHANGED RestVars
  BY <1>5, <1>7 DEF OthersMoveCore, RestVars
<1>8. ASSUME NEW s \in Stops, CutStop(s, {}) PROVE [Contract!Next]_Ticket
  <2>1. pending' = pending
    BY <1>8 DEF CutStop, GatewayInv, TypeOK
  <2> QED BY <1>5, <1>8, <2>1 DEF CutStop
<1> QED
  BY <1>1, <1>2, <1>3, <1>4, <1>6, <1>7, <1>8, DecisionMoves, StepCases DEF StopStep, AtMostOne

\* Every ticket is new at the start.
LEMMA InitialTickets ==
  ASSUME Init
  PROVE  TicketInv /\ Contract!Init
<1>1. \A h \in Handlers : pc[h] = "idle" /\ ~HoldsGrant(h)
  BY DEF Init, HoldsGrant
<1>2. dispatched = {} /\ \A c \in Calls : ~Live(c) /\ pc[c] = "idle"
  BY DEF Init, Live, Handlers
<1>3. \A c \in Calls : TicketOf(c) = "new"
  BY <1>1, <1>2 DEF TicketOf
<1>4. Contract!Init
  BY <1>3 DEF Contract!Init, Ticket
<1>5. TicketInv
  BY <1>1, <1>2 DEF Init, TicketInv, Handlers, Resolving
<1> QED BY <1>4, <1>5

\* The gateway implements the contract, for all requests, clients and stops.
THEOREM ContractKept == Spec => KeepsContract
<1>1. Init => TicketInv /\ Contract!Init
  BY InitialTickets
<1>2. Init => FreshTasks
  BY DEF Init, FreshTasks
<1>3. TypeOK /\ FreshTasks /\ [Next]_gatewayVars => FreshTasks'
  BY OwnStep, FreshTasksStep
<1>4. TypeOK /\ DecisionInv /\ TicketInv /\ [Next]_gatewayVars => TicketInv'
  BY OwnStep, TicketInvStep
<1>5. TypeOK /\ FreshTasks /\ DecisionInv /\ TicketInv /\ [Next]_gatewayVars
        => [Contract!Next]_Ticket
  BY OwnStep, ContractStep DEF GatewayInv
<1> QED
  BY <1>1, <1>2, <1>3, <1>4, <1>5, DecisionsInOrder, PTL
     DEF Spec, KeepsContract, Contract!Spec--------------------------------------------------------------------------------
(* The planner's steps as steps of the gateway *)

\* What went through its tool was handed to it.
RanInv == \A h \in Handlers : pc[h] \in {"running", "saving", "done"} => h \in dispatched

\* Every step keeps a record of the tools that ran.
LEMMA RanStep ==
  ASSUME TypeOK, DecisionInv, RanInv, PlannedStep
  PROVE  RanInv'
<1> USE GatewayAssumption
    DEF RanInv, TypeOK, DecisionInv, ConsentInv, Handlers, Goto, Answer, Running,
        stopVars, brokerVars, handlerVars, coreVars, privacyVars
<1>1. ASSUME NEW c \in Calls, RequestCall(c) \/ RequestStep(c) \/ Expire(c) PROVE RanInv'
  BY <1>1 DEF RequestCall, RequestStep, AliasFound, Authorised, ReviewReady, Proposed, Expire,
              Admit, Propose
<1>2. ASSUME NEW d \in Decisions, Decided(d) PROVE RanInv'
  BY <1>2 DEF Decided
<1>3. ASSUME NEW d \in Decisions, NEW c \in Calls, NEW v \in Resolving, Resolve(d, c, v)
      PROVE  RanInv'
  BY <1>3 DEF Resolve, Resolving
<1>4. ASSUME NEW h \in Handlers, TaskStep(h) PROVE RanInv'
  <2>1. CASE StartTask(h) \/ Dispatch(h) BY <2>1 DEF StartTask, Dispatch
  <2>2. CASE ToolReturns(h) \/ Finish(h) BY <2>2 DEF ToolReturns, Finish
  <2>3. CASE Fail(h) \/ CleanUp(h) BY <2>3 DEF Fail, CleanUp
  <2>4. CASE DeliverCancel(h) BY <2>4 DEF DeliverCancel
  <2> QED BY <1>4, <2>1, <2>2, <2>3, <2>4 DEF TaskStep
<1>5. CASE UNCHANGED <<pc, dispatched>>
  BY <1>5
<1>6. ASSUME NEW s \in Stops,
             \/ BeginStop(s) \/ StopStep(s)
             \/ \E S \in SUBSET Calls : CancelPlan(s, S) \/ BeginCancel(s, S)
             \/ \E inHand \in AtMostOne : CutStop(s, inHand)
      PROVE  RanInv'
  BY <1>5, <1>6 DEF BeginStop, StopStep, BeginCancel, CancelPlan, Revoke, ListPending, EndStop,
                    EndCancel, EndPrivacyChange, CutStop
<1>7. CASE ExpiryStep \/ OthersMoveCore \/ UNCHANGED RestVars
  BY <1>5, <1>7 DEF ExpiryStep, Prune, RecordLapse, OthersMoveCore, RestVars
<1> QED BY <1>1, <1>2, <1>3, <1>4, <1>6, <1>7, StepCases

\* An answer is final, a handler that has started keeps its subject, and what was
\* dispatched stays so.
LEMMA AnswerStays ==
  ASSUME TypeOK, DecisionInv, PlannedStep, NEW h \in Handlers
  PROVE  /\ pc[h] \in Answers => pc'[h] = pc[h]
         /\ pc[h] # "idle" => subject'[h] = subject[h] /\ pc'[h] # "idle"
         /\ dispatched \subseteq dispatched'
<1> DEFINE Stays == /\ pc[h] \in Answers => pc'[h] = pc[h]
                    /\ pc[h] # "idle" => subject'[h] = subject[h] /\ pc'[h] # "idle"
                    /\ dispatched \subseteq dispatched'
<1> SUFFICES Stays
  OBVIOUS
<1> USE GatewayAssumption
    DEF TypeOK, DecisionInv, ConsentInv, Handlers, Goto, Answer, Running, Answers,
        stopVars, brokerVars, handlerVars, coreVars, privacyVars
<1>1. ASSUME NEW c \in Calls, RequestCall(c) \/ RequestStep(c) \/ Expire(c) PROVE Stays
  BY <1>1 DEF RequestCall, RequestStep, AliasFound, Authorised, ReviewReady, Proposed, Expire,
              Admit, Propose
<1>2. ASSUME NEW d \in Decisions, Decided(d) PROVE Stays
  BY <1>2 DEF Decided, Resolving
<1>3. ASSUME NEW d \in Decisions, NEW c \in Calls, NEW v \in Resolving, Resolve(d, c, v)
      PROVE  Stays
  BY <1>3 DEF Resolve, Resolving
<1>4. ASSUME NEW g \in Handlers, TaskStep(g) PROVE Stays
  <2>1. CASE StartTask(g) \/ Dispatch(g) BY <2>1 DEF StartTask, Dispatch
  <2>2. CASE ToolReturns(g) \/ Finish(g) BY <2>2 DEF ToolReturns, Finish
  <2>3. CASE Fail(g) \/ CleanUp(g) BY <2>3 DEF Fail, CleanUp
  <2>4. CASE DeliverCancel(g) BY <2>4 DEF DeliverCancel
  <2> QED BY <1>4, <2>1, <2>2, <2>3, <2>4 DEF TaskStep
<1>5. CASE UNCHANGED <<pc, subject, dispatched>>
  BY <1>5
<1>6. ASSUME NEW s \in Stops,
             \/ BeginStop(s) \/ StopStep(s)
             \/ \E S \in SUBSET Calls : CancelPlan(s, S) \/ BeginCancel(s, S)
             \/ \E inHand \in AtMostOne : CutStop(s, inHand)
      PROVE  Stays
  BY <1>5, <1>6 DEF BeginStop, StopStep, BeginCancel, CancelPlan, Revoke, ListPending, EndStop,
                    EndCancel, EndPrivacyChange, CutStop
<1>7. CASE ExpiryStep \/ OthersMoveCore \/ UNCHANGED RestVars
  BY <1>5, <1>7 DEF ExpiryStep, Prune, RecordLapse, OthersMoveCore, RestVars
<1> QED BY <1>1, <1>2, <1>3, <1>4, <1>6, <1>7, StepCases

\* What the step of a plan achieved is never undone.
LEMMA DoneStays ==
  ASSUME GatewayInv, PlannedStep, NEW p, NEW i, StepDone(p, i)
  PROVE  StepDone(p, i)'
<1>1. PICK h \in dispatched : pc[h] = "done" /\ subject[h] \in {<<p, i, 1>>, <<p, i, 2>>}
  BY DEF StepDone
<1>2. h \in Handlers /\ pc[h] \in Answers /\ pc[h] # "idle"
  BY <1>1 DEF GatewayInv, TypeOK, Answers
<1>3. h \in dispatched' /\ pc'[h] = "done" /\ subject'[h] = subject[h]
  BY <1>1, <1>2, AnswerStays DEF GatewayInv
<1> QED BY <1>1, <1>3 DEF StepDone

\* A call leaves "idle" only when it is asked for: every other step leaves it there.
LEMMA IdleStays ==
  ASSUME TypeOK, DecisionInv, NEW c \in Calls, pc[c] = "idle",
         \/ \E b \in Calls : RequestStep(b) \/ Expire(b)
         \/ \E d \in Decisions : Decided(d) \/ \E b \in Calls, v \in Resolving : Resolve(d, b, v)
         \/ \E h \in Handlers : TaskStep(h)
         \/ UNCHANGED pc
  PROVE  pc'[c] = "idle"
<1> USE GatewayAssumption
    DEF TypeOK, DecisionInv, ConsentInv, Handlers, Goto, Answer, Running,
        stopVars, brokerVars, handlerVars, coreVars, privacyVars
<1>1. ASSUME NEW b \in Calls, RequestStep(b) \/ Expire(b) PROVE pc'[c] = "idle"
  BY <1>1 DEF RequestStep, AliasFound, Authorised, ReviewReady, Proposed, Expire, Admit, Propose
<1>2. ASSUME NEW d \in Decisions, NEW b \in Calls, NEW v \in Resolving,
             Decided(d) \/ Resolve(d, b, v)
      PROVE  pc'[c] = "idle"
  BY <1>2 DEF Decided, Resolve
<1>3. ASSUME NEW g \in Handlers, TaskStep(g) PROVE pc'[c] = "idle"
  BY <1>3 DEF TaskStep, StartTask, Dispatch, ToolReturns, Finish, Fail, CleanUp, DeliverCancel
<1>4. ASSUME NEW d \in Decisions, Decided(d) PROVE pc'[c] = "idle"
  BY <1>4 DEF Decided
<1> QED BY <1>1, <1>2, <1>3, <1>4

--------------------------------------------------------------------------------
(* The shapes of a planner step *)

\* The calls of a plan are among the calls of the gateway.
LEMMA CallOfPlan ==
  /\ \A p \in Plans : \A i \in 1..(Length[p] + 1) : \A n \in {1, 2} : <<p, i, n>> \in PlanCalls
  /\ \A c \in PlanCalls : /\ c[1] \in Plans /\ c[2] \in 1..(Length[c[1]] + 1) /\ c[3] \in {1, 2}
                          /\ c = <<c[1], c[2], c[3]>>
  /\ PlanCalls \subseteq Calls
<1>1. \A p \in Plans : \A i \in 1..(Length[p] + 1) : \A n \in {1, 2} : <<p, i, n>> \in PlanCalls
  BY DEF PlanCalls
<1>2. ASSUME NEW c \in PlanCalls
      PROVE  /\ c[1] \in Plans /\ c[2] \in 1..(Length[c[1]] + 1) /\ c[3] \in {1, 2}
             /\ c = <<c[1], c[2], c[3]>>
  <2>1. PICK p \in Plans : c \in {<<p, i, n>> : i \in 1..(Length[p] + 1), n \in {1, 2}}
    BY DEF PlanCalls
  <2>2. PICK i \in 1..(Length[p] + 1), n \in {1, 2} : c = <<p, i, n>>
    BY <2>1
  <2> QED BY <2>2
<1> QED BY <1>1, <1>2, GatewayAssumption, PlannerAssumption

OthersRest(p) ==
  /\ \A q \in Plans \ {p} :
       position'[q] = position[q] /\ index'[q] = index[q] /\ status'[q] = status[q]
  /\ reason' = reason

\* Plan p leaves execute at the given place and releases the lock.
Leaves(p, place) ==
  /\ OthersRest(p) /\ position'[p] = place /\ index' = index
  /\ lock' = NoPlan /\ active' \in {NoPlan, p}
  /\ place = "ended" => active' = NoPlan
  /\ UNCHANGED RestVars

\* Plan p asks for attempt n of its step i, with the lock.
Asks(p, i, n, place) ==
  /\ OthersRest(p) /\ position'[p] = place /\ index' = [index EXCEPT ![p] = i]
  /\ lock' = p /\ active' = p
  /\ RequestCall(<<p, i, n>>) /\ UNCHANGED <<owner, before>>

\* execute, entered at a step, ends, is broken off or asks for the step.
LEMMA ProceedCases ==
  ASSUME PlannerTypeOK, NEW p \in Plans, NEW i \in 1..(Length[p] + 1), Proceed(p, i)
  PROVE  /\ status'[p] = "SUCCEEDED" => i = Length[p] + 1 /\ p \notin WithGoal
         /\ \/ Leaves(p, "ended") /\ core' = Settled(core)
            \/ Leaves(p, "crashed") /\ core' = core
            \/ /\ i <= Length[p] /\ p \notin reason /\ Asks(p, i, 1, "calling")
               /\ core' = "USING_TOOL"
            \/ i = Length[p] + 1 /\ Asks(p, i, 1, "verifying") /\ core' = core
<1> USE PlannerAssumption
    DEF PlannerTypeOK, OthersRest, Cancelled, InExecute, Final
<1> DEFINE Result ==
      /\ status'[p] = "SUCCEEDED" => i = Length[p] + 1 /\ p \notin WithGoal
      /\ \/ Leaves(p, "ended") /\ core' = Settled(core)
         \/ Leaves(p, "crashed") /\ core' = core
         \/ /\ i <= Length[p] /\ p \notin reason /\ Asks(p, i, 1, "calling")
            /\ core' = "USING_TOOL"
         \/ i = Length[p] + 1 /\ Asks(p, i, 1, "verifying") /\ core' = core
<1> SUFFICES Result
  OBVIOUS
<1>1. ASSUME NEW outcome \in Final, EndExecute(p, outcome),
             outcome = "SUCCEEDED" => i = Length[p] + 1 /\ p \notin WithGoal
      PROVE  Result
  BY <1>1 DEF EndExecute, Leaves, RestVars
<1>2. ASSUME i <= Length[p], ~Cancelled(p), core' = "USING_TOOL",
             status' = [status EXCEPT ![p] = "RUNNING"], CallStep(p, i, 1, "calling")
      PROVE  Result
  BY <1>2 DEF CallStep, Asks
<1>3. ASSUME status' = [status EXCEPT ![p] = "RUNNING"],
             position' = [position EXCEPT ![p] = "crashed"],
             active' = p, lock' = NoPlan, UNCHANGED <<index, reason, gatewayVars>>
      PROVE  Result
  BY <1>3 DEF Leaves, RestVars, gatewayVars, coreVars
<1>4. ASSUME i > Length[p], status' = [status EXCEPT ![p] = "RUNNING"], core' = core,
             CallStep(p, i, 1, "verifying")
      PROVE  Result
  BY <1>4 DEF CallStep, Asks
<1>5. /\ {"CANCELLED", "FAILED", "SUCCEEDED"} \subseteq Final /\ Length[p] \in Nat
      /\ i > Length[p] => i = Length[p] + 1
  OBVIOUS
<1> QED BY <1>1, <1>2, <1>3, <1>4, <1>5 DEF Proceed

--------------------------------------------------------------------------------
(* The invariant of the planner *)

\* Who waits for the lock is in its queue.
QueueInv == \A p \in Plans : position[p] = "queued" => \E k \in 1..Len(queue) : queue[k] = p

\* A confirmation the planner waits for belongs to the step at which its plan is
\* suspended, and a plan waits for one confirmation, here or with the engine.
ConfirmInv ==
  /\ \A c \in waiting \cup handedOver : position[c[1]] = "suspended" /\ c[2] = index[c[1]]
  /\ \A c \in waiting : c[1] \notin External
  /\ \A c \in handedOver : c[1] \in External
  /\ \A b, c \in waiting \cup handedOver : b[1] = c[1] => b = c

\* The active plan has not ended and is not one the engine owns the confirmation of.
ActiveInv ==
  active # NoPlan =>
    /\ position[active] \in InExecute \cup {"suspended", "queued", "crashed"}
    /\ position[active] = "suspended" => active \notin External

\* The step a plan is at, by its place in execute.
IndexInv ==
  \A p \in Plans :
    /\ index[p] \in 1..(Length[p] + 1)
    /\ position[p] = "new" => index[p] = 1
    /\ position[p] \in (InExecute \ {"verifying"}) \cup {"suspended"} => index[p] <= Length[p]
    /\ position[p] = "verifying" => index[p] = Length[p] + 1
    /\ position[p] \in {"backoff", "recheck"} => <<p, index[p]>> \in Retryable

PlaceInv == ConfirmInv /\ ActiveInv /\ IndexInv /\ OnePlanExecutes

\* What a step of a plan may do to the confirmations the planner waits for: those of
\* other plans stay or go.
ConfirmationsGo(p) ==
  /\ waiting' \subseteq {c \in waiting : c[1] # p}
  /\ handedOver' \subseteq {c \in handedOver : c[1] # p}

\* Leaving execute keeps every plan in its place.
LEMMA LeavesPlaces ==
  ASSUME PlannerTypeOK, PlaceInv, NEW p \in Plans, NEW place \in {"ended", "crashed"},
         Leaves(p, place), ConfirmationsGo(p), lock \in {NoPlan, p}
  PROVE  PlaceInv'
<1> USE PlannerAssumption DEF PlannerTypeOK, PlaceInv, Leaves, OthersRest, InExecute
<1>1. OnePlanExecutes'
  BY DEF OnePlanExecutes
<1>2. IndexInv'
  BY DEF IndexInv
<1>3. ActiveInv'
  BY DEF ActiveInv
<1>4. ConfirmInv'
  <2>1. \A c \in waiting' \cup handedOver' :
          c \in PlanCalls /\ c[1] \in Plans \ {p} /\ c \in waiting \cup handedOver
    BY CallOfPlan DEF ConfirmationsGo
  <2>2. \A c \in waiting' \cup handedOver' : position'[c[1]] = "suspended" /\ c[2] = index'[c[1]]
    BY <2>1 DEF ConfirmInv
  <2> QED BY <2>1, <2>2 DEF ConfirmInv, ConfirmationsGo
<1> QED BY <1>1, <1>2, <1>3, <1>4

\* So does asking for a step.
LEMMA AsksPlaces ==
  ASSUME PlannerTypeOK, PlaceInv, NEW p \in Plans, NEW i \in 1..(Length[p] + 1), NEW n,
         NEW place \in {"calling", "retrying", "rechecking", "verifying"}, Asks(p, i, n, place),
         place = "verifying" <=> i = Length[p] + 1,
         ConfirmationsGo(p), lock \in {NoPlan, p}
  PROVE  PlaceInv'
<1> USE PlannerAssumption DEF PlannerTypeOK, PlaceInv, Asks, OthersRest, InExecute
<1>1. OnePlanExecutes'
  BY DEF OnePlanExecutes
<1>2. IndexInv'
  <2>1. index'[p] = i /\ position'[p] = place
    OBVIOUS
  <2>2. Length[p] \in Nat
    OBVIOUS
  <2>3. i <= Length[p] \/ i = Length[p] + 1
    BY <2>2
  <2> QED BY <2>1, <2>3 DEF IndexInv
<1>3. ActiveInv'
  BY DEF ActiveInv
<1>4. ConfirmInv'
  <2>1. \A c \in waiting' \cup handedOver' :
          c \in PlanCalls /\ c[1] \in Plans \ {p} /\ c \in waiting \cup handedOver
    BY CallOfPlan DEF ConfirmationsGo
  <2>2. \A c \in waiting' \cup handedOver' : position'[c[1]] = "suspended" /\ c[2] = index'[c[1]]
    BY <2>1 DEF ConfirmInv
  <2> QED BY <2>1, <2>2 DEF ConfirmInv, ConfirmationsGo
<1> QED BY <1>1, <1>2, <1>3, <1>4

\* A plan that is not suspended has no confirmation to wait for.
LEMMA NothingAwaited ==
  ASSUME PlannerTypeOK, ConfirmInv, NEW p \in Plans, position[p] # "suspended",
         UNCHANGED <<waiting, handedOver>>
  PROVE  ConfirmationsGo(p)
BY DEF ConfirmInv, ConfirmationsGo

\* execute, entered with the lock free or its own, keeps every plan in its place.
LEMMA ProceedPlaces ==
  ASSUME PlannerTypeOK, PlaceInv, NEW p \in Plans, NEW i \in 1..(Length[p] + 1), Proceed(p, i),
         ConfirmationsGo(p), lock \in {NoPlan, p}
  PROVE  PlaceInv'
<1>1. CASE i <= Length[p] /\ Asks(p, i, 1, "calling")
  <2>1. "calling" = "verifying" <=> i = Length[p] + 1
    BY <1>1, PlannerAssumption
  <2> QED BY <1>1, <2>1, AsksPlaces
<1>2. CASE i = Length[p] + 1 /\ Asks(p, i, 1, "verifying")
  BY <1>2, AsksPlaces
<1>3. CASE Leaves(p, "ended") \/ Leaves(p, "crashed")
  BY <1>3, LeavesPlaces
<1> QED BY <1>1, <1>2, <1>3, ProceedCases

\* So does joining the queue of the lock.
LEMMA ExecutePlaces ==
  ASSUME PlannerTypeOK, PlaceInv, NEW p \in Plans, NEW i \in 1..(Length[p] + 1), Execute(p, i),
         ConfirmationsGo(p), position[p] \notin InExecute
  PROVE  PlaceInv'
<1>1. CASE lock = NoPlan /\ queue = <<>>
  BY <1>1, ProceedPlaces DEF Execute
<1>2. CASE ~(lock = NoPlan /\ queue = <<>>)
  <2> USE PlannerAssumption DEF PlannerTypeOK, PlaceInv, InExecute
  <2>1. /\ position' = [position EXCEPT ![p] = "queued"] /\ index' = [index EXCEPT ![p] = i]
        /\ UNCHANGED <<lock, active>>
    BY <1>2 DEF Execute
  <2>2. OnePlanExecutes'
    BY <2>1 DEF OnePlanExecutes
  <2>3. IndexInv'
    BY <2>1 DEF IndexInv
  <2>4. ActiveInv'
    BY <2>1 DEF ActiveInv
  <2>5. ConfirmInv'
    <3>1. \A c \in waiting' \cup handedOver' :
            c \in PlanCalls /\ c[1] \in Plans \ {p} /\ c \in waiting \cup handedOver
      BY CallOfPlan DEF ConfirmationsGo
    <3>2. \A c \in waiting' \cup handedOver' : position'[c[1]] = "suspended" /\ c[2] = index'[c[1]]
      BY <2>1, <3>1 DEF ConfirmInv
    <3> QED BY <3>1, <3>2 DEF ConfirmInv, ConfirmationsGo
  <2> QED BY <2>2, <2>3, <2>4, <2>5
<1> QED BY <1>1, <1>2

\* So does a suspended plan that ends by a decision or a cancellation.
LEMMA EndPlaces ==
  ASSUME PlannerTypeOK, PlaceInv, NEW p \in Plans, NEW outcome, End(p, outcome),
         UNCHANGED <<lock, index>>, ConfirmationsGo(p)
  PROVE  PlaceInv'
<1> USE PlannerAssumption DEF PlannerTypeOK, PlaceInv, InExecute
<1>1. /\ position' = [position EXCEPT ![p] = "ended"]
      /\ active' = IF active = p THEN NoPlan ELSE active
  BY DEF End
<1>2. OnePlanExecutes'
  BY <1>1 DEF OnePlanExecutes
<1>3. IndexInv'
  BY <1>1 DEF IndexInv
<1>4. ActiveInv'
  BY <1>1 DEF ActiveInv
<1>5. ConfirmInv'
  <2>1. \A c \in waiting' \cup handedOver' :
          c \in PlanCalls /\ c[1] \in Plans \ {p} /\ c \in waiting \cup handedOver
    BY CallOfPlan DEF ConfirmationsGo
  <2>2. \A c \in waiting' \cup handedOver' : position'[c[1]] = "suspended" /\ c[2] = index'[c[1]]
    BY <1>1, <2>1 DEF ConfirmInv
  <2> QED BY <2>1, <2>2 DEF ConfirmInv, ConfirmationsGo
<1> QED BY <1>2, <1>3, <1>4, <1>5

\* The plans whose handed over confirmations are settled are suspended, not active.
LEMMA RecordedPlans ==
  ASSUME PlannerTypeOK, PlaceInv, NEW calls, NEW outcome, RecordExternal(calls, outcome)
  PROVE  \A p \in Plans :
           \/ position'[p] = position[p] /\ status'[p] = status[p]
           \/ /\ position[p] = "suspended" /\ position'[p] = "ended" /\ status'[p] = outcome
              /\ p \in External /\ p # active
              /\ \E c \in handedOver \cap calls : c[1] = p
<1> SUFFICES ASSUME NEW p \in Plans, NEW c \in handedOver \cap calls, PlanOf(c) = p
             PROVE  position[p] = "suspended" /\ p \in External /\ p # active
  BY DEF RecordExternal, PlanOf
<1>1. position[p] = "suspended" /\ p \in External
  BY DEF PlaceInv, ConfirmInv, PlanOf
<1>2. p # active
  BY <1>1, PlannerAssumption DEF PlaceInv, ActiveInv
<1> QED BY <1>1, <1>2

\* The end of those plans keeps every plan in its place.
LEMMA RecordPlaces ==
  ASSUME PlannerTypeOK, PlaceInv, NEW calls, NEW outcome, RecordExternal(calls, outcome)
  PROVE  PlaceInv'
<1> USE PlannerAssumption DEF PlannerTypeOK, PlaceInv, InExecute
<1>1. /\ UNCHANGED <<lock, queue, active, index, waiting>> /\ handedOver' = handedOver \ calls
  BY DEF RecordExternal
<1>2. \A p \in Plans :
        \/ position'[p] = position[p]
        \/ /\ position[p] = "suspended" /\ position'[p] = "ended" /\ p # active
           /\ \E c \in handedOver \cap calls : c[1] = p
  BY RecordedPlans
<1>3. OnePlanExecutes'
  BY <1>1, <1>2 DEF OnePlanExecutes
<1>4. IndexInv'
  BY <1>1, <1>2 DEF IndexInv
<1>5. ActiveInv'
  BY <1>1, <1>2 DEF ActiveInv
<1>6. ConfirmInv'
  <2>1. \A c \in waiting' \cup handedOver' : c \in waiting \cup handedOver /\ c[1] \in Plans
    BY <1>1, CallOfPlan
  <2>2. ASSUME NEW c \in waiting' \cup handedOver'
        PROVE  position'[c[1]] = position[c[1]]
    <3>1. \A b \in handedOver \cap calls : b[1] # c[1]
      BY <1>1, <2>1, CallOfPlan DEF ConfirmInv
    <3> QED BY <1>2, <2>1, <3>1
  <2> QED BY <1>1, <2>1, <2>2 DEF ConfirmInv
<1> QED BY <1>3, <1>4, <1>5, <1>6

\* The end of execute leaves it.
LEMMA EndLeaves ==
  ASSUME PlannerTypeOK, NEW p \in Plans, NEW outcome \in Final, EndExecute(p, outcome)
  PROVE  Leaves(p, "ended") /\ status'[p] = outcome /\ core' = Settled(core)
BY DEF PlannerTypeOK, EndExecute, Leaves, OthersRest, RestVars, Final

\* A pause before a second attempt keeps every plan in its place.
LEMMA AwaitPlaces ==
  ASSUME PlannerTypeOK, PlaceInv, NEW p \in Plans, position[p] = "calling",
         <<p, index[p]>> \in Retryable,
         NEW place \in {"backoff", "recheck"}, Await(p, place), UNCHANGED <<waiting, handedOver>>
  PROVE  PlaceInv'
<1> USE PlannerAssumption DEF PlannerTypeOK, PlaceInv, InExecute
<1>1. /\ position' = [position EXCEPT ![p] = place]
      /\ UNCHANGED <<lock, active, index>>
  BY DEF Await
<1>2. OnePlanExecutes'
  BY <1>1 DEF OnePlanExecutes
<1>3. IndexInv'
  BY <1>1 DEF IndexInv
<1>4. ActiveInv'
  BY <1>1 DEF ActiveInv
<1>5. ConfirmInv'
  BY <1>1, CallOfPlan DEF ConfirmInv
<1> QED BY <1>2, <1>3, <1>4, <1>5

\* So does the suspension of a plan.
LEMMA SuspendPlaces ==
  ASSUME PlannerTypeOK, PlaceInv, NEW p \in Plans, Suspend(p)
  PROVE  PlaceInv'
<1> USE PlannerAssumption DEF PlannerTypeOK, PlaceInv, InExecute
<1>1. /\ position[p] \in {"calling", "retrying"} /\ lock = p
      /\ position' = [position EXCEPT ![p] = "suspended"]
      /\ lock' = NoPlan /\ index' = index
      /\ \/ p \in External /\ handedOver' = handedOver \cup {CurrentCall(p)} /\ active' = NoPlan
            /\ waiting' = waiting
         \/ p \notin External /\ waiting' = waiting \cup {CurrentCall(p)} /\ active' = active
            /\ handedOver' = handedOver
  BY DEF Suspend, WaitFor, OnePlanExecutes
<1>2. OnePlanExecutes'
  BY <1>1 DEF OnePlanExecutes
<1>3. IndexInv'
  BY <1>1 DEF IndexInv
<1>4. ActiveInv'
  BY <1>1 DEF ActiveInv
<1>5. ConfirmInv'
  <2>1. CurrentCall(p)[1] = p /\ CurrentCall(p)[2] = index[p]
    BY DEF CurrentCall
  <2>2. \A c \in waiting \cup handedOver : c[1] \in Plans \ {p}
    BY <1>1, CallOfPlan DEF ConfirmInv
  <2> QED BY <1>1, <2>1, <2>2 DEF ConfirmInv
<1> QED BY <1>2, <1>3, <1>4, <1>5

\* The coroutine of a plan keeps every plan in its place.
LEMMA PlanPlaces ==
  ASSUME PlannerTypeOK, PlaceInv, NEW p \in Plans, PlanStep(p)
  PROVE  PlaceInv'
<1> USE PlannerAssumption
<1>1. /\ index[p] \in 1..(Length[p] + 1) /\ Length[p] \in Nat \ {0} /\ index[p] \in Nat
      /\ position[p] \in InExecute => lock = p
      /\ position[p] \in InExecute \ {"verifying"} => index[p] <= Length[p]
  BY DEF PlaceInv, IndexInv, OnePlanExecutes, PlannerTypeOK
<1>2. position[p] # "suspended" /\ UNCHANGED <<waiting, handedOver>> => ConfirmationsGo(p)
  BY NothingAwaited DEF PlaceInv
<1>3. ASSUME NEW outcome \in Final, EndExecute(p, outcome), position[p] \in InExecute,
             UNCHANGED <<waiting, handedOver>>
      PROVE  PlaceInv'
  BY <1>1, <1>2, <1>3, EndLeaves, LeavesPlaces DEF InExecute
<1>4. CASE Submit(p)
  <2>1. index[p] = 1 /\ 1 \in 1..(Length[p] + 1)
    BY <1>1, <1>4 DEF Submit, PlaceInv, IndexInv
  <2> QED BY <1>2, <1>4, <2>1, ExecutePlaces DEF Submit, confirmVars, InExecute
<1>5. CASE Acquire(p)
  BY <1>1, <1>2, <1>5, ProceedPlaces DEF Acquire, confirmVars
<1>6. CASE OnException(p)
  <2>1. CASE \E outcome \in {"CANCELLED", "FAILED"} : EndExecute(p, outcome)
    BY <1>3, <1>6, <2>1 DEF OnException, Replied, confirmVars, Final
  <2>2. CASE MayRetry(p) /\ Await(p, "backoff")
    BY <1>6, <2>2, AwaitPlaces DEF OnException, MayRetry, confirmVars
  <2> QED BY <1>6, <2>1, <2>2 DEF OnException
<1>7. CASE OnResult(p)
  <2>1. CASE \E outcome \in {"CANCELLED", "FAILED"} : EndExecute(p, outcome)
    BY <1>3, <1>7, <2>1 DEF OnResult, Replied, confirmVars, Final
  <2>2. CASE MayRetry(p) /\ Await(p, "recheck")
    BY <1>7, <2>2, AwaitPlaces DEF OnResult, MayRetry, confirmVars
  <2>3. CASE Proceed(p, Following(p))
    <3>1. position[p] \in InExecute \ {"verifying"} /\ UNCHANGED <<waiting, handedOver>>
      BY <1>7 DEF OnResult, Replied, confirmVars
    <3>2. Following(p) \in 1..(Length[p] + 1)
      BY <1>1, <3>1 DEF Following
    <3>3. position[p] # "suspended" /\ lock = p
      BY <1>1, <3>1 DEF InExecute
    <3> QED BY <1>2, <2>3, <3>1, <3>2, <3>3, ProceedPlaces
  <2> QED BY <1>7, <2>1, <2>2, <2>3 DEF OnResult
<1>8. CASE Suspend(p)
  BY <1>8, SuspendPlaces
<1>9. CASE Retry(p)
  <2>1. /\ position[p] \in {"backoff", "recheck"} /\ UNCHANGED <<waiting, handedOver>>
        /\ index[p] <= Length[p] /\ lock = p /\ ConfirmationsGo(p)
    BY <1>1, <1>2, <1>9 DEF Retry, confirmVars, InExecute
  <2>2. \E place \in {"retrying", "rechecking"} : Asks(p, index[p], 2, place)
    BY <1>9 DEF Retry, CallStep, Asks, OthersRest, PlannerTypeOK
  <2>3. index[p] # Length[p] + 1
    BY <1>1, <2>1
  <2> QED BY <1>1, <2>1, <2>2, <2>3, AsksPlaces
<1>10. CASE OnGoalChecked(p)
  <2>1. \E outcome \in {"SUCCEEDED", "FAILED"} : EndExecute(p, outcome)
    BY <1>10 DEF OnGoalChecked
  <2> QED BY <1>3, <1>10, <2>1 DEF OnGoalChecked, Replied, confirmVars, Final
<1> QED BY <1>4, <1>5, <1>6, <1>7, <1>8, <1>9, <1>10 DEF PlanStep

\* A decision about a confirmation keeps every plan in its place.
LEMMA DecisionPlaces ==
  ASSUME PlannerTypeOK, PlaceInv, NEW d \in Decisions, PlannerDecided(d) \/ Continue(d)
  PROVE  PlaceInv'
<1> DEFINE c == subject[d]
           p == PlanOf(c)
<1>1. ASSUME c \in waiting
      PROVE  /\ c \in PlanCalls /\ p \in Plans /\ position[p] = "suspended" /\ c[2] = index[p]
             /\ waiting' = waiting \ {c} /\ handedOver' = handedOver => ConfirmationsGo(p)
             /\ Following(p) \in 1..(Length[p] + 1)
  <2>1. /\ c \in PlanCalls /\ p \in Plans /\ position[p] = "suspended" /\ c[2] = index[p]
        /\ waiting' = waiting \ {c} /\ handedOver' = handedOver => ConfirmationsGo(p)
    BY <1>1, CallOfPlan DEF PlannerTypeOK, PlaceInv, ConfirmInv, PlanOf, ConfirmationsGo
  <2>2. index[p] \in 1..(Length[p] + 1) /\ index[p] <= Length[p]
    BY <2>1 DEF PlaceInv, IndexInv
  <2>3. Length[p] \in Nat
    BY <2>1, PlannerAssumption
  <2>4. Following(p) \in 1..(Length[p] + 1)
    BY <2>2, <2>3 DEF Following
  <2> QED BY <2>1, <2>4
<1>2. CASE UNCHANGED <<planVars, confirmVars>>
  BY <1>2 DEF PlaceInv, ConfirmInv, ActiveInv, IndexInv, OnePlanExecutes, planVars, confirmVars
<1>3. CASE PlannerDecided(d)
  <2>1. CASE /\ c \in waiting /\ End(p, "DENIED") /\ Forget({c})
             /\ UNCHANGED <<lock, queue, index, handedOver>>
    BY <1>1, <2>1, EndPlaces DEF Forget
  <2>2. CASE RecordExternal({c}, "FAILED")
    BY <2>2, RecordPlaces
  <2> QED BY <1>2, <1>3, <2>1, <2>2 DEF PlannerDecided
<1>4. CASE Continue(d)
  <2>1. CASE \E outcome : RecordExternal({c}, outcome)
    BY <2>1, RecordPlaces
  <2>2. CASE c \in waiting /\ Execute(p, Following(p)) /\ Forget({c}) /\ UNCHANGED handedOver
    <3>1. position[p] \notin InExecute
      BY <1>1, <2>2 DEF InExecute
    <3> QED BY <1>1, <2>2, <3>1, ExecutePlaces DEF Forget
  <2>3. CASE c \in waiting /\ End(p, "FAILED") /\ Forget({c}) /\ UNCHANGED <<lock, index, handedOver>>
    BY <1>1, <2>3, EndPlaces DEF Forget
  <2> QED BY <1>4, <2>1, <2>2, <2>3 DEF Continue
<1> QED BY <1>3, <1>4

\* A stop, or the cancellation of the active plan, keeps every plan in its place.
LEMMA StopPlaces ==
  ASSUME PlannerTypeOK, PlaceInv, NEW s \in Stops, PlannerStopStep(s)
  PROVE  PlaceInv'
<1>1. CASE PlannerCancel(s)
  <2> DEFINE cancellable == active # NoPlan /\ status[active] \in {"RUNNING", "WAITING_CONFIRMATION"}
             confirmations == {c \in waiting : cancellable /\ PlanOf(c) = active}
  <2>1. /\ waiting' = waiting \ confirmations /\ UNCHANGED <<lock, index, handedOver>>
        /\ IF confirmations # {} THEN End(active, "CANCELLED") ELSE UNCHANGED <<active, position>>
    BY <1>1 DEF PlannerCancel, Forget
  <2>2. CASE confirmations # {}
    <3>1. PICK c \in waiting : c[1] = active /\ cancellable
      BY <2>2 DEF PlanOf
    <3>2. active \in Plans
      BY <3>1, CallOfPlan DEF PlannerTypeOK
    <3>3. ConfirmationsGo(active)
      BY <2>1, <3>1 DEF ConfirmationsGo, PlaceInv, ConfirmInv, PlanOf
    <3> QED BY <2>1, <2>2, <3>2, <3>3, EndPlaces
  <2>3. CASE confirmations = {}
    BY <2>1, <2>3 DEF PlaceInv, ConfirmInv, ActiveInv, IndexInv, OnePlanExecutes
  <2> QED BY <2>2, <2>3
<1>2. CASE \E c \in Calls : PlannerRevoke(s, c)
  BY <1>2, RecordPlaces DEF PlannerRevoke
<1>3. CASE UNCHANGED plannerVars
  BY <1>3 DEF PlaceInv, ConfirmInv, ActiveInv, IndexInv, OnePlanExecutes, plannerVars, planVars,
              confirmVars
<1> QED BY <1>1, <1>2, <1>3 DEF PlannerStopStep

\* Every step of the planner keeps every plan in its place.
LEMMA PlaceStep ==
  ASSUME PlannerTypeOK, PlaceInv, [PlannerNext]_vars
  PROVE  PlaceInv'
<1>1. CASE UNCHANGED plannerVars
  BY <1>1 DEF PlaceInv, ConfirmInv, ActiveInv, IndexInv, OnePlanExecutes, plannerVars, planVars,
              confirmVars
<1>2. CASE PlannerPrune
  BY <1>2, RecordPlaces DEF PlannerPrune
<1> QED
  BY <1>1, <1>2, PlanPlaces, DecisionPlaces, StopPlaces DEF PlannerNext, GatewayOnly, vars

--------------------------------------------------------------------------------
(* Types and the queue *)

PlanType ==
  /\ lock \in Plans \cup {NoPlan}
  /\ active \in Plans \cup {NoPlan}
  /\ position \in [Plans -> {"new", "queued", "suspended", "crashed", "ended"} \cup InExecute]
  /\ index \in [Plans -> Nat]
  /\ status \in [Plans -> {"PENDING", "RUNNING", "WAITING_CONFIRMATION", "CANCEL_REQUESTED"}
                          \cup Final]
  /\ reason \in SUBSET Plans

ConfirmType ==
  /\ waiting \in SUBSET PlanCalls /\ handedOver \in SUBSET PlanCalls
  /\ settled \in SUBSET Decisions /\ withdrew \in SUBSET Stops

\* Nobody starts to wait for the lock but by joining its queue.
QueueKept == UNCHANGED queue /\ \A p \in Plans : position'[p] = "queued" => position[p] = "queued"

\* The end of execute and the steps of its loop keep the types.
LEMMA ProceedType ==
  ASSUME PlannerTypeOK, NEW p \in Plans, NEW i \in 1..(Length[p] + 1),
         Proceed(p, i) \/ \E outcome \in Final : EndExecute(p, outcome)
  PROVE  PlanType' /\ position'[p] # "queued"
         /\ \A q \in Plans \ {p} : position'[q] = position[q]
<1> USE PlannerAssumption DEF PlannerTypeOK, PlanType, InExecute, Final
<1>1. i \in Nat
  OBVIOUS
<1>2. ASSUME NEW outcome \in Final, EndExecute(p, outcome)
      PROVE  PlanType' /\ position'[p] # "queued"
             /\ \A q \in Plans \ {p} : position'[q] = position[q]
  BY <1>2 DEF EndExecute
<1>3. ASSUME NEW place \in {"calling", "verifying"}, CallStep(p, i, 1, place),
             status' = [status EXCEPT ![p] = "RUNNING"]
      PROVE  PlanType' /\ position'[p] # "queued"
             /\ \A q \in Plans \ {p} : position'[q] = position[q]
  BY <1>1, <1>3 DEF CallStep
<1>4. ASSUME status' = [status EXCEPT ![p] = "RUNNING"],
             position' = [position EXCEPT ![p] = "crashed"],
             active' = p, lock' = NoPlan, UNCHANGED <<index, reason, gatewayVars>>
      PROVE  PlanType' /\ position'[p] # "queued"
             /\ \A q \in Plans \ {p} : position'[q] = position[q]
  BY <1>4
<1>5. {"CANCELLED", "FAILED", "SUCCEEDED"} \subseteq Final
  OBVIOUS
<1> QED BY <1>2, <1>3, <1>4, <1>5 DEF Proceed

\* execute keeps the types, and the queue in order.
LEMMA ExecuteType ==
  ASSUME PlannerTypeOK, QueueInv, NEW p \in Plans, NEW i \in 1..(Length[p] + 1), Execute(p, i)
  PROVE  PlanType' /\ queue' \in Seq(Plans) /\ QueueInv'
<1> USE PlannerAssumption
<1>1. CASE lock = NoPlan /\ queue = <<>>
  BY <1>1, ProceedType DEF Execute, PlannerTypeOK, QueueInv
<1>2. CASE ~(lock = NoPlan /\ queue = <<>>)
  <2>1. /\ queue' = Append(queue, p) /\ position' = [position EXCEPT ![p] = "queued"]
        /\ index' = [index EXCEPT ![p] = i] /\ UNCHANGED <<lock, active, status, reason>>
    BY <1>2 DEF Execute
  <2>2. PlanType'
    BY <2>1 DEF PlannerTypeOK, PlanType
  <2>3. /\ queue' \in Seq(Plans) /\ Len(queue') = Len(queue) + 1 /\ Len(queue) \in Nat
        /\ queue'[Len(queue) + 1] = p /\ \A k \in 1..Len(queue) : queue'[k] = queue[k]
    BY <2>1, AppendProperties, LenProperties DEF PlannerTypeOK
  <2>4. ASSUME NEW q \in Plans, position'[q] = "queued"
        PROVE  \E k \in 1..Len(queue') : queue'[k] = q
    <3>1. CASE q = p
      BY <2>3, <3>1
    <3>2. CASE q # p
      <4>1. PICK k \in 1..Len(queue) : queue[k] = q
        BY <2>1, <2>4, <3>2 DEF QueueInv, PlannerTypeOK
      <4> QED BY <2>3, <4>1
    <3> QED BY <3>1, <3>2
  <2> QED BY <2>2, <2>3, <2>4 DEF QueueInv
<1> QED BY <1>1, <1>2

\* The lock goes to the head of the queue, the others stay in it.
LEMMA AcquireType ==
  ASSUME PlannerTypeOK, QueueInv, NEW p \in Plans, index[p] \in 1..(Length[p] + 1), Acquire(p)
  PROVE  PlanType' /\ queue' \in Seq(Plans) /\ QueueInv'
<1>1. /\ position[p] = "queued" /\ Head(queue) = p /\ queue' = Tail(queue)
      /\ Proceed(p, index[p])
  BY DEF Acquire
<1>2. PlanType' /\ position'[p] # "queued" /\ \A q \in Plans \ {p} : position'[q] = position[q]
  BY <1>1, ProceedType
<1>3. queue # <<>> /\ queue \in Seq(Plans)
  BY <1>1 DEF QueueInv, PlannerTypeOK
<1>4. /\ queue' \in Seq(Plans) /\ Len(queue) \in Nat /\ Len(queue') = Len(queue) - 1
      /\ \A k \in 1..Len(queue') : queue'[k] = queue[k + 1]
      /\ queue[1] = p
  BY <1>1, <1>3, HeadTailProperties, LenProperties
<1>5. ASSUME NEW q \in Plans, position'[q] = "queued"
      PROVE  \E k \in 1..Len(queue') : queue'[k] = q
  <2>1. q # p /\ position[q] = "queued"
    BY <1>2, <1>5
  <2>2. PICK k \in 1..Len(queue) : queue[k] = q
    BY <2>1 DEF QueueInv
  <2>3. k # 1
    BY <1>4, <2>1, <2>2
  <2>4. k - 1 \in 1..Len(queue') /\ queue'[k - 1] = queue[(k - 1) + 1] /\ (k - 1) + 1 = k
    BY <1>4, <2>2, <2>3
  <2> QED BY <2>2, <2>4
<1> QED BY <1>2, <1>4, <1>5 DEF QueueInv

\* The coroutine of a plan keeps the types and the queue.
LEMMA PlanTypes ==
  ASSUME PlannerTypeOK, PlaceInv, QueueInv, NEW p \in Plans, PlanStep(p)
  PROVE  PlannerTypeOK' /\ QueueInv'
<1> USE PlannerAssumption
<1>1. /\ index[p] \in 1..(Length[p] + 1) /\ index[p] \in Nat /\ Length[p] \in Nat
      /\ position[p] \in InExecute \ {"verifying"} => index[p] <= Length[p]
  BY DEF PlaceInv, IndexInv, PlannerTypeOK
<1>2. /\ PlanType' /\ ConfirmType' /\ queue' \in Seq(Plans) => PlannerTypeOK'
      /\ UNCHANGED confirmVars => ConfirmType'
  BY DEF PlannerTypeOK, PlanType, ConfirmType, confirmVars
<1>3. queue \in Seq(Plans) /\ (QueueKept => QueueInv' /\ queue' \in Seq(Plans))
  BY DEF QueueKept, QueueInv, PlannerTypeOK
<1>4. ASSUME NEW outcome \in Final, EndExecute(p, outcome), UNCHANGED <<queue, confirmVars>>
      PROVE  PlannerTypeOK' /\ QueueInv'
  <2>1. PlanType' /\ QueueKept
    BY <1>1, <1>4, ProceedType DEF QueueKept
  <2> QED BY <1>2, <1>3, <1>4, <2>1
<1>5. ASSUME NEW place \in {"backoff", "recheck"}, Await(p, place), UNCHANGED <<queue, confirmVars>>
      PROVE  PlannerTypeOK' /\ QueueInv'
  <2>1. PlanType' /\ QueueKept
    BY <1>5 DEF Await, PlannerTypeOK, PlanType, QueueKept, InExecute
  <2> QED BY <1>2, <1>3, <1>5, <2>1
<1>6. CASE Submit(p)
  <2>1. 1 \in 1..(Length[p] + 1)
    BY <1>1
  <2> QED BY <1>2, <1>6, <2>1, ExecuteType DEF Submit
<1>7. CASE Acquire(p)
  BY <1>1, <1>2, <1>7, AcquireType DEF Acquire
<1>8. CASE OnException(p)
  <2>1. CASE \E outcome \in {"CANCELLED", "FAILED"} : EndExecute(p, outcome)
    BY <1>4, <1>8, <2>1 DEF OnException, Final
  <2>2. CASE Await(p, "backoff")
    BY <1>5, <1>8, <2>2 DEF OnException
  <2> QED BY <1>8, <2>1, <2>2 DEF OnException
<1>9. CASE OnResult(p)
  <2>1. CASE \E outcome \in {"CANCELLED", "FAILED"} : EndExecute(p, outcome)
    BY <1>4, <1>9, <2>1 DEF OnResult, Final
  <2>2. CASE Await(p, "recheck")
    BY <1>5, <1>9, <2>2 DEF OnResult
  <2>3. CASE Proceed(p, Following(p))
    <3>1. position[p] \in InExecute \ {"verifying"} /\ UNCHANGED <<queue, confirmVars>>
      BY <1>9 DEF OnResult, Replied
    <3>2. Following(p) \in 1..(Length[p] + 1)
      BY <1>1, <3>1 DEF Following
    <3>3. PlanType' /\ QueueKept
      BY <2>3, <3>1, <3>2, ProceedType DEF QueueKept
    <3> QED BY <1>2, <1>3, <3>1, <3>3
  <2> QED BY <1>9, <2>1, <2>2, <2>3 DEF OnResult
<1>10. CASE Suspend(p)
  <2>1. PlanType' /\ QueueKept
    BY <1>10 DEF Suspend, WaitFor, PlannerTypeOK, PlanType, QueueKept, InExecute
  <2>2. CurrentCall(p) \in PlanCalls
    BY <1>1, CallOfPlan DEF CurrentCall
  <2>3. ConfirmType'
    BY <1>10, <2>2 DEF Suspend, WaitFor, PlannerTypeOK, ConfirmType
  <2> QED BY <1>2, <1>3, <2>1, <2>3
<1>11. CASE Retry(p)
  <2>1. PlanType' /\ QueueKept
    BY <1>1, <1>11 DEF Retry, CallStep, PlannerTypeOK, PlanType, QueueKept, InExecute
  <2> QED BY <1>2, <1>3, <1>11, <2>1 DEF Retry
<1>12. CASE OnGoalChecked(p)
  <2>1. \E outcome \in {"SUCCEEDED", "FAILED"} : EndExecute(p, outcome)
    BY <1>12 DEF OnGoalChecked
  <2> QED BY <1>4, <1>12, <2>1 DEF OnGoalChecked, Final
<1> QED BY <1>6, <1>7, <1>8, <1>9, <1>10, <1>11, <1>12 DEF PlanStep

\* The end of plans whose handed over confirmations are settled keeps the types.
LEMMA RecordTypes ==
  ASSUME PlannerTypeOK, PlaceInv, QueueInv, NEW calls, NEW outcome \in Final,
         RecordExternal(calls, outcome)
  PROVE  /\ PlanType' /\ queue' \in Seq(Plans) /\ QueueInv'
         /\ waiting' \in SUBSET PlanCalls /\ handedOver' \in SUBSET PlanCalls
<1>1. PlanType' /\ QueueKept
  BY DEF RecordExternal, PlannerTypeOK, PlanType, QueueKept
<1> QED BY <1>1 DEF RecordExternal, PlannerTypeOK, QueueKept, QueueInv

\* A suspended plan that ends keeps the types.
LEMMA EndTypes ==
  ASSUME PlannerTypeOK, QueueInv, NEW p \in Plans, NEW outcome \in Final, End(p, outcome),
         UNCHANGED <<lock, queue, index>>, reason' \in SUBSET Plans
  PROVE  PlanType' /\ queue' \in Seq(Plans) /\ QueueInv'
<1>1. PlanType' /\ QueueKept
  BY DEF End, PlannerTypeOK, PlanType, QueueKept
<1> QED BY <1>1 DEF PlannerTypeOK, QueueKept, QueueInv

\* A decision keeps the types and the queue.
LEMMA DecisionTypes ==
  ASSUME PlannerTypeOK, PlaceInv, QueueInv, NEW d \in Decisions, PlannerDecided(d) \/ Continue(d)
  PROVE  PlannerTypeOK' /\ QueueInv'
<1> DEFINE c == subject[d]
           p == PlanOf(c)
<1>1. ASSUME c \in waiting
      PROVE  p \in Plans /\ Following(p) \in 1..(Length[p] + 1)
  <2>1. c \in PlanCalls /\ p \in Plans /\ position[p] = "suspended"
    BY <1>1, CallOfPlan DEF PlannerTypeOK, PlaceInv, ConfirmInv, PlanOf
  <2>2. index[p] \in 1..(Length[p] + 1) /\ index[p] <= Length[p]
    BY <2>1 DEF PlaceInv, IndexInv
  <2>3. Length[p] \in Nat
    BY <2>1, PlannerAssumption
  <2>4. Following(p) \in 1..(Length[p] + 1)
    BY <2>2, <2>3 DEF Following
  <2> QED BY <2>1, <2>4
<1>2. PlanType' /\ ConfirmType' /\ queue' \in Seq(Plans) => PlannerTypeOK'
  BY DEF PlannerTypeOK, PlanType, ConfirmType
<1>3. CASE UNCHANGED <<planVars, confirmVars>>
  BY <1>3 DEF PlannerTypeOK, QueueInv, planVars, confirmVars
<1>4. CASE PlannerDecided(d)
  <2>1. CASE /\ c \in waiting /\ End(p, "DENIED") /\ reason' = reason \cup {p} /\ Forget({c})
             /\ settled' = settled \cup {d} /\ UNCHANGED <<lock, queue, index, handedOver, withdrew>>
    <3>1. reason' \in SUBSET Plans /\ "DENIED" \in Final
      BY <1>1, <2>1 DEF PlannerTypeOK, Final
    <3>2. ConfirmType'
      BY <2>1 DEF PlannerTypeOK, ConfirmType, Forget
    <3> QED BY <1>1, <1>2, <2>1, <3>1, <3>2, EndTypes
  <2>2. CASE RecordExternal({c}, "FAILED") /\ settled' = settled \cup {d} /\ UNCHANGED withdrew
    <3>1. "FAILED" \in Final
      BY DEF Final
    <3> QED BY <1>2, <2>2, <3>1, RecordTypes DEF ConfirmType, PlannerTypeOK
  <2> QED BY <1>3, <1>4, <2>1, <2>2 DEF PlannerDecided
<1>5. CASE Continue(d)
  <2>1. settled' \in SUBSET Decisions /\ withdrew' \in SUBSET Stops
    BY <1>5 DEF Continue, PlannerTypeOK
  <2>2. CASE \E outcome \in {"SUCCEEDED", "FAILED"} : RecordExternal({c}, outcome)
    BY <1>2, <2>1, <2>2, RecordTypes DEF ConfirmType, Final
  <2>3. CASE c \in waiting /\ Forget({c}) /\ UNCHANGED handedOver /\ Execute(p, Following(p))
    <3>1. ConfirmType'
      BY <2>1, <2>3 DEF PlannerTypeOK, ConfirmType, Forget
    <3> QED BY <1>1, <1>2, <2>3, <3>1, ExecuteType
  <2>4. CASE /\ c \in waiting /\ Forget({c}) /\ End(p, "FAILED")
             /\ UNCHANGED <<lock, queue, index, handedOver, reason>>
    <3>1. ConfirmType' /\ reason' \in SUBSET Plans /\ "FAILED" \in Final
      BY <2>1, <2>4 DEF PlannerTypeOK, ConfirmType, Forget, Final
    <3> QED BY <1>1, <1>2, <2>4, <3>1, EndTypes
  <2> QED BY <1>5, <2>2, <2>3, <2>4 DEF Continue
<1> QED BY <1>4, <1>5

\* A stop keeps the types and the queue.
LEMMA StopTypes ==
  ASSUME PlannerTypeOK, PlaceInv, QueueInv, NEW s \in Stops, PlannerStopStep(s)
  PROVE  PlannerTypeOK' /\ QueueInv'
<1>1. PlanType' /\ ConfirmType' /\ queue' \in Seq(Plans) => PlannerTypeOK'
  BY DEF PlannerTypeOK, PlanType, ConfirmType
<1>2. CASE PlannerCancel(s)
  <2> DEFINE cancellable == active # NoPlan /\ status[active] \in {"RUNNING", "WAITING_CONFIRMATION"}
             confirmations == {c \in waiting : cancellable /\ PlanOf(c) = active}
  <2>1. /\ reason' = (IF cancellable THEN reason \cup {active} ELSE reason)
        /\ waiting' = waiting \ confirmations /\ withdrew' \in {withdrew, withdrew \cup {s}}
        /\ UNCHANGED <<lock, queue, index, handedOver, settled>>
    BY <1>2 DEF PlannerCancel, Forget
  <2>2. ConfirmType' /\ reason' \in SUBSET Plans /\ (cancellable => active \in Plans)
    BY <2>1 DEF PlannerTypeOK, ConfirmType
  <2>3. CASE confirmations # {}
    <3>1. active \in Plans /\ End(active, "CANCELLED") /\ "CANCELLED" \in Final
      BY <1>2, <2>2, <2>3 DEF PlannerCancel, Final
    <3> QED BY <1>1, <2>1, <2>2, <3>1, EndTypes
  <2>4. CASE confirmations = {}
    <3>1. /\ status' = [q \in Plans |-> IF cancellable /\ q = active THEN "CANCEL_REQUESTED"
                                        ELSE status[q]]
          /\ UNCHANGED <<active, position>>
      BY <1>2, <2>4 DEF PlannerCancel
    <3>2. PlanType'
      BY <2>1, <2>2, <3>1 DEF PlannerTypeOK, PlanType
    <3> QED BY <1>1, <2>1, <2>2, <3>1, <3>2 DEF PlannerTypeOK, QueueInv
  <2> QED BY <2>3, <2>4
<1>3. CASE \E c \in Calls : PlannerRevoke(s, c)
  <2>1. "FAILED" \in Final
    BY DEF Final
  <2> QED BY <1>1, <1>3, <2>1, RecordTypes DEF PlannerRevoke, ConfirmType, PlannerTypeOK
<1>4. CASE UNCHANGED plannerVars
  BY <1>4 DEF PlannerTypeOK, QueueInv, plannerVars, planVars, confirmVars
<1> QED BY <1>2, <1>3, <1>4 DEF PlannerStopStep

\* Every step of the planner keeps the types and the queue.
LEMMA PlannerTypeStep ==
  ASSUME PlannerTypeOK, PlaceInv, QueueInv, [PlannerNext]_vars
  PROVE  PlannerTypeOK' /\ QueueInv'
<1>1. CASE UNCHANGED plannerVars
  BY <1>1 DEF PlannerTypeOK, QueueInv, plannerVars, planVars, confirmVars
<1>2. CASE PlannerPrune
  <2>1. "FAILED" \in Final
    BY DEF Final
  <2>2. /\ PlanType' /\ queue' \in Seq(Plans) /\ QueueInv'
        /\ waiting' \in SUBSET PlanCalls /\ handedOver' \in SUBSET PlanCalls
    BY <1>2, <2>1, RecordTypes DEF PlannerPrune
  <2> QED BY <1>2, <2>2 DEF PlannerPrune, PlannerTypeOK, PlanType
<1> QED
  BY <1>1, <1>2, PlanTypes, DecisionTypes, StopTypes DEF PlannerNext, GatewayOnly, vars

--------------------------------------------------------------------------------
(* The planner on the gateway *)

\* The coroutine of a plan is, to the gateway, a request or nothing.
LEMMA PlanIsPlanned ==
  ASSUME TypeOK, PlannerTypeOK, PlaceInv, NEW p \in Plans, PlanStep(p)
  PROVE  PlannedStep /\ core' \in CoreStates
<1> USE PlannerAssumption
<1>1. /\ index[p] \in 1..(Length[p] + 1) /\ index[p] \in Nat /\ Length[p] \in Nat
      /\ position[p] \in InExecute \ {"verifying"} => index[p] <= Length[p]
  BY DEF PlaceInv, IndexInv, PlannerTypeOK
<1>2. /\ core \in CoreStates /\ Settled(core) \in CoreStates /\ "USING_TOOL" \in CoreStates
      /\ core' = core \/ core' = Settled(core) \/ core' = "USING_TOOL" => core' \in CoreStates
  BY DEF TypeOK, Settled, CoreStates
<1>3. ASSUME NEW i \in 1..(Length[p] + 1), NEW n \in {1, 2}, NEW place, Asks(p, i, n, place)
      PROVE  PlannedStep
  BY <1>3, CallOfPlan DEF Asks, PlannedStep
<1>4. ASSUME NEW place, Leaves(p, place)
      PROVE  PlannedStep
  BY <1>4 DEF Leaves, PlannedStep
<1>5. ASSUME NEW i \in 1..(Length[p] + 1), Proceed(p, i)
      PROVE  PlannedStep /\ core' \in CoreStates
  BY <1>2, <1>3, <1>4, <1>5, ProceedCases
<1>6. ASSUME NEW outcome \in Final, EndExecute(p, outcome)
      PROVE  PlannedStep /\ core' \in CoreStates
  BY <1>2, <1>4, <1>6, EndLeaves
<1>7. ASSUME UNCHANGED gatewayVars
      PROVE  PlannedStep /\ core' \in CoreStates
  BY <1>2, <1>7 DEF PlannedStep, RestVars, gatewayVars, coreVars
<1>8. CASE Submit(p)
  <2>1. 1 \in 1..(Length[p] + 1)
    BY <1>1
  <2> QED BY <1>5, <1>7, <1>8, <2>1 DEF Submit, Execute
<1>9. CASE Acquire(p)
  BY <1>1, <1>5, <1>9 DEF Acquire
<1>10. CASE OnException(p) \/ OnGoalChecked(p)
  BY <1>6, <1>7, <1>10 DEF OnException, OnGoalChecked, Await, Final
<1>11. CASE OnResult(p)
  <2>1. position[p] \in InExecute \ {"verifying"} => Following(p) \in 1..(Length[p] + 1)
    BY <1>1 DEF Following
  <2> QED BY <1>5, <1>6, <1>7, <1>11, <2>1 DEF OnResult, Replied, Await, Final
<1>12. CASE Suspend(p)
  BY <1>7, <1>12 DEF Suspend
<1>13. CASE Retry(p)
  <2>1. \E place : Asks(p, index[p], 2, place)
    BY <1>13 DEF Retry, CallStep, Asks, OthersRest, PlannerTypeOK
  <2> QED BY <1>1, <1>2, <1>3, <1>13, <2>1 DEF Retry
<1> QED BY <1>8, <1>9, <1>10, <1>11, <1>12, <1>13 DEF PlanStep

\* Every step of the planner is a step of the gateway, or asks for a tool, or names the
\* confirmations of its plan, or leaves all but the core alone.
LEMMA PlannerIsPlanned ==
  ASSUME TypeOK, PlannerTypeOK, PlaceInv, [PlannerNext]_vars
  PROVE  PlannedStep /\ core' \in CoreStates
<1> USE GatewayAssumption, PlannerAssumption
<1>1. core \in CoreStates /\ (core' = core => core' \in CoreStates)
  BY DEF TypeOK
<1>2. CASE UNCHANGED gatewayVars
  BY <1>1, <1>2 DEF PlannedStep, RestVars, gatewayVars, coreVars
<1>3. ASSUME NEW d \in Decisions, PlannerDecided(d)
      PROVE  PlannedStep /\ core' \in CoreStates
  BY <1>1, <1>3 DEF PlannerDecided, Decided, PlannedStep, Next, HandlerStep, CoreStates
<1>4. ASSUME NEW d \in Decisions, Continue(d)
      PROVE  PlannedStep /\ core' \in CoreStates
  <2> DEFINE c == subject[d]
             p == PlanOf(c)
  <2>1. CASE c \in waiting /\ Execute(p, Following(p))
    <3>1. c \in PlanCalls /\ p \in Plans /\ position[p] = "suspended"
      BY <2>1, CallOfPlan DEF PlannerTypeOK, PlaceInv, ConfirmInv, PlanOf
    <3>2. index[p] \in 1..(Length[p] + 1) /\ index[p] <= Length[p]
      BY <3>1 DEF PlaceInv, IndexInv
    <3>3. Length[p] \in Nat
      BY <3>1
    <3>4. Following(p) \in 1..(Length[p] + 1)
      BY <3>2, <3>3 DEF Following
    <3>5. CASE Proceed(p, Following(p))
      <4>1. ASSUME NEW place, Asks(p, Following(p), 1, place)
            PROVE  PlannedStep
        BY <3>1, <3>4, <4>1, CallOfPlan DEF Asks, PlannedStep
      <4>2. ASSUME NEW place, Leaves(p, place)
            PROVE  PlannedStep
        BY <4>2 DEF Leaves, PlannedStep
      <4> QED BY <1>1, <3>1, <3>4, <3>5, <4>1, <4>2, ProceedCases DEF Settled, CoreStates
    <3> QED BY <1>2, <2>1, <3>5 DEF Execute
  <2>2. CASE core' = Settled(core) /\ UNCHANGED RestVars
    BY <1>1, <2>2 DEF PlannedStep, Settled, CoreStates
  <2> QED BY <1>2, <1>4, <2>1, <2>2 DEF Continue, RestVars
<1>5. ASSUME NEW s \in Stops, PlannerStopStep(s)
      PROVE  PlannedStep /\ core' \in CoreStates
  <2>1. CASE PlannerCancel(s)
    <3> DEFINE confirmations == {c \in waiting : /\ active # NoPlan
                                                 /\ status[active] \in {"RUNNING", "WAITING_CONFIRMATION"}
                                                 /\ PlanOf(c) = active}
    <3>1. CancelPlan(s, confirmations) \/ BeginCancel(s, confirmations)
      BY <2>1 DEF PlannerCancel
    <3>2. confirmations \in SUBSET Calls
      BY CallOfPlan DEF PlannerTypeOK
    <3> QED BY <1>1, <3>1, <3>2 DEF PlannedStep, CancelPlan, BeginCancel, coreVars
  <2>2. ASSUME NEW c \in Calls, Revoke(s, c)
        PROVE  PlannedStep /\ core' \in CoreStates
    BY <1>1, <2>2 DEF Revoke, PlannedStep, Next, StopStep, coreVars
  <2>3. ASSUME NEW b \in BOOLEAN,
               ListPending(s, b) \/ EndStop(s, b) \/ EndCancel(s, b) \/ EndPrivacyChange(s)
        PROVE  PlannedStep /\ core' \in CoreStates
    BY <1>1, <2>3
       DEF ListPending, EndStop, EndCancel, EndPrivacyChange, PlannedStep, Next, StopStep, coreVars,
           CoreStates
  <2>4. (s \in withdrew) \in BOOLEAN /\ (active # NoPlan) \in BOOLEAN
    OBVIOUS
  <2> QED BY <1>5, <2>1, <2>2, <2>3, <2>4 DEF PlannerStopStep, PlannerRevoke
<1>6. CASE PlannerPrune
  BY <1>1, <1>6 DEF PlannerPrune, Prune, PlannedStep, Next, HandlerStep, ExpiryStep, coreVars
<1>7. CASE GatewayOnly
  <2>1. PlannedStep
    BY <1>7 DEF GatewayOnly, PlannedStep, Next, HandlerStep, ExpiryStep
  <2>2. ASSUME NEW c \in Calls, Request(c) \/ RequestStep(c) \/ Expire(c) \/ RecordLapse(c)
        PROVE  core' \in CoreStates
    BY <1>1, <2>2 DEF Request, RequestStep, AliasFound, Authorised, ReviewReady, Proposed, Expire,
                      RecordLapse, coreVars, CoreStates
  <2>3. ASSUME NEW h \in Handlers, TaskStep(h)
        PROVE  core' \in CoreStates
    BY <1>1, <2>3 DEF TaskStep, StartTask, Dispatch, ToolReturns, Finish, Fail, Release,
                      DeliverCancel, CleanUp, coreVars, CoreStates, TypeOK
  <2>4. ASSUME NEW d \in Decisions, NEW c \in Calls, NEW v \in Resolving, Resolve(d, c, v)
        PROVE  core' \in CoreStates
    BY <1>1, <2>4 DEF Resolve, coreVars
  <2>5. ASSUME NEW s \in Stops, BeginStop(s)
        PROVE  core' \in CoreStates
    BY <1>1, <2>5 DEF BeginStop, coreVars
  <2>6. OthersMoveCore => core' \in CoreStates
    BY DEF OthersMoveCore
  <2> QED BY <1>7, <2>1, <2>2, <2>3, <2>4, <2>5, <2>6 DEF GatewayOnly
<1> QED
  BY <1>2, <1>3, <1>4, <1>5, <1>6, <1>7, PlanIsPlanned DEF PlannerNext, vars

--------------------------------------------------------------------------------
(* Steps in order *)

\* A step is reached when every earlier one of its plan took effect.
OrderInv == \A p \in Plans : \A j \in 1..(index[p] - 1) : StepDone(p, j)

\* A call that was made belongs to a step that was reached, and is its second attempt
\* only if the step is idempotent.
MadeInv ==
  \A c \in PlanCalls : Made(c) =>
    c[2] <= index[c[1]] /\ (c[3] = 2 => <<c[1], c[2]>> \in Retryable)

ProgressInv == OrderInv /\ MadeInv /\ SuccessIsComplete

\* A handler that is done has done the step its call is about.
LEMMA DoneIsDone ==
  ASSUME GatewayInv, RanInv, NEW h \in Handlers, pc[h] = "done", NEW c \in PlanCalls, subject[h] = c
  PROVE  StepDone(c[1], c[2])
<1>1. h \in dispatched
  BY DEF RanInv
<1>2. c \in {<<c[1], c[2], 1>>, <<c[1], c[2], 2>>}
  BY CallOfPlan
<1> QED BY <1>1, <1>2 DEF StepDone

\* The call a plan is at.
LEMMA CurrentIsDone ==
  ASSUME GatewayInv, RanInv, PlannerTypeOK, PlaceInv, NEW p \in Plans, pc[CurrentCall(p)] = "done"
  PROVE  StepDone(p, index[p])
<1>1. CurrentCall(p) \in PlanCalls /\ CurrentCall(p)[1] = p /\ CurrentCall(p)[2] = index[p]
  BY CallOfPlan DEF CurrentCall, PlaceInv, IndexInv
<1>2. CurrentCall(p) \in Handlers /\ subject[CurrentCall(p)] = CurrentCall(p)
  BY <1>1, CallOfPlan DEF GatewayInv, DecisionInv, SubjectInv, Handlers
<1> QED BY <1>1, <1>2, DoneIsDone

\* A decision that continues a plan is about the step at which it is suspended.
LEMMA ContinuedPlan ==
  ASSUME PlannerTypeOK, PlaceInv, NEW c \in waiting
  PROVE  /\ c \in PlanCalls /\ PlanOf(c) = c[1] /\ c[1] \in Plans /\ position[c[1]] = "suspended"
         /\ c[2] = index[c[1]] /\ c[1] \notin External
         /\ index[c[1]] \in 1..Length[c[1]] /\ Following(c[1]) \in 1..(Length[c[1]] + 1)
<1>1. /\ c \in PlanCalls /\ PlanOf(c) = c[1] /\ c[1] \in Plans /\ position[c[1]] = "suspended"
      /\ c[2] = index[c[1]] /\ c[1] \notin External
  BY CallOfPlan DEF PlannerTypeOK, PlaceInv, ConfirmInv, PlanOf
<1>2. index[c[1]] \in 1..(Length[c[1]] + 1) /\ index[c[1]] <= Length[c[1]]
  BY <1>1 DEF PlaceInv, IndexInv
<1>3. Length[c[1]] \in Nat
  BY <1>1, PlannerAssumption
<1>4. index[c[1]] \in 1..Length[c[1]] /\ Following(c[1]) \in 1..(Length[c[1]] + 1)
  BY <1>2, <1>3 DEF Following
<1> QED BY <1>1, <1>4

\* The step a plan entered execute at, if it is entered at all.
LEMMA ExecuteIndex ==
  ASSUME PlannerTypeOK, NEW p \in Plans, NEW i \in 1..(Length[p] + 1), Proceed(p, i) \/ Execute(p, i)
  PROVE  index' = index \/ index' = [index EXCEPT ![p] = i]
<1>1. CASE Proceed(p, i)
  BY <1>1, ProceedCases DEF Leaves, Asks
<1>2. CASE Execute(p, i)
  BY <1>1, <1>2 DEF Execute
<1> QED BY <1>1, <1>2

\* A plan moves to its next step only when the step it is at took effect.
LEMMA IndexMoves ==
  ASSUME GatewayInv, RanInv, PlannerTypeOK, PlaceInv, [PlannerNext]_vars, NEW q \in Plans
  PROVE  \/ index'[q] = index[q]
         \/ index'[q] = index[q] + 1 /\ StepDone(q, index[q])
<1> USE PlannerAssumption
<1> DEFINE Moves == \/ index'[q] = index[q]
                    \/ index'[q] = index[q] + 1 /\ StepDone(q, index[q])
<1>1. index \in [Plans -> Nat]
  BY DEF PlannerTypeOK
<1>2. ASSUME NEW p \in Plans, PlanStep(p)
      PROVE  Moves
  <2>1. /\ index[p] \in 1..(Length[p] + 1) /\ Length[p] \in Nat \ {0}
        /\ position[p] = "new" => index[p] = 1
        /\ position[p] \in InExecute \ {"verifying"} => index[p] <= Length[p]
    BY <1>2 DEF PlaceInv, IndexInv
  <2>2. CASE Submit(p)
    <3>1. index[p] = 1 /\ 1 \in 1..(Length[p] + 1) /\ Execute(p, 1)
      BY <2>1, <2>2 DEF Submit
    <3> QED BY <1>1, <3>1, ExecuteIndex
  <2>3. CASE Acquire(p)
    BY <1>1, <2>1, <2>3, ExecuteIndex DEF Acquire
  <2>4. CASE OnResult(p) /\ Proceed(p, Following(p)) /\ Verified(CurrentCall(p))
    <3>1. Following(p) \in 1..(Length[p] + 1)
      BY <2>1, <2>4 DEF Following, OnResult, Replied
    <3>2. StepDone(p, index[p])
      BY <2>4, CurrentIsDone DEF Verified
    <3> QED BY <1>1, <2>4, <3>1, <3>2, ExecuteIndex DEF Following
  <2>5. CASE Retry(p)
    BY <1>1, <2>5 DEF Retry, CallStep
  <2>6. CASE OnException(p) \/ OnGoalChecked(p) \/ Suspend(p)
    BY <1>1, <2>6 DEF OnException, OnGoalChecked, Suspend, EndExecute, Await
  <2>7. CASE OnResult(p) /\ ~(Proceed(p, Following(p)) /\ Verified(CurrentCall(p)))
    BY <1>1, <2>7 DEF OnResult, EndExecute, Await
  <2> QED BY <1>2, <2>2, <2>3, <2>4, <2>5, <2>6, <2>7 DEF PlanStep
<1>3. ASSUME NEW d \in Decisions, Continue(d)
      PROVE  Moves
  <2> DEFINE c == subject[d]
  <2>1. CASE c \in waiting /\ Verified(d) /\ Execute(PlanOf(c), Following(PlanOf(c)))
    <3>1. StepDone(c[1], c[2])
      BY <2>1, ContinuedPlan, DoneIsDone DEF Verified, Handlers
    <3> QED BY <1>1, <2>1, <3>1, ContinuedPlan, ExecuteIndex DEF Following
  <2>2. CASE UNCHANGED index
    BY <2>2
  <2>3. UNCHANGED index \/ (c \in waiting /\ Verified(d) /\ Execute(PlanOf(c), Following(PlanOf(c))))
    BY <1>3 DEF Continue, RecordExternal
  <2> QED BY <2>1, <2>2, <2>3
<1>4. ASSUME NEW d \in Decisions, PlannerDecided(d)
      PROVE  UNCHANGED index
  BY <1>4 DEF PlannerDecided, RecordExternal, planVars
<1>5. ASSUME NEW s \in Stops, PlannerStopStep(s)
      PROVE  UNCHANGED index
  BY <1>5 DEF PlannerStopStep, PlannerCancel, PlannerRevoke, RecordExternal, plannerVars, planVars
<1>6. CASE PlannerPrune \/ GatewayOnly \/ UNCHANGED vars
  BY <1>6 DEF PlannerPrune, RecordExternal, GatewayOnly, vars, plannerVars, planVars
<1> QED BY <1>2, <1>3, <1>4, <1>5, <1>6 DEF PlannerNext

\* So the order of the steps is kept.
LEMMA OrderStep ==
  ASSUME GatewayInv, RanInv, PlannerTypeOK, PlaceInv, OrderInv, [PlannerNext]_vars
  PROVE  OrderInv'
<1> SUFFICES ASSUME NEW p \in Plans, NEW j \in 1..(index'[p] - 1)
             PROVE  StepDone(p, j)'
  BY DEF OrderInv
<1>1. index[p] \in Nat
  BY DEF PlannerTypeOK
<1>2. StepDone(p, j)
  <2>1. CASE index'[p] = index[p]
    BY <2>1 DEF OrderInv
  <2>2. CASE index'[p] = index[p] + 1 /\ StepDone(p, index[p])
    <3>1. j = index[p] \/ j \in 1..(index[p] - 1)
      BY <1>1, <2>2
    <3> QED BY <2>2, <3>1 DEF OrderInv
  <2> QED BY <2>1, <2>2, IndexMoves
<1>3. PlannedStep
  BY PlannerIsPlanned DEF GatewayInv
<1> QED BY <1>2, <1>3, DoneStays

\* What a plan asks for when it asks for call c: its place is not after its end, the call
\* is the first attempt of the step it reaches, unless it was cancelled before, or the
\* second of an idempotent one.
Reaches(c) ==
  /\ position[c[1]] # "ended" /\ index'[c[1]] = c[2]
  /\ \/ c[3] = 1 /\ (c[2] <= Length[c[1]] => c[1] \notin reason)
     \/ c[3] = 2 /\ <<c[1], c[2]>> \in Retryable

\* Asking for a call makes no other.
LEMMA AsksMakes ==
  ASSUME TypeOK, PlannerTypeOK, NEW p \in Plans, NEW i \in 1..(Length[p] + 1), NEW n \in {1, 2},
         NEW place, Asks(p, i, n, place),
         NEW c \in PlanCalls, pc[c] = "idle", pc'[c] # "idle"
  PROVE  c = <<p, i, n>> /\ c[1] = p /\ c[2] = i /\ c[3] = n /\ index'[p] = i
<1>1. <<p, i, n>> \in Handlers /\ c \in Handlers
  BY CallOfPlan DEF Handlers
<1>2. \E answer : pc' = [pc EXCEPT ![<<p, i, n>>] = answer]
  BY DEF Asks, RequestCall, Admit, Propose, Goto
<1>3. c = <<p, i, n>>
  BY <1>1, <1>2 DEF TypeOK
<1>4. index'[p] = i
  BY DEF Asks, PlannerTypeOK
<1> QED BY <1>3, <1>4

\* Entering execute at a step asks for that step at most.
LEMMA ProceedMakes ==
  ASSUME TypeOK, PlannerTypeOK, NEW p \in Plans, NEW i \in 1..(Length[p] + 1), Proceed(p, i),
         NEW c \in PlanCalls, pc[c] = "idle", pc'[c] # "idle"
  PROVE  /\ c[1] = p /\ c[3] = 1 /\ index'[p] = c[2]
         /\ c[2] <= Length[p] => p \notin reason
<1>1. CASE i <= Length[p] /\ p \notin reason /\ Asks(p, i, 1, "calling")
  BY <1>1, AsksMakes
<1>2. CASE i = Length[p] + 1 /\ Asks(p, i, 1, "verifying")
  <2>1. c[1] = p /\ c[2] = i /\ c[3] = 1 /\ index'[p] = i
    BY <1>2, AsksMakes
  <2>2. Length[p] \in Nat
    BY PlannerAssumption
  <2> QED BY <1>2, <2>1, <2>2
<1>3. ASSUME NEW place, Leaves(p, place)
      PROVE  FALSE
  BY <1>3 DEF Leaves, RestVars, handlerVars
<1> QED BY <1>1, <1>2, <1>3, ProceedCases

\* The coroutine of a plan asks for its own calls only, as its progress allows.
LEMMA PlanMakes ==
  ASSUME TypeOK, PlannerTypeOK, PlaceInv, NEW p \in Plans, PlanStep(p),
         NEW c \in PlanCalls, pc[c] = "idle", pc'[c] # "idle"
  PROVE  Reaches(c)
<1>1. /\ index[p] \in 1..(Length[p] + 1) /\ Length[p] \in Nat \ {0}
      /\ position[p] = "new" => index[p] = 1
      /\ position[p] \in InExecute \ {"verifying"} => index[p] <= Length[p]
      /\ position[p] \in {"backoff", "recheck"} => <<p, index[p]>> \in Retryable
  BY PlannerAssumption DEF PlaceInv, IndexInv
<1>2. ~UNCHANGED gatewayVars /\ \A outcome : ~EndExecute(p, outcome)
  BY DEF gatewayVars, handlerVars, EndExecute
<1>3. ASSUME NEW i \in 1..(Length[p] + 1), Proceed(p, i), position[p] # "ended"
      PROVE  Reaches(c)
  BY <1>3, ProceedMakes DEF Reaches
<1>4. CASE Submit(p)
  <2>1. 1 \in 1..(Length[p] + 1)
    BY <1>1
  <2> QED BY <1>2, <1>3, <1>4, <2>1 DEF Submit, Execute
<1>5. CASE Acquire(p)
  BY <1>1, <1>3, <1>5 DEF Acquire
<1>6. CASE OnResult(p)
  <2>1. Following(p) \in 1..(Length[p] + 1) /\ position[p] # "ended"
    BY <1>1, <1>6 DEF Following, OnResult, Replied, InExecute
  <2> QED BY <1>2, <1>3, <1>6, <2>1 DEF OnResult, Await
<1>7. CASE Retry(p)
  <2>1. PICK place : Asks(p, index[p], 2, place)
    BY <1>7 DEF Retry, CallStep, Asks, OthersRest, PlannerTypeOK
  <2>2. c[1] = p /\ c[2] = index[p] /\ c[3] = 2 /\ index'[p] = index[p]
    BY <1>1, <2>1, AsksMakes
  <2> QED BY <1>1, <1>7, <2>2 DEF Retry, Reaches, InExecute
<1>8. ~(OnException(p) \/ OnGoalChecked(p) \/ Suspend(p))
  BY <1>2 DEF OnException, OnGoalChecked, Suspend, Await
<1> QED BY <1>4, <1>5, <1>6, <1>7, <1>8 DEF PlanStep

\* Only a plan asks for a call of its own, and only as its progress allows.
LEMMA PlannerMakes ==
  ASSUME GatewayInv, PlannerTypeOK, PlaceInv, [PlannerNext]_vars,
         NEW c \in PlanCalls, pc[c] = "idle", pc'[c] # "idle"
  PROVE  Reaches(c)
<1>1. TypeOK /\ DecisionInv /\ c \in Calls /\ c \in Handlers
  BY CallOfPlan DEF GatewayInv, Handlers
<1>2. pc' # pc
  OBVIOUS
<1>3. ASSUME NEW d \in Decisions, PlannerDecided(d)
      PROVE  FALSE
  BY <1>1, <1>3, IdleStays DEF PlannerDecided
<1>4. ASSUME NEW d \in Decisions, Continue(d)
      PROVE  Reaches(c)
  <2> DEFINE b == subject[d]
  <2>1. b \in waiting /\ Execute(PlanOf(b), Following(PlanOf(b)))
    BY <1>2, <1>4 DEF Continue, gatewayVars, handlerVars
  <2>2. Proceed(b[1], Following(b[1]))
    BY <1>2, <2>1, ContinuedPlan DEF Execute, gatewayVars, handlerVars
  <2> QED BY <1>1, <2>1, <2>2, ContinuedPlan, ProceedMakes DEF Reaches
<1>5. ASSUME NEW s \in Stops, PlannerStopStep(s)
      PROVE  FALSE
  BY <1>2, <1>5
     DEF PlannerStopStep, PlannerCancel, CancelPlan, BeginCancel, PlannerRevoke, Revoke, ListPending,
         EndStop, EndCancel, EndPrivacyChange, handlerVars
<1>6. ~(PlannerPrune \/ UNCHANGED vars)
  BY <1>2 DEF PlannerPrune, Prune, vars, gatewayVars, handlerVars
<1>7. ~GatewayOnly
  <2>1. ASSUME NEW b \in Calls \ PlanCalls, Request(b)
        PROVE  FALSE
    BY <1>1, <2>1 DEF Request, RequestCall, Admit, Propose, Goto, TypeOK
  <2>2. ASSUME UNCHANGED pc
        PROVE  FALSE
    BY <2>2, <1>2
  <2>3. ~(\E s \in Stops : BeginStop(s)) /\ ~(\E b \in Calls : RecordLapse(b)) /\ ~OthersMoveCore
    BY <2>2 DEF BeginStop, RecordLapse, OthersMoveCore, handlerVars
  <2> QED BY <1>1, <2>1, <2>3, IdleStays DEF GatewayOnly
<1> QED BY <1>1, <1>3, <1>4, <1>5, <1>6, <1>7, PlanMakes DEF PlannerNext

\* What was made belongs to a step that was reached.
LEMMA MadeStep ==
  ASSUME GatewayInv, RanInv, PlannerTypeOK, PlaceInv, MadeInv, [PlannerNext]_vars
  PROVE  MadeInv'
<1> SUFFICES ASSUME NEW c \in PlanCalls, pc'[c] # "idle"
             PROVE  c[2] <= index'[c[1]] /\ (c[3] = 2 => <<c[1], c[2]>> \in Retryable)
  BY DEF MadeInv, Made
<1>1. c[1] \in Plans /\ c[2] \in Nat /\ index[c[1]] \in Nat
  BY CallOfPlan, PlannerAssumption DEF PlannerTypeOK
<1>2. CASE pc[c] = "idle"
  BY <1>1, <1>2, PlannerMakes DEF Reaches
<1>3. CASE pc[c] # "idle"
  <2>1. c[2] <= index[c[1]] /\ (c[3] = 2 => <<c[1], c[2]>> \in Retryable)
    BY <1>3 DEF MadeInv, Made
  <2> QED BY <1>1, <2>1, IndexMoves
<1> QED BY <1>2, <1>3

--------------------------------------------------------------------------------
(* Success is complete *)

\* A plan that becomes a success, and is not the engine's, did all its steps and, with
\* declared conditions, the observation of them, before a cancellation.
Complete(p) ==
  /\ \A i \in 1..Length[p] : StepDone(p, i)
  /\ p \in WithGoal => StepDone(p, Length[p] + 1) /\ p \notin reason'

Remains(p) == status[p] = "SUCCEEDED" /\ (p \in reason' => p \in reason)

\* Entering execute with every earlier step done succeeds only with all of them done.
LEMMA ProceedSucceeds ==
  ASSUME PlannerTypeOK, NEW p \in Plans, NEW i \in 1..(Length[p] + 1), Proceed(p, i),
         \A j \in 1..(i - 1) : StepDone(p, j), NEW q \in Plans, status'[q] = "SUCCEEDED"
  PROVE  Remains(q) \/ Complete(q)
<1>1. reason' = reason /\ \A r \in Plans \ {p} : status'[r] = status[r]
  BY ProceedCases DEF Leaves, Asks, OthersRest
<1>2. CASE q = p
  <2>1. i = Length[p] + 1 /\ p \notin WithGoal /\ Length[p] \in Nat
    BY <1>2, ProceedCases, PlannerAssumption
  <2>2. i - 1 = Length[p]
    BY <2>1
  <2> QED BY <1>2, <2>1, <2>2 DEF Complete
<1>3. CASE q # p
  BY <1>1, <1>3 DEF Remains
<1> QED BY <1>2, <1>3

\* A plan is reported as a success by its own end only.
LEMMA PlanSucceeds ==
  ASSUME GatewayInv, RanInv, PlannerTypeOK, PlaceInv, OrderInv, NEW p \in Plans, PlanStep(p),
         NEW q \in Plans, status'[q] = "SUCCEEDED"
  PROVE  Remains(q) \/ Complete(q)
<1>1. /\ index[p] \in 1..(Length[p] + 1) /\ Length[p] \in Nat \ {0} /\ index[p] \in Nat
      /\ position[p] = "new" => index[p] = 1
      /\ position[p] \in InExecute \ {"verifying"} => index[p] <= Length[p]
      /\ position[p] = "verifying" => index[p] = Length[p] + 1
      /\ status \in [Plans -> {"PENDING", "RUNNING", "WAITING_CONFIRMATION", "CANCEL_REQUESTED"}
                              \cup Final]
  BY PlannerAssumption DEF PlaceInv, IndexInv, PlannerTypeOK
<1>2. \A j \in 1..(index[p] - 1) : StepDone(p, j)
  BY DEF OrderInv
<1>3. ASSUME reason' = reason, status'[q] = status[q]
      PROVE  Remains(q)
  BY <1>3 DEF Remains
<1>4. ASSUME NEW outcome \in {"CANCELLED", "FAILED"}, EndExecute(p, outcome)
      PROVE  Remains(q)
  BY <1>1, <1>4 DEF EndExecute, Remains
<1>5. CASE Submit(p)
  <2>1. index[p] = 1 /\ 1 \in 1..(Length[p] + 1)
    BY <1>1, <1>5 DEF Submit
  <2>2. \A j \in 1..(1 - 1) : StepDone(p, j)
    OBVIOUS
  <2>3. CASE Proceed(p, 1)
    BY <2>1, <2>2, <2>3, ProceedSucceeds
  <2> QED BY <1>3, <1>5, <2>3 DEF Submit, Execute
<1>6. CASE Acquire(p)
  BY <1>1, <1>2, <1>6, ProceedSucceeds DEF Acquire
<1>7. CASE OnResult(p)
  <2>1. CASE Verified(CurrentCall(p)) /\ Proceed(p, Following(p))
    <3>1. Following(p) \in 1..(Length[p] + 1) /\ Following(p) - 1 = index[p]
      BY <1>1, <1>7 DEF Following, OnResult, Replied
    <3>2. StepDone(p, index[p])
      BY <2>1, CurrentIsDone DEF Verified
    <3>3. \A j \in 1..(Following(p) - 1) : StepDone(p, j)
      <4>1. \A j \in 1..index[p] : j = index[p] \/ j \in 1..(index[p] - 1)
        BY <1>1
      <4> QED BY <1>2, <3>1, <3>2, <4>1
    <3> QED BY <2>1, <3>1, <3>3, ProceedSucceeds
  <2> QED BY <1>3, <1>4, <1>7, <2>1 DEF OnResult, Await
<1>8. CASE OnGoalChecked(p)
  <2>1. CASE EndExecute(p, "FAILED")
    BY <1>4, <2>1
  <2>2. CASE ~Cancelled(p) /\ Verified(CurrentCall(p)) /\ EndExecute(p, "SUCCEEDED")
    <3>1. StepDone(p, index[p]) /\ index[p] = Length[p] + 1
      BY <1>1, <1>8, <2>2, CurrentIsDone DEF Verified, OnGoalChecked
    <3>2. index[p] - 1 = Length[p]
      BY <1>1, <3>1
    <3>3. CASE q = p
      BY <1>2, <2>2, <3>1, <3>2, <3>3 DEF Complete, Cancelled, EndExecute
    <3>4. CASE q # p
      BY <1>1, <2>2, <3>4 DEF EndExecute, Remains
    <3> QED BY <3>3, <3>4
  <2> QED BY <1>8, <2>1, <2>2 DEF OnGoalChecked
<1>9. CASE Retry(p)
  BY <1>3, <1>9 DEF Retry, CallStep
<1>10. CASE Suspend(p)
  BY <1>1, <1>10 DEF Suspend, Remains
<1>11. CASE OnException(p)
  BY <1>3, <1>4, <1>11 DEF OnException, Await
<1> QED BY <1>5, <1>6, <1>7, <1>8, <1>9, <1>10, <1>11 DEF PlanStep

\* So does no decision, stop or expiry report the success of a plan that is not the engine's.
LEMMA OthersSucceed ==
  ASSUME GatewayInv, RanInv, PlannerTypeOK, PlaceInv, OrderInv, [PlannerNext]_vars,
         ~\E p \in Plans : PlanStep(p),
         NEW q \in Plans \ External, status'[q] = "SUCCEEDED"
  PROVE  Remains(q) \/ Complete(q)
<1>1. status \in [Plans -> {"PENDING", "RUNNING", "WAITING_CONFIRMATION", "CANCEL_REQUESTED"}
                           \cup Final]
  BY DEF PlannerTypeOK
<1>2. ASSUME reason' = reason, status' = status
      PROVE  Remains(q)
  BY <1>2 DEF Remains
<1>3. ASSUME NEW calls, NEW outcome, RecordExternal(calls, outcome)
      PROVE  Remains(q)
  BY <1>3, RecordedPlans DEF RecordExternal, Remains
<1>4. ASSUME NEW d \in Decisions, PlannerDecided(d)
      PROVE  Remains(q)
  <2>1. CASE /\ subject[d] \in waiting /\ End(PlanOf(subject[d]), "DENIED")
             /\ reason' = reason \cup {PlanOf(subject[d])}
    <3>1. PlanOf(subject[d]) \in Plans
      BY <2>1, ContinuedPlan
    <3>2. q # PlanOf(subject[d]) /\ status'[q] = status[q]
      BY <1>1, <2>1, <3>1 DEF End
    <3> QED BY <2>1, <3>2 DEF Remains
  <2> QED BY <1>2, <1>3, <1>4, <2>1 DEF PlannerDecided, planVars
<1>5. ASSUME NEW d \in Decisions, Continue(d)
      PROVE  Remains(q) \/ Complete(q)
  <2> DEFINE c == subject[d]
             p == c[1]
  <2>1. CASE c \in waiting /\ Verified(d) /\ Execute(PlanOf(c), Following(PlanOf(c)))
    <3>1. /\ p \in Plans /\ index[p] \in 1..Length[p] /\ Following(p) \in 1..(Length[p] + 1)
          /\ c \in PlanCalls /\ c[2] = index[p] /\ PlanOf(c) = p
      BY <2>1, ContinuedPlan
    <3>2. StepDone(p, index[p])
      BY <2>1, <3>1, DoneIsDone DEF Verified, Handlers
    <3>3. CASE Proceed(p, Following(p))
      <4>1. index[p] \in Nat /\ Following(p) - 1 = index[p]
        BY <3>1 DEF Following, PlannerTypeOK
      <4>2. \A j \in 1..index[p] : j = index[p] \/ j \in 1..(index[p] - 1)
        BY <4>1
      <4>3. \A j \in 1..(Following(p) - 1) : StepDone(p, j)
        BY <3>1, <3>2, <4>1, <4>2 DEF OrderInv
      <4> QED BY <3>1, <3>3, <4>3, ProceedSucceeds
    <3> QED BY <1>2, <2>1, <3>1, <3>3 DEF Execute
  <2>2. CASE c \in waiting /\ End(PlanOf(c), "FAILED") /\ reason' = reason
    <3>1. PlanOf(c) \in Plans
      BY <2>2, ContinuedPlan
    <3>2. status'[q] = status[q]
      BY <1>1, <2>2, <3>1 DEF End
    <3> QED BY <2>2, <3>2 DEF Remains
  <2>3. CASE \E outcome \in {"SUCCEEDED", "FAILED"} : RecordExternal({c}, outcome)
    BY <1>3, <2>3
  <2> QED BY <1>5, <2>1, <2>2, <2>3 DEF Continue
<1>6. ASSUME NEW s \in Stops, PlannerStopStep(s)
      PROVE  Remains(q)
  <2>1. CASE PlannerCancel(s)
    <3> DEFINE cancellable == active # NoPlan /\ status[active] \in {"RUNNING", "WAITING_CONFIRMATION"}
    <3>1. active \in Plans \cup {NoPlan}
      BY DEF PlannerTypeOK
    <3>2. /\ reason' = (IF cancellable THEN reason \cup {active} ELSE reason)
          /\ \/ cancellable /\ End(active, "CANCELLED")
             \/ status' = [r \in Plans |-> IF cancellable /\ r = active THEN "CANCEL_REQUESTED"
                                           ELSE status[r]]
      BY <2>1 DEF PlannerCancel
    <3>3. status'[q] = status[q] /\ ~(cancellable /\ q = active)
      BY <1>1, <3>1, <3>2 DEF End
    <3> QED BY <3>2, <3>3 DEF Remains
  <2>2. CASE \E c \in Calls : PlannerRevoke(s, c)
    BY <1>3, <2>2 DEF PlannerRevoke
  <2> QED BY <1>2, <1>6, <2>1, <2>2 DEF PlannerStopStep, plannerVars, planVars
<1>7. CASE PlannerPrune
  BY <1>3, <1>7 DEF PlannerPrune
<1>8. CASE GatewayOnly \/ UNCHANGED vars
  BY <1>2, <1>8 DEF GatewayOnly, vars, plannerVars, planVars
<1> QED BY <1>4, <1>5, <1>6, <1>7, <1>8 DEF PlannerNext

\* The reported successes stay complete.
LEMMA SuccessStep ==
  ASSUME GatewayInv, RanInv, PlannerTypeOK, PlaceInv, OrderInv, SuccessIsComplete, [PlannerNext]_vars
  PROVE  SuccessIsComplete'
<1> SUFFICES ASSUME NEW p \in Plans \ External, status'[p] = "SUCCEEDED"
             PROVE  /\ \A i \in 1..Length[p] : StepDone(p, i)'
                    /\ p \in WithGoal => StepDone(p, Length[p] + 1)' /\ p \notin reason'
  BY DEF SuccessIsComplete
<1>1. PlannedStep
  BY PlannerIsPlanned DEF GatewayInv
<1>2. Remains(p) \/ Complete(p)
  BY PlanSucceeds, OthersSucceed
<1>3. /\ \A i \in 1..Length[p] : StepDone(p, i)
      /\ p \in WithGoal => StepDone(p, Length[p] + 1) /\ p \notin reason'
  BY <1>2 DEF Remains, Complete, SuccessIsComplete
<1> QED BY <1>1, <1>3, DoneStays

--------------------------------------------------------------------------------
(* What holds of the planner *)

PlannerInv ==
  /\ GatewayInv /\ StaleRevoked /\ PolicyInv /\ RanInv
  /\ PlannerTypeOK /\ PlaceInv /\ QueueInv /\ ProgressInv

\* The gateway keeps its own invariants under the planner.
LEMMA GatewayUnderPlanner ==
  ASSUME PlannerInv, [PlannerNext]_vars
  PROVE  GatewayInv' /\ StaleRevoked' /\ PolicyInv' /\ RanInv' /\ PlannedStep
<1>1. TypeOK /\ FreshTasks /\ DecisionInv /\ TicketInv
  BY DEF PlannerInv, GatewayInv
<1>2. PlannedStep /\ core' \in CoreStates
  BY <1>1, PlannerIsPlanned DEF PlannerInv
<1> QED
  BY <1>1, <1>2, TypeStep, FreshTasksStep, DecisionStep, TicketInvStep, StaleRevokedStep,
     PolicyStep, RanStep
     DEF PlannerInv, GatewayInv

\* The planner and the gateway keep their invariants.
LEMMA PlannerInvStep ==
  ASSUME PlannerInv, [PlannerNext]_vars
  PROVE  PlannerInv'
BY GatewayUnderPlanner, PlannerTypeStep, PlaceStep, OrderStep, MadeStep, SuccessStep
   DEF PlannerInv, ProgressInv

\* They hold of the state in which nothing has been asked for.
LEMMA PlannerInvInit ==
  ASSUME Init, PlannerInit
  PROVE  PlannerInv
<1> USE GatewayAssumption, PlannerAssumption
<1>1. TypeOK
  <2>1. core \in CoreStates /\ restricted \in BOOLEAN
    BY DEF Init, CoreStates
  <2>2. /\ stopPc \in [Stops -> StopPcs] /\ revoking \in [Stops -> SUBSET Calls]
        /\ pending \in [Calls -> {"none", "live", "expired"}]
        /\ audit \in [Calls -> SUBSET Records]
    BY DEF Init, StopPcs
  <2>3. /\ pc \in [Handlers -> {"idle"} \cup Asking \cup Resolving \cup Executing \cup Answers]
        /\ since \in [Handlers -> Nat]
        /\ subject \in [Handlers -> Calls \cup {NoHandler}]
        /\ before \in [Handlers -> {"DORMANT", "THINKING"}]
    BY DEF Init, Handlers
  <2> QED BY <2>1, <2>2, <2>3 DEF Init, TypeOK
<1>2. FreshTasks /\ TicketInv /\ StaleRevoked /\ PolicyInv /\ RanInv
  BY DEF Init, FreshTasks, TicketInv, StaleRevoked, PolicyInv, RanInv, Handlers, Resolving, Live,
         Underway
<1>3. DecisionInv
  BY DEF Init, DecisionInv, SubjectInv, PendingInv, VerdictInv, ConsentInv, Undecided, Approved,
         Handlers, Resolving, Executing, Running
<1>4. PlannerTypeOK /\ QueueInv
  BY DEF PlannerInit, PlannerTypeOK, QueueInv
<1>5. \A p \in Plans : 1 \in 1..(Length[p] + 1) /\ 1 <= Length[p]
  OBVIOUS
<1>6. PlaceInv
  BY <1>5 DEF PlannerInit, PlaceInv, ConfirmInv, ActiveInv, IndexInv, OnePlanExecutes, InExecute
<1>7. \A c \in PlanCalls : ~Made(c)
  BY CallOfPlan DEF Init, Made, Handlers
<1>8. ProgressInv
  BY <1>7 DEF PlannerInit, ProgressInv, OrderInv, MadeInv, SuccessIsComplete
<1> QED BY <1>1, <1>2, <1>3, <1>4, <1>6, <1>8 DEF PlannerInv, GatewayInv

\* The gateway and the planner on top of it are in order in every reachable state.
THEOREM PlannerHolds == PlannerSpec => []PlannerInv
<1>1. Init /\ PlannerInit => PlannerInv
  BY PlannerInvInit
<1>2. PlannerInv /\ [PlannerNext]_vars => PlannerInv'
  BY PlannerInvStep
<1> QED BY <1>1, <1>2, PTL DEF PlannerSpec

\* The state of the planner always has its type.
THEOREM PlannerTypes == PlannerSpec => []PlannerTypeOK
<1>1. PlannerInv => PlannerTypeOK
  BY DEF PlannerInv
<1> QED BY <1>1, PlannerHolds, PTL

\* Whoever resumes a plan, the steps of two plans never interleave.
THEOREM OneAtATime == PlannerSpec => []OnePlanExecutes
<1>1. PlannerInv => OnePlanExecutes
  BY DEF PlannerInv, PlaceInv
<1> QED BY <1>1, PlannerHolds, PTL

\* No plan asks for a step before every earlier one took effect.
THEOREM OrderKept == PlannerSpec => []StepsInOrder
<1>1. PlannerInv => StepsInOrder
  <2> SUFFICES ASSUME PlannerInv, NEW p \in Plans, NEW i \in 2..Length[p], Made(<<p, i, 1>>),
                      NEW j \in 1..(i - 1)
               PROVE  StepDone(p, j)
    BY DEF StepsInOrder
  <2>1. Length[p] \in Nat /\ i \in 1..(Length[p] + 1)
    BY PlannerAssumption
  <2>2. i <= index[p] /\ index[p] \in Nat
    BY <2>1, CallOfPlan DEF PlannerInv, ProgressInv, MadeInv, PlannerTypeOK
  <2>3. j \in 1..(index[p] - 1)
    BY <2>1, <2>2
  <2> QED BY <2>3 DEF PlannerInv, ProgressInv, OrderInv
<1> QED BY <1>1, PlannerHolds, PTL

\* No step but an idempotent one is handed to its tool twice.
THEOREM ReplaySafe == PlannerSpec => []ReplayOnlyRetryable
<1>1. PlannerInv => ReplayOnlyRetryable
  <2> SUFFICES ASSUME PlannerInv, NEW g \in dispatched, NEW h \in dispatched,
                      subject[g] \in PlanCalls, subject[h] \in PlanCalls, g # h,
                      subject[g][1] = subject[h][1], subject[g][2] = subject[h][2]
               PROVE  <<subject[g][1], subject[g][2]>> \in Retryable
    BY DEF ReplayOnlyRetryable
  <2>1. TypeOK /\ DecisionInv /\ TicketInv /\ g \in Handlers /\ h \in Handlers
    BY DEF PlannerInv, GatewayInv, TypeOK
  <2>2. subject[g] # subject[h]
    BY <2>1, OneCarrier DEF PlannerInv, Carries
  <2>3. subject[g][3] = 2 \/ subject[h][3] = 2
    BY <2>2, CallOfPlan
  <2>4. ASSUME NEW k \in dispatched, subject[k] \in PlanCalls
        PROVE  Made(subject[k])
    <3>1. k \in Handlers /\ pc[k] # "idle" /\ subject[k] \in Calls
      BY <2>1, <2>4, CallOfPlan DEF TypeOK, TicketInv, Past, Executing, Running, Answers
    <3>2. CASE k \in Calls
      BY <2>1, <3>1, <3>2 DEF DecisionInv, SubjectInv, Made
    <3>3. CASE k \in Decisions
      BY <2>1, <3>1, <3>3 DEF DecisionInv, PendingInv, Made
    <3> QED BY <3>1, <3>2, <3>3 DEF Handlers
  <2> QED BY <2>3, <2>4 DEF PlannerInv, ProgressInv, MadeInv
<1> QED BY <1>1, PlannerHolds, PTL

\* A plan that is reported as a success did all its steps.
THEOREM SuccessHonest == PlannerSpec => []SuccessIsComplete
<1>1. PlannerInv => SuccessIsComplete
  BY DEF PlannerInv, ProgressInv
<1> QED BY <1>1, PlannerHolds, PTL

\* A plan whose cancellation was acknowledged never asks for another step.
THEOREM CancellationHolds == PlannerSpec => CancelledPlanStays
<1>1. PlannerInv /\ [PlannerNext]_vars
        => [\A p \in reason : \A i \in 1..Length[p] : Made(<<p, i, 1>>)' => Made(<<p, i, 1>>)]_vars
  <2> SUFFICES ASSUME PlannerInv, [PlannerNext]_vars, NEW p \in reason, NEW i \in 1..Length[p],
                      Made(<<p, i, 1>>)', ~Made(<<p, i, 1>>)
               PROVE  FALSE
    OBVIOUS
  <2>1. p \in Plans /\ Length[p] \in Nat
    BY PlannerAssumption DEF PlannerInv, PlannerTypeOK
  <2>2. i \in 1..(Length[p] + 1) /\ i <= Length[p]
    BY <2>1
  <2>3. PICK c \in PlanCalls : c = <<p, i, 1>>
    BY <2>1, <2>2, CallOfPlan
  <2>4. pc[c] = "idle" /\ pc'[c] # "idle"
    BY <2>3 DEF Made
  <2>5. Reaches(c)
    BY <2>4, PlannerMakes DEF PlannerInv
  <2> QED BY <2>2, <2>3, <2>5 DEF Reaches
<1> QED BY <1>1, PlannerHolds, PTL DEF PlannerSpec, CancelledPlanStays

\* A plan that ended takes no further step and nobody changes its end.
LEMMA EndedStays ==
  ASSUME PlannerInv, [PlannerNext]_vars, NEW p \in Plans, position[p] = "ended"
  PROVE  status'[p] = status[p] /\ position'[p] = "ended"
<1>1. PlannerTypeOK /\ PlaceInv
  BY DEF PlannerInv
<1>2. /\ position \in [Plans -> {"new", "queued", "suspended", "crashed", "ended"} \cup InExecute]
      /\ status \in [Plans -> {"PENDING", "RUNNING", "WAITING_CONFIRMATION", "CANCEL_REQUESTED"}
                              \cup Final]
      /\ active \in Plans \cup {NoPlan}
  BY <1>1 DEF PlannerTypeOK
<1>3. p # active
  BY <1>1, PlannerAssumption DEF PlaceInv, ActiveInv, InExecute
<1>4. ASSUME NEW q \in Plans \ {p}, OthersRest(q)
      PROVE  status'[p] = status[p] /\ position'[p] = "ended"
  BY <1>4 DEF OthersRest
<1>5. ASSUME NEW q \in Plans \ {p}, NEW i \in 1..(Length[q] + 1), Execute(q, i) \/ Proceed(q, i)
      PROVE  status'[p] = status[p] /\ position'[p] = "ended"
  <2>1. CASE Proceed(q, i)
    BY <1>1, <1>4, <2>1, ProceedCases DEF Leaves, Asks
  <2>2. CASE Execute(q, i)
    BY <1>2, <1>5, <2>1, <2>2 DEF Execute
  <2> QED BY <1>5, <2>1, <2>2
<1>6. ASSUME NEW calls, NEW outcome, RecordExternal(calls, outcome)
      PROVE  status'[p] = status[p] /\ position'[p] = "ended"
  BY <1>1, <1>6, RecordedPlans
<1>7. ASSUME NEW q \in Plans, PlanStep(q)
      PROVE  status'[p] = status[p] /\ position'[p] = "ended"
  <2>1. q # p
    BY <1>7 DEF PlanStep, Submit, Acquire, OnException, OnResult, Suspend, Retry, OnGoalChecked,
                Replied, InExecute
  <2>2. /\ index[q] \in 1..(Length[q] + 1) /\ Length[q] \in Nat
        /\ position[q] \in InExecute \ {"verifying"} => index[q] <= Length[q]
    BY <1>1, PlannerAssumption DEF PlaceInv, IndexInv
  <2>3. 1 \in 1..(Length[q] + 1)
    BY <2>2
  <2>4. CASE Submit(q) \/ Acquire(q)
    BY <1>5, <2>1, <2>2, <2>3, <2>4 DEF Submit, Acquire
  <2>5. CASE OnException(q) \/ OnGoalChecked(q)
    BY <1>2, <2>1, <2>5 DEF OnException, OnGoalChecked, EndExecute, Await
  <2>6. CASE OnResult(q)
    <3>1. Following(q) \in 1..(Length[q] + 1)
      BY <2>2, <2>6 DEF Following, OnResult, Replied
    <3> QED BY <1>2, <1>5, <2>1, <2>6, <3>1 DEF OnResult, EndExecute, Await
  <2>7. CASE Suspend(q) \/ Retry(q)
    BY <1>2, <2>1, <2>7 DEF Suspend, Retry, CallStep
  <2> QED BY <1>7, <2>4, <2>5, <2>6, <2>7 DEF PlanStep
<1>8. ASSUME NEW d \in Decisions, PlannerDecided(d) \/ Continue(d)
      PROVE  status'[p] = status[p] /\ position'[p] = "ended"
  <2> DEFINE c == subject[d]
  <2>1. c \in waiting => c[1] \in Plans \ {p} /\ PlanOf(c) = c[1]
                         /\ Following(c[1]) \in 1..(Length[c[1]] + 1)
    BY <1>1, ContinuedPlan
  <2>2. CASE \E outcome \in {"DENIED", "FAILED"} : c \in waiting /\ End(PlanOf(c), outcome)
    BY <1>2, <2>1, <2>2 DEF End
  <2>3. CASE c \in waiting /\ Execute(PlanOf(c), Following(PlanOf(c)))
    BY <1>5, <2>1, <2>3
  <2> QED BY <1>6, <1>8, <2>2, <2>3 DEF PlannerDecided, Continue, planVars
<1>9. ASSUME NEW s \in Stops, PlannerStopStep(s)
      PROVE  status'[p] = status[p] /\ position'[p] = "ended"
  <2>1. CASE PlannerCancel(s)
    BY <1>2, <1>3, <2>1 DEF PlannerCancel, End
  <2>2. CASE \E c \in Calls : PlannerRevoke(s, c)
    BY <1>6, <2>2 DEF PlannerRevoke
  <2> QED BY <1>9, <2>1, <2>2 DEF PlannerStopStep, plannerVars, planVars
<1>10. CASE PlannerPrune
  BY <1>6, <1>10 DEF PlannerPrune
<1>11. CASE GatewayOnly \/ UNCHANGED vars
  BY <1>11 DEF GatewayOnly, vars, plannerVars, planVars
<1> QED BY <1>7, <1>8, <1>9, <1>10, <1>11 DEF PlannerNext

\* The end of a plan is final.
THEOREM EndHolds == PlannerSpec => EndIsFinal
<1>1. PlannerInv /\ [PlannerNext]_vars
        => [\A p \in Plans : position[p] = "ended" =>
              /\ status'[p] = status[p] /\ position'[p] = "ended"
              /\ \A c \in PlanCalls : PlanOf(c) = p /\ Made(c)' => Made(c)]_vars
  <2> SUFFICES ASSUME PlannerInv, [PlannerNext]_vars, NEW p \in Plans, position[p] = "ended"
               PROVE  /\ status'[p] = status[p] /\ position'[p] = "ended"
                      /\ \A c \in PlanCalls : PlanOf(c) = p /\ Made(c)' => Made(c)
    OBVIOUS
  <2>1. ASSUME NEW c \in PlanCalls, PlanOf(c) = p, Made(c)', ~Made(c)
        PROVE  FALSE
    BY <2>1, PlannerMakes DEF PlannerInv, Reaches, Made, PlanOf
  <2> QED BY <2>1, EndedStays
<1> QED BY <1>1, PlannerHolds, PTL DEF PlannerSpec, EndIsFinal

\* With plans on top of it the gateway still implements its contract.
THEOREM PlannerKeepsContract == PlannerSpec => KeepsContract
<1>1. Init => Contract!Init
  BY InitialTickets
<1>2. PlannerInv /\ [PlannerNext]_vars => [Contract!Next]_Ticket
  BY GatewayUnderPlanner, ContractStep DEF PlannerInv
<1> QED BY <1>1, <1>2, PlannerHolds, PTL DEF PlannerSpec, KeepsContract, Contract!Spec

\* The calls of plans need the same consent, are decided once and executed at most once,
\* and their confirmations do not outlive a stop.
THEOREM PlannerConsent ==
  PlannerSpec => [](ConsentBeforeDispatch /\ DispatchedOnce /\ DecidedOnce /\ NoStaleConfirmation)
<1>1. PlannerInv => ConsentBeforeDispatch /\ DispatchedOnce /\ DecidedOnce /\ NoStaleConfirmation
  BY InvConsent, InvOnce, InvDecided, InvFresh DEF PlannerInv, GatewayInv
<1> QED BY <1>1, PlannerHolds, PTL

\* No step of a plan is dispatched across a stop or under a mode that forbids it.
THEOREM PlannerDispatch == PlannerSpec => NoDispatchAcrossStop /\ PolicyAtDispatch
<1>1. PlannerInv /\ [PlannerNext]_vars
        => /\ [\A h \in dispatched' \ dispatched : ~Stale(h)]_gatewayVars
           /\ [\A h \in dispatched' \ dispatched :
                 ~changing /\ (restricted => subject[h] \notin Sensitive)]_gatewayVars
  <2> SUFFICES ASSUME PlannerInv, [PlannerNext]_vars, NEW h \in dispatched' \ dispatched
               PROVE  ~Stale(h) /\ ~changing /\ (restricted => subject[h] \notin Sensitive)
    OBVIOUS
  <2>1. PICK g \in Handlers : Dispatch(g)
    BY GatewayUnderPlanner, OnlyDispatch DEF PlannerInv, GatewayInv
  <2>2. g = h
    BY <2>1 DEF Dispatch
  <2> QED BY <2>1, <2>2 DEF Dispatch, FreshTasks, PolicyInv, PlannerInv, GatewayInv
<1> QED
  BY <1>1, PlannerHolds, PTL DEF PlannerSpec, NoDispatchAcrossStop, PolicyAtDispatch
================================================================================
