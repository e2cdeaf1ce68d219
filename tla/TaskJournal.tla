------------------------------ MODULE TaskJournal ------------------------------
(***************************************************************************)
(* The task journal (task_journal.py) and what writes to it: the request   *)
(* in progress, the tool it calls, the decision about its confirmation, a  *)
(* stop, a change of the privacy mode, and the recovery after a restart    *)
(* (service.py).  Every write is a transaction in a worker thread: it goes *)
(* to the table in use when the thread runs, which may be long after its   *)
(* caller was cancelled; a crash loses it.                                 *)
(* A task has at most one step: what the model is about is the race of its *)
(* writes, and a second tool of the same task waits for the first.         *)
(* The pruning of rows beyond the 200 most recent is left out.             *)
(***************************************************************************)
EXTENDS Naturals, Sequences

CONSTANTS
  Requests,    \* the requests of the user, by their correlation id
  Confirmed,   \* the requests whose tool needs a confirmation
  MaxCrashes, MaxShutdowns, MaxStops, MaxChanges, MaxCancels, MaxErrors,   \* how often each may happen
  MaxEvents    \* and all of them together

ASSUME JournalAssumption ==
  /\ Confirmed \subseteq Requests
  /\ {MaxCrashes, MaxShutdowns, MaxStops, MaxChanges, MaxCancels, MaxErrors, MaxEvents}
       \subseteq Nat

VARIABLES
  core,        \* "down", "locked" (the lock is held, nothing recovered), "up", "stopping"
  disk, ram,   \* the two tables: the status of each task, and its steps by id
  private,     \* the table in memory is in use
  saved,       \* the configuration file says that the mode is private
  writes,      \* the writes whose threads have not run yet
  at,          \* the task of each request
  by,          \* the confirmation of each request and the task of its decision
  tool,        \* the tool task of each request
  step,        \* its journal_step; 0 is None
  stopping,    \* "no", "stop", "change", or "saving": the mode changed and is not saved
  scope,       \* the stops so far, and the stops each task of a request has seen
  answer,      \* the status a request has been, or is about to be, answered with
  outcome,     \* ghost: the results the tool of each request has had
  strayed,     \* ghost: requests whose rows a change of the table in use has split or lost
  crossed,     \* ghost: requests decided, or cancelled, while their own write was pending
  budget       \* what may still happen of each of the Max constants

tableVars == <<disk, ram, private, saved, writes>>
ghostVars == <<outcome, strayed, crossed>>
vars == <<core, tableVars, at, by, tool, step, stopping, scope, answer, ghostVars, budget>>

Unfinished == {"RUNNING", "WAITING"}
Busy == {"beginning", "working", "cancelling", "ending"}
\* A tool task that has ended: it answered, it raised, or it was cut off while
\* it recorded that it raised.
Over == {"over", "raised", "cut"}

EmptyTable == [task |-> [r \in Requests |-> "absent"], steps |-> <<>>]

Init ==
  /\ core = "down" /\ disk = EmptyTable /\ ram = EmptyTable
  /\ private \in BOOLEAN /\ saved = private /\ writes = {}
  /\ at = [r \in Requests |-> "new"] /\ by = [r \in Requests |-> "none"]
  /\ tool = [r \in Requests |-> "none"] /\ step = [r \in Requests |-> 0]
  /\ stopping = "no" /\ scope = [now |-> 0, seen |-> [r \in Requests |-> 0]]
  /\ answer = [r \in Requests |-> "none"] /\ outcome = [r \in Requests |-> {}]
  /\ strayed = {} /\ crossed = {}
  /\ budget = [crash |-> MaxCrashes, shutdown |-> MaxShutdowns, stop |-> MaxStops,
               change |-> MaxChanges, cancel |-> MaxCancels, error |-> MaxErrors, all |-> MaxEvents]

Spend(what) ==
  /\ budget[what] > 0 /\ budget.all > 0
  /\ budget' = [budget EXCEPT ![what] = @ - 1, !.all = @ - 1]

--------------------------------------------------------------------------------
(* The journal: what each of its methods does to a table                     *)

Begin(table, r) == [table EXCEPT !.task[r] = "RUNNING"]

\* A task that is not in the table gets no step.
StartStep(table, r) ==
  IF table.task[r] = "absent" THEN table
  ELSE [table EXCEPT !.steps = Append(@, [of |-> r, status |-> "RUNNING"])]

FinishStep(table, id, status) ==
  IF id \in DOMAIN table.steps THEN [table EXCEPT !.steps[id].status = status] ELSE table

\* The steps of the tasks that are still running when their task has ended.
Uncertain(steps, tasks) ==
  [i \in DOMAIN steps |-> IF steps[i].of \in tasks /\ steps[i].status = "RUNNING"
                          THEN [steps[i] EXCEPT !.status = "INTERRUPTED_UNCERTAIN"] ELSE steps[i]]

FinishTask(table, r, status) ==
  IF table.task[r] = "absent" THEN table
  ELSE [task |-> [table.task EXCEPT ![r] = status],
        steps |-> IF status \in Unfinished THEN table.steps ELSE Uncertain(table.steps, {r})]

\* Mutant: a task that waits for a confirmation is left as it is.
RecoverInterrupted_Running(table) ==
  [task |-> [r \in Requests |-> IF table.task[r] = "RUNNING" THEN "INTERRUPTED" ELSE table.task[r]],
   steps |-> Uncertain(table.steps, Requests)]

RecoverInterrupted(table) ==
  [task |-> [r \in Requests |-> IF table.task[r] \in Unfinished THEN "INTERRUPTED" ELSE table.task[r]],
   steps |-> Uncertain(table.steps, Requests)]

--------------------------------------------------------------------------------
(* Writes.  from says which task waits for the write.                        *)

Write(from, op, r, status, id) ==
  [from |-> from, op |-> op, of |-> r, status |-> status, id |-> id]
Pending(from, r) == \E w \in writes : w.from = from /\ w.of = r

After(table, w) ==
  CASE w.op = "begin" -> Begin(table, w.of)
    [] w.op = "start" -> StartStep(table, w.of)
    [] w.op = "receipt" -> FinishStep(table, w.id, w.status)
    [] w.op = "finish" -> FinishTask(table, w.of, w.status)

InUse == IF private THEN ram ELSE disk
Other == IF private THEN disk ELSE ram

\* The tasks whose rows a write splits or spoils: its own when it is in the
\* other table, and the one whose step has the number of a step of the other.
Strays(w) ==
  {r \in Requests :
    \/ r = w.of /\ (Other.task[r] # "absent" \/ (w.op # "begin" /\ InUse.task[r] = "absent"))
    \/ w.op = "receipt" /\ w.id \in DOMAIN InUse.steps /\ InUse.steps[w.id].of = r /\ r # w.of}

Perform(w) ==
  /\ w \in writes /\ writes' = writes \ {w}
  /\ IF private THEN ram' = After(ram, w) /\ UNCHANGED disk
     ELSE disk' = After(disk, w) /\ UNCHANGED ram
  /\ step' = IF w.op = "start" /\ InUse.task[w.of] # "absent"
             THEN [step EXCEPT ![w.of] = Len(InUse.steps) + 1] ELSE step
  /\ strayed' = strayed \cup Strays(w)
  /\ UNCHANGED <<core, private, saved, at, by, tool, stopping, scope, answer, outcome, crossed, budget>>

--------------------------------------------------------------------------------
(* A request: _submit_action_clauses and _run_journaled_request              *)

Fresh(r) == scope.seen[r] = scope.now
See(r) == scope' = [scope EXCEPT !.seen[r] = scope.now]

Submit(r) ==
  /\ core = "up" /\ at[r] = "new" /\ \A q \in Requests : at[q] \notin Busy
  /\ at' = [at EXCEPT ![r] = "beginning"] /\ See(r)
  /\ writes' = writes \cup {Write("request", "begin", r, "-", 0)}
  /\ UNCHANGED <<core, disk, ram, private, saved, by, tool, step, stopping, answer, ghostVars, budget>>

\* The request is over; its status is written before it is answered.
EndRequest(r, status) ==
  /\ at' = [at EXCEPT ![r] = "ending"]
  /\ answer' = [answer EXCEPT ![r] = status]
  /\ writes' = writes \cup {Write("request", "finish", r, status, 0)}

Begun(r) ==
  /\ at[r] = "beginning" /\ ~Pending("request", r)
  /\ IF Fresh(r) THEN at' = [at EXCEPT ![r] = "working"] /\ UNCHANGED <<writes, answer>>
     ELSE EndRequest(r, "CANCELLED")
  /\ UNCHANGED <<core, disk, ram, private, saved, by, tool, step, stopping, scope, ghostVars, budget>>

\* ANSWERED stands for the status of any result, and for the failure that an
\* error is recorded as.
Answer(r) ==
  /\ at[r] = "working" /\ tool[r] \in {"none"} \cup Over
  /\ \E status \in {"ANSWERED"} \cup (IF Fresh(r) THEN {} ELSE {"CANCELLED"}) :
       EndRequest(r, status)
  /\ UNCHANGED <<core, disk, ram, private, saved, by, tool, step, stopping, scope, ghostVars, budget>>

\* Mutant: the request is answered while its status is being written.
Answered_Early(r) ==
  /\ at[r] = "ending" /\ at' = [at EXCEPT ![r] = "done"]
  /\ UNCHANGED <<core, tableVars, by, tool, step, stopping, scope, answer, ghostVars, budget>>

Answered(r) ==
  /\ at[r] = "ending" /\ ~Pending("request", r)
  /\ at' = [at EXCEPT ![r] = "done"]
  /\ UNCHANGED <<core, tableVars, by, tool, step, stopping, scope, answer, ghostVars, budget>>

\* What becomes of a tool task that is cancelled: it settles, unless it does so
\* already, or it ends at once.
Cut(state) == CASE state \in {"recording", "running", "receipt"} -> "settling"
                [] state = "failing" -> "cut" [] OTHER -> state

\* The task of the request is cancelled by a revision or by the wake word, and
\* with it the tool it waits for.  A write that no thread has taken yet is
\* withdrawn if the cancelled task awaits it unprotected: a request its own
\* writes, a tool only the one that records that it raised.
Cancel(r) ==
  /\ at[r] \in {"beginning", "working", "ending"}
  /\ LET waits == at[r] = "working" /\ tool[r] \notin {"none"} \cup Over
         cut == waits /\ tool[r] = "failing"
         mine == {w \in writes : w.of = r /\ w.from = IF cut THEN "tool" ELSE "request"}
         finish == {Write("request", "finish", r, "CANCELLED", 0)} IN
     /\ \E kept \in {writes, writes \ mine} :
          writes' = IF at[r] = "beginning" \/ waits THEN kept ELSE kept \cup finish
     /\ at' = [at EXCEPT ![r] = IF @ = "beginning" THEN "dead"
                                ELSE IF waits THEN "cancelling" ELSE "ending"]
     /\ tool' = IF waits THEN [tool EXCEPT ![r] = Cut(@)] ELSE tool
  /\ answer' = [answer EXCEPT ![r] = "CANCELLED"]
  /\ crossed' = IF at[r] \in {"beginning", "ending"} THEN crossed \cup {r} ELSE crossed

CancelRequest(r) ==
  /\ core = "up" /\ Cancel(r) /\ Spend("cancel")
  /\ UNCHANGED <<core, disk, ram, private, saved, by, step, stopping, scope, outcome, strayed>>

\* The cancelled request has waited for its tool.
Cancelled(r) ==
  /\ at[r] = "cancelling" /\ tool[r] \in Over
  /\ EndRequest(r, "CANCELLED")
  /\ UNCHANGED <<core, disk, ram, private, saved, by, tool, step, stopping, scope, ghostVars, budget>>

--------------------------------------------------------------------------------
(* Its tool: _execute_tool                                                   *)

StartTool(r) ==
  /\ tool' = [tool EXCEPT ![r] = "recording"]
  /\ writes' = writes \cup {Write("tool", "start", r, "-", 0)}

CallTool(r) ==
  /\ at[r] = "working" /\ r \notin Confirmed /\ tool[r] = "none"
  /\ stopping = "no" /\ Fresh(r) /\ StartTool(r)
  /\ UNCHANGED <<core, disk, ram, private, saved, at, by, step, stopping, scope, answer, ghostVars, budget>>

Dispatch(r) ==
  /\ tool[r] = "recording" /\ ~Pending("tool", r)
  /\ tool' = [tool EXCEPT ![r] = "running"]
  /\ UNCHANGED <<core, tableVars, at, by, step, stopping, scope, answer, ghostVars, budget>>

\* finish_step does nothing for the id None.
Receipt(r, status) ==
  writes' = IF step[r] = 0 THEN writes
            ELSE writes \cup {Write("tool", "receipt", r, status, step[r])}

\* The tool returns, and its result says whether it did what it should.
Return(r) ==
  /\ tool[r] = "running"
  /\ \E status \in {"COMPLETED", "FAILED"} :
       Receipt(r, status) /\ outcome' = [outcome EXCEPT ![r] = {status}]
  /\ tool' = [tool EXCEPT ![r] = "receipt"]
  /\ UNCHANGED <<core, disk, ram, private, saved, at, by, step, stopping, scope, answer,
                 strayed, crossed, budget>>

\* It raises, before its dispatch, in its execution or once its result is
\* recorded: the failure is written over the result.
Raise(r) ==
  /\ tool[r] \in {"recording", "running", "receipt"} /\ ~Pending("tool", r) /\ Spend("error")
  /\ Receipt(r, "FAILED") /\ outcome' = [outcome EXCEPT ![r] = @ \cup {"FAILED"}]
  /\ tool' = [tool EXCEPT ![r] = "failing"]
  /\ UNCHANGED <<core, disk, ram, private, saved, at, by, step, stopping, scope, answer,
                 strayed, crossed>>

\* Mutant: a cancelled tool records its cancellation over the result it returned.
Settle_Overwrites(r) ==
  /\ tool[r] = "settling" /\ ~Pending("tool", r)
  /\ Receipt(r, "CANCELLED")
  /\ tool' = [tool EXCEPT ![r] = "settled"]
  /\ UNCHANGED <<core, disk, ram, private, saved, at, by, step, stopping, scope, answer, ghostVars, budget>>

\* A cancelled tool waits for the write in progress before it records that it
\* was cancelled, unless its own result has just been recorded; no further
\* cancellation disturbs it.
Settle(r) ==
  /\ tool[r] = "settling" /\ ~Pending("tool", r)
  /\ IF outcome[r] = {} THEN Receipt(r, "CANCELLED") ELSE UNCHANGED writes
  /\ tool' = [tool EXCEPT ![r] = "settled"]
  /\ UNCHANGED <<core, disk, ram, private, saved, at, by, step, stopping, scope, answer, ghostVars, budget>>

ToolOver(r) ==
  /\ tool[r] \in {"receipt", "settled", "failing"} /\ ~Pending("tool", r)
  /\ tool' = [tool EXCEPT ![r] = IF @ = "failing" THEN "raised" ELSE "over"]
  /\ UNCHANGED <<core, tableVars, at, by, step, stopping, scope, answer, ghostVars, budget>>

--------------------------------------------------------------------------------
(* Its confirmation: request_tool, resolve_confirmation and the expiry loop  *)

AskConfirmation(r) ==
  /\ at[r] = "working" /\ r \in Confirmed /\ by[r] = "none"
  /\ stopping = "no" /\ Fresh(r)
  /\ by' = [by EXCEPT ![r] = "open"] /\ EndRequest(r, "WAITING")
  /\ UNCHANGED <<core, disk, ram, private, saved, tool, step, stopping, scope, ghostVars, budget>>

\* The confirmation leaves the broker: its own request may not have written yet
\* that it waits.
Withdraw(r, next) ==
  /\ by[r] = "open" /\ by' = [by EXCEPT ![r] = next]
  /\ crossed' = IF at[r] = "ending" THEN crossed \cup {r} ELSE crossed

Decide(r) ==
  /\ core = "up" /\ (\E next \in {"approved", "denied"} : Withdraw(r, next)) /\ See(r)
  /\ UNCHANGED <<core, tableVars, at, tool, step, stopping, answer, outcome, strayed, budget>>

Conclude(r, status) ==
  /\ answer' = [answer EXCEPT ![r] = status]
  /\ writes' = writes \cup {Write("decider", "finish", r, status, 0)}

\* The decision is recorded in the memory; a stop meanwhile revokes it.
Decided(r) ==
  /\ by[r] \in {"approved", "denied"}
  /\ LET revoked == ~Fresh(r) \/ stopping \in {"stop", "change"} IN
     IF by[r] = "approved" /\ ~revoked
     THEN /\ by' = [by EXCEPT ![r] = "executing"] /\ UNCHANGED answer
          /\ IF stopping = "no" THEN StartTool(r)
             ELSE tool' = [tool EXCEPT ![r] = "over"] /\ UNCHANGED writes
     ELSE /\ by' = [by EXCEPT ![r] = "concluding"] /\ UNCHANGED tool
          /\ Conclude(r, IF revoked THEN "CANCELLED" ELSE "DENIED")
  /\ UNCHANGED <<core, disk, ram, private, saved, at, step, stopping, scope, ghostVars, budget>>

\* A tool that raised leaves resolve_confirmation before it writes anything;
\* execute_tool answers for one that was cut off.
Executed(r) ==
  /\ by[r] = "executing" /\ tool[r] \in Over
  /\ IF tool[r] = "raised"
     THEN by' = [by EXCEPT ![r] = "done"] /\ crossed' = crossed \cup {r} /\ UNCHANGED <<writes, answer>>
     ELSE /\ by' = [by EXCEPT ![r] = "concluding"] /\ UNCHANGED crossed
          /\ Conclude(r, CASE tool[r] = "cut" \/ outcome[r] = {} -> "CANCELLED"
                           [] outcome[r] = {"FAILED"} -> "FAILED" [] OTHER -> "EXECUTED")
  /\ UNCHANGED <<core, disk, ram, private, saved, at, tool, step, stopping, scope, outcome, strayed, budget>>

Expire(r) ==
  /\ core = "up" /\ Withdraw(r, "concluding") /\ Conclude(r, "EXPIRED")
  /\ UNCHANGED <<core, disk, ram, private, saved, at, tool, step, stopping, scope, outcome, strayed, budget>>

Concluded(r) ==
  /\ by[r] = "concluding" /\ ~Pending("decider", r)
  /\ by' = [by EXCEPT ![r] = "done"]
  /\ UNCHANGED <<core, tableVars, at, tool, step, stopping, scope, answer, ghostVars, budget>>

--------------------------------------------------------------------------------
(* Stops and the privacy mode: _stop_all_actions, set_mode                   *)

\* Every tool task is cancelled; the unprotected write of one that raised is
\* withdrawn, or its thread has taken it.
CancelTools ==
  /\ tool' = [r \in Requests |-> Cut(tool[r])]
  /\ \E lost \in SUBSET {w \in writes : w.from = "tool" /\ tool[w.of] = "failing"} :
       writes' = writes \ lost

BeginStop(kind) ==
  /\ core = "up" /\ stopping = "no" /\ Spend(kind)
  /\ stopping' = kind /\ scope' = [scope EXCEPT !.now = @ + 1] /\ CancelTools
  /\ UNCHANGED <<core, disk, ram, private, saved, at, by, step, answer, ghostVars>>

WithdrawOpen(r) ==
  /\ core = "up" /\ stopping \in {"stop", "change"}
  /\ Withdraw(r, "concluding") /\ Conclude(r, "CANCELLED")
  /\ UNCHANGED <<core, disk, ram, private, saved, at, tool, step, stopping, scope, outcome, strayed, budget>>

\* The stop has written what it withdrew; it waits for the tools two seconds at most.
Withdrawn == \A r \in Requests : by[r] # "open" /\ (answer[r] = "CANCELLED" => ~Pending("decider", r))

EndStop ==
  /\ core = "up" /\ stopping = "stop" /\ Withdrawn /\ stopping' = "no"
  /\ UNCHANGED <<core, tableVars, at, by, tool, step, scope, answer, ghostVars, budget>>

\* Every private session begins with an empty table, and its rows end with it.
SetPrivate ==
  /\ core = "up" /\ stopping = "change" /\ Withdrawn
  /\ private' \in BOOLEAN /\ ram' = EmptyTable
  /\ strayed' = strayed \cup {r \in Requests : ram.task[r] # "absent"}
  /\ stopping' = "saving"
  /\ UNCHANGED <<core, disk, saved, writes, at, by, tool, step, scope, answer, outcome, crossed, budget>>

SaveMode ==
  /\ core = "up" /\ stopping = "saving" /\ saved' = private /\ stopping' = "no"
  /\ UNCHANGED <<core, disk, ram, private, writes, at, by, tool, step, scope, answer, ghostVars, budget>>

--------------------------------------------------------------------------------
(* The process: acquire_lock and recover_interrupted in run, its shutdown,   *)
(* and a crash, which may come at any moment                                 *)

\* What the tasks of a process that has ended leave behind.
Perish ==
  /\ core' = "down" /\ ram' = EmptyTable /\ writes' = {} /\ private' = saved /\ stopping' = "no"
  /\ at' = [r \in Requests |-> IF at[r] \in Busy THEN "dead" ELSE at[r]]
  /\ by' = [r \in Requests |-> IF by[r] = "none" THEN "none" ELSE "done"]
  /\ tool' = [r \in Requests |-> IF tool[r] \in {"none"} \cup Over THEN tool[r] ELSE "over"]
  /\ strayed' = strayed \cup {r \in Requests : ram.task[r] # "absent"}
  /\ answer' = [r \in Requests |->
       IF at[r] \in Busy \/ by[r] \notin {"none", "done"} THEN "none" ELSE answer[r]]
  /\ UNCHANGED <<disk, saved, step, scope, outcome, crossed>>

Crash == core # "down" /\ Spend("crash") /\ Perish

Start ==
  /\ core = "down" /\ core' = "locked"
  /\ UNCHANGED <<tableVars, at, by, tool, step, stopping, scope, answer, ghostVars, budget>>

\* A restart in a private mode recovers the copy in memory: the rows on disk
\* keep the status that the last process left.
Recover ==
  /\ core = "locked" /\ core' = "up"
  /\ IF private
     THEN /\ ram' = RecoverInterrupted(ram) /\ UNCHANGED disk
          /\ strayed' = strayed \cup {r \in Requests : disk.task[r] # "absent"}
     ELSE disk' = RecoverInterrupted(disk) /\ UNCHANGED <<ram, strayed>>
  /\ UNCHANGED <<private, saved, writes, at, by, tool, step, stopping, scope, answer, outcome, crossed, budget>>

\* A signal: whatever is in progress is cancelled.
Shutdown ==
  /\ core = "up" /\ Spend("shutdown") /\ core' = "stopping"
  /\ LET busy == {r \in Requests : at[r] \in Busy \ {"cancelling"}} IN
     IF busy = {} THEN UNCHANGED <<at, tool, answer, writes, crossed>> ELSE \E r \in busy : Cancel(r)
  /\ UNCHANGED <<disk, ram, private, saved, by, step, stopping, scope, outcome, strayed>>

\* No stage of the shutdown has timed out: every write has been performed.
Release ==
  /\ core = "stopping" /\ writes = {}
  /\ \A r \in Requests : at[r] \notin Busy /\ tool[r] \in {"none"} \cup Over
                         /\ by[r] \in {"none", "open", "done"}
  /\ Perish /\ UNCHANGED budget

Next ==
  \/ \E w \in writes : Perform(w)
  \/ \E r \in Requests :
       \/ Submit(r) \/ Begun(r) \/ Answer(r) \/ Answered(r) \/ CancelRequest(r) \/ Cancelled(r)
       \/ CallTool(r) \/ Dispatch(r) \/ Return(r) \/ Raise(r) \/ Settle(r) \/ ToolOver(r)
       \/ AskConfirmation(r) \/ Decide(r) \/ Decided(r) \/ Executed(r) \/ Expire(r) \/ Concluded(r)
       \/ WithdrawOpen(r)
  \/ \E kind \in {"stop", "change"} : BeginStop(kind)
  \/ EndStop \/ SetPrivate \/ SaveMode
  \/ Crash \/ Start \/ Recover \/ Shutdown \/ Release

Spec == Init /\ [][Next]_vars

--------------------------------------------------------------------------------
(* Properties.  Three circumstances are known to break them, each recorded  *)
(* as a hazard: a change of the table in use while a task is unsettled      *)
(* (strayed), a decision or a cancellation that overtakes the request's own *)
(* pending write, or an approved tool that raises (crossed), and a tool     *)
(* cancelled while it records that it raised (cut).                         *)

Tables == {disk, ram}

\* HonestReceipts (finish, finish_step, _execute_tool's record_cancellation):
\* what the journal says of a tool is what became of it, although the end of
\* its task marks the step uncertain while a cancelled tool still writes.  A
\* result is recorded only for a tool that had it, a cancellation only for a
\* tool that had none, and nothing but a failure for one that raised.  No step
\* runs whose tool has ended, and a result goes unrecorded only through a
\* crash; for both, a tool cut off while it recorded its failure is excepted.
HonestReceipts ==
  \A r \in Requests \ strayed :
    /\ \A table \in Tables : \A i \in DOMAIN table.steps :
         table.steps[i].of = r =>
           /\ table.steps[i].status \in {"COMPLETED", "FAILED"} => table.steps[i].status \in outcome[r]
           /\ table.steps[i].status = "CANCELLED" => outcome[r] = {}
           /\ table.steps[i].status = "COMPLETED" => tool[r] # "raised"
           /\ core = "up" /\ table.steps[i].status = "RUNNING" => tool[r] \notin {"over", "raised"}
    /\ core = "up" /\ outcome[r] # {} /\ tool[r] \in {"over", "raised"} =>
         \E table \in Tables : \E i \in DOMAIN table.steps :
           /\ table.steps[i].of = r
           /\ \/ table.steps[i].status \in outcome[r]
              \/ table.steps[i].status = "INTERRUPTED_UNCERTAIN" /\ budget.crash < MaxCrashes

\* NoZombies (recover_interrupted, begin, finish): while the core runs, a task
\* that the journal calls running or waiting has a task at work, or a
\* confirmation that can still be decided: not only after a restart, but after
\* each stop, expiry, cancellation and change of mode.
NoZombies ==
  core = "up" =>
    \A r \in Requests \ (strayed \cup crossed) :
      (\E table \in Tables : table.task[r] \in Unfinished)
        => at[r] \in Busy \/ by[r] \notin {"none", "done"}

\* AnswerStands (_run_journaled_request, resolve_confirmation): what a request
\* was answered with is what the journal says of it from then on, whatever
\* crash, restart, stop or expiry follows: a finished task is never offered
\* as one to resume.
AnswerStands ==
  \A r \in Requests \ (strayed \cup crossed) :
    at[r] = "done" /\ by[r] \in {"none", "open", "done"} /\ answer[r] # "none"
      => \E table \in Tables : table.task[r] = answer[r]
================================================================================
