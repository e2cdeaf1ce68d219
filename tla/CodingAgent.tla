------------------------------ MODULE CodingAgent ------------------------------
(***************************************************************************)
(* The coding-agent gateway (coding_agent.py, CodingAgentGateway): a       *)
(* proposal that the user has approved is executed by a worker thread,     *)
(* which runs Codex, the fixed validations and the review commit as        *)
(* processes of their own in a Git worktree.  The event loop may ask a job *)
(* to stop at any moment, by the tool call that started it, by cancel or   *)
(* by cancel_all.  The core may crash: its threads end, the processes they *)
(* started live on, and the proposals are read from their files again.     *)
(* Left out: a file that cannot be written, and what the texts say.        *)
(***************************************************************************)
EXTENDS Naturals

CONSTANT Proposals

VARIABLES
  up,         \* the core runs
  status,     \* proposal["status"] in memory
  executed,   \* proposal["executed"] in memory
  saved,      \* the task file of a proposal: both of them
  running,    \* the proposals in _running
  cancel,     \* their cancellation events
  pc,         \* where the job of a proposal is
  worktree,   \* the proposals whose worktree exists
  child,      \* the process that a job has started and not seen end
  passed,     \* no validation of this job has failed yet
  launched,   \* ghost: how many Codex processes a proposal has had
  validated,  \* ghost: the proposals all of whose validations have passed
  committed,  \* ghost: the proposals with a review commit
  orphaned    \* ghost: the proposals whose job a crash has ended

fileVars == <<status, executed, saved>>
jobVars == <<running, cancel, pc, worktree, child, passed>>
ghostVars == <<launched, validated, committed, orphaned>>
vars == <<up, fileVars, jobVars, ghostVars>>

Init ==
  /\ up = TRUE
  /\ status = [p \in Proposals |-> "none"]
  /\ executed = [p \in Proposals |-> FALSE]
  /\ saved = [p \in Proposals |-> [status |-> "none", executed |-> FALSE]]
  /\ running = {} /\ cancel = [p \in Proposals |-> FALSE]
  /\ pc = [p \in Proposals |-> "idle"] /\ worktree = {}
  /\ child = [p \in Proposals |-> "none"] /\ passed = [p \in Proposals |-> FALSE]
  /\ launched = [p \in Proposals |-> 0]
  /\ validated = {} /\ committed = {} /\ orphaned = {}

--------------------------------------------------------------------------------
(* The files.  proposal.update and the _save that follows it are one step:   *)
(* only the thread of the job looks at the proposal in between.              *)

Record(p, to, done) ==
  /\ status' = [status EXCEPT ![p] = to]
  /\ executed' = [executed EXCEPT ![p] = done]
  /\ saved' = [saved EXCEPT ![p] = [status |-> to, executed |-> done]]

Goto(p, label) == pc' = [pc EXCEPT ![p] = label]

\* The job has its final status and leaves _execute_inner.
Finish(p, to) == Record(p, to, executed[p]) /\ Goto(p, "leaving")

\* propose: the agent is available and the checkout is clean, or not.
Propose(p) ==
  /\ up /\ status[p] = "none"
  /\ \E to \in {"READY", "BLOCKED"} : Record(p, to, FALSE)
  /\ UNCHANGED <<up, jobVars, ghostVars>>

--------------------------------------------------------------------------------
(* A job: execute and _execute_inner                                         *)

\* The tool call may have been cancelled before its thread began.
Execute(p) ==
  /\ up /\ status[p] # "none" /\ p \notin running
  /\ running' = running \cup {p}
  /\ \E set \in BOOLEAN : cancel' = [cancel EXCEPT ![p] = set]
  /\ Goto(p, "admitting")
  /\ UNCHANGED <<up, fileVars, worktree, child, passed, ghostVars>>

\* cancel, cancel_all, and the cancellation of the tool call.
CancelJob(p) ==
  /\ up /\ p \in running /\ cancel' = [cancel EXCEPT ![p] = TRUE]
  /\ UNCHANGED <<up, fileVars, running, pc, worktree, child, passed, ghostVars>>

\* Only a proposal that is ready and was never executed; it is cancelled first.
Admit(p) ==
  /\ pc[p] = "admitting"
  /\ \/ (executed[p] \/ status[p] # "READY") /\ Goto(p, "leaving") /\ UNCHANGED fileVars
     \/ ~executed[p] /\ status[p] = "READY" /\ cancel[p] /\ Finish(p, "CANCELLED")
     \/ ~executed[p] /\ status[p] = "READY" /\ ~cancel[p] /\ Goto(p, "checking") /\ UNCHANGED fileVars
  /\ UNCHANGED <<up, running, cancel, worktree, child, passed, ghostVars>>

\* The checkout is still the one of the proposal and the agent available, or the
\* job ends in an error that leaves the proposal ready.
Check(p) ==
  /\ pc[p] = "checking"
  /\ \/ cancel[p] /\ Finish(p, "CANCELLED")
     \/ ~cancel[p] /\ Goto(p, "preparing") /\ UNCHANGED fileVars
     \/ Goto(p, "leaving") /\ UNCHANGED fileVars
  /\ UNCHANGED <<up, running, cancel, worktree, child, passed, ghostVars>>

AddWorktree(p) ==
  /\ pc[p] = "preparing"
  /\ \/ p \notin worktree /\ worktree' = worktree \cup {p} /\ Goto(p, "starting")
     \/ Goto(p, "leaving") /\ UNCHANGED worktree
  /\ UNCHANGED <<up, fileVars, running, cancel, child, passed, ghostVars>>

\* That the proposal has been executed is on disk before its agent starts.
MarkRunning(p) ==
  /\ pc[p] = "starting" /\ Record(p, "RUNNING", TRUE) /\ Goto(p, "launching")
  /\ UNCHANGED <<up, running, cancel, worktree, child, passed, ghostVars>>

Launch(p) ==
  /\ pc[p] = "launching"
  /\ \/ cancel[p] /\ Finish(p, "CANCELLED") /\ UNCHANGED <<child, launched>>
     \/ /\ ~cancel[p] /\ Goto(p, "codex") /\ UNCHANGED fileVars
        /\ child' = [child EXCEPT ![p] = "codex"]
        /\ launched' = [launched EXCEPT ![p] = @ + 1]
  /\ UNCHANGED <<up, running, cancel, worktree, passed, validated, committed, orphaned>>

\* _collect_agent ends with its process, or kills it: because of the event, the
\* time, or too much output.
AgentEnds(p) ==
  /\ pc[p] = "codex" /\ child' = [child EXCEPT ![p] = "none"]
  /\ \/ cancel[p] /\ Finish(p, "CANCELLED")
     \/ Finish(p, "FAILED")
     \/ Goto(p, "reviewing") /\ UNCHANGED fileVars
  /\ UNCHANGED <<up, running, cancel, worktree, passed, ghostVars>>

Review(p) ==
  /\ pc[p] = "reviewing"
  /\ \/ cancel[p] /\ Finish(p, "CANCELLED") /\ UNCHANGED passed
     \/ /\ ~cancel[p] /\ Goto(p, "validating") /\ UNCHANGED fileVars
        /\ passed' = [passed EXCEPT ![p] = TRUE]
  /\ UNCHANGED <<up, running, cancel, worktree, child, ghostVars>>

\* _run_owned looks at the event under the lock and does not start a process for
\* a cancelled job.
StartValidation(p) ==
  /\ pc[p] = "validating"
  /\ \/ /\ cancel[p] /\ passed' = [passed EXCEPT ![p] = FALSE]
        /\ Goto(p, "concluding") /\ UNCHANGED child
     \/ /\ ~cancel[p] /\ child' = [child EXCEPT ![p] = "validation"]
        /\ Goto(p, "validation") /\ UNCHANGED passed
  /\ UNCHANGED <<up, fileVars, running, cancel, worktree, ghostVars>>

\* A cancelled validation is the last one; a failed one is not.
EndValidation(p) ==
  /\ pc[p] = "validation" /\ child' = [child EXCEPT ![p] = "none"]
  /\ \E ok \in BOOLEAN :
       /\ passed' = [passed EXCEPT ![p] = @ /\ ok]
       /\ \/ Goto(p, "validating") /\ UNCHANGED validated
          \/ /\ Goto(p, "concluding")
             /\ validated' = IF passed[p] /\ ok THEN validated \cup {p} ELSE validated
  /\ UNCHANGED <<up, fileVars, running, cancel, worktree, launched, committed, orphaned>>

Conclude(p) ==
  /\ pc[p] = "concluding"
  /\ \/ cancel[p] /\ Finish(p, "CANCELLED")
     \/ ~cancel[p] /\ Finish(p, "NO_CHANGES")
     \/ ~cancel[p] /\ ~passed[p] /\ Finish(p, "VALIDATION_FAILED")
     \/ ~cancel[p] /\ passed[p] /\ Goto(p, "committing") /\ UNCHANGED fileVars
  /\ UNCHANGED <<up, running, cancel, worktree, child, passed, ghostVars>>

\* git add and git commit, as one process.
StartCommit(p) ==
  /\ pc[p] = "committing"
  /\ \/ cancel[p] /\ Finish(p, "CANCELLED") /\ UNCHANGED child
     \/ /\ ~cancel[p] /\ child' = [child EXCEPT ![p] = "commit"]
        /\ Goto(p, "commit") /\ UNCHANGED fileVars
  /\ UNCHANGED <<up, running, cancel, worktree, passed, ghostVars>>

\* A commit that was killed may have been made.
EndCommit(p) ==
  /\ pc[p] = "commit" /\ child' = [child EXCEPT ![p] = "none"]
  /\ \/ Finish(p, "VALIDATED") /\ committed' = committed \cup {p}
     \/ /\ Finish(p, IF cancel[p] THEN "CANCELLED" ELSE "FAILED")
        /\ committed' \in {committed, committed \cup {p}}
  /\ UNCHANGED <<up, running, cancel, worktree, passed, launched, validated, orphaned>>

\* An exception anywhere in the job: _collect_agent has killed its process, and
\* execute gives a proposal that runs a final status.
Raise(p) ==
  /\ pc[p] \notin {"idle", "leaving"}
  /\ Goto(p, "leaving") /\ child' = [child EXCEPT ![p] = "none"]
  /\ IF status[p] = "RUNNING" THEN Record(p, "FAILED", executed[p]) ELSE UNCHANGED fileVars
  /\ UNCHANGED <<up, running, cancel, worktree, passed, ghostVars>>

Leave(p) ==
  /\ pc[p] = "leaving" /\ running' = running \ {p} /\ Goto(p, "idle")
  /\ UNCHANGED <<up, fileVars, cancel, worktree, child, passed, ghostVars>>

--------------------------------------------------------------------------------
(* A crash of the core, and _load_existing                                   *)

Crash ==
  /\ up /\ up' = FALSE
  /\ running' = {} /\ pc' = [p \in Proposals |-> "idle"]
  /\ orphaned' = orphaned \cup running
  /\ UNCHANGED <<fileVars, cancel, worktree, child, passed, launched, validated, committed>>

Restart ==
  /\ ~up /\ up' = TRUE
  /\ status' = [p \in Proposals |-> saved[p].status]
  /\ executed' = [p \in Proposals |-> saved[p].executed]
  /\ UNCHANGED <<saved, jobVars, ghostVars>>

\* A process whose job has crashed ends by itself; a commit may have been made.
OrphanEnds(p) ==
  /\ pc[p] = "idle" /\ child[p] # "none" /\ child' = [child EXCEPT ![p] = "none"]
  /\ committed' \in {committed, committed \cup (IF child[p] = "commit" THEN {p} ELSE {})}
  /\ UNCHANGED <<up, fileVars, running, cancel, pc, worktree, passed, launched, validated, orphaned>>

Next ==
  \/ \E p \in Proposals :
       \/ Propose(p) \/ Execute(p) \/ CancelJob(p) \/ Admit(p) \/ Check(p) \/ AddWorktree(p)
       \/ MarkRunning(p) \/ Launch(p) \/ AgentEnds(p) \/ Review(p) \/ StartValidation(p)
       \/ EndValidation(p) \/ Conclude(p) \/ StartCommit(p) \/ EndCommit(p) \/ Raise(p)
       \/ Leave(p) \/ OrphanEnds(p)
  \/ Crash \/ Restart

Spec == Init /\ [][Next]_vars

--------------------------------------------------------------------------------
(* Properties *)

\* OneAgent (_execute_inner): a proposal is approved once, and at most one agent
\* ever works on it, although its job can be started again after an error, a
\* cancellation or a crash.
OneAgent == \A p \in Proposals : launched[p] <= 1

\* OnlyValidated (_execute_inner, "commit only a passing worktree result"): a
\* review commit is only made after all validations passed, and a proposal that
\* awaits its deployment has one.
OnlyValidated ==
  /\ committed \subseteq validated
  /\ \A p \in Proposals : status[p] = "VALIDATED" => p \in committed

\* Settled (execute): the job that has returned, for whatever reason, has left
\* no process behind, has given its proposal a status other than RUNNING, and
\* has written it where a restart finds it.  The exception is a crash: its
\* proposals stay RUNNING for ever, and nothing stops their processes.
Settled ==
  \A p \in Proposals \ orphaned :
    p \notin running =>
      /\ child[p] = "none" /\ status[p] # "RUNNING"
      /\ saved[p] = [status |-> status[p], executed |-> executed[p]]
================================================================================
