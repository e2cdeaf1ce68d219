----------------------------- MODULE CommandEngine -----------------------------
(***************************************************************************)
(* The command engine (brain.py, CommandEngine): a command asks the model  *)
(* for its next step and makes the tool calls of the answer one after the  *)
(* other, under _command_lock.  A call that needs a confirmation suspends  *)
(* the command: its session waits in pending, and the coroutine of the     *)
(* decision continues it (service.py, resolve_confirmation), unless a stop *)
(* or the expiry of the confirmation has withdrawn it.                     *)
(*                                                                         *)
(* The calls of a turn are numbered.  A command may be cancelled, and an   *)
(* exception may end it, at each of its awaits.  Left out: what the calls  *)
(* and answers say, and the core state, which may fail a transition; that  *)
(* time, rounds or repetition run out is a free choice.                    *)
(***************************************************************************)
EXTENDS Naturals, Sequences

CONSTANT Commands

VARIABLES
  at,         \* where the coroutine of a command is
  lock,       \* the command that holds _command_lock
  turn,       \* how many calls the last answer of the model has
  call,       \* the last call of them that was made
  outputs,    \* the calls whose results are collected for the model
  kept,       \* the commands that _tool_history knows
  history,    \* the length of their history
  pending,    \* the commands with a session in pending
  live,       \* those whose confirmation can be decided
  resolver,   \* where the decision about a command's confirmation is
  expired,    \* those pruned whose sessions are still to be dropped
  stops,      \* how many stops are in progress
  overtaken,  \* the calls, and the decisions, of before the last stop
  called,     \* ghost: how many calls a command has handed over
  made,       \* ghost: those of the current turn, in their order
  asked,      \* ghost: how often it has asked the model
  withdrawn,  \* ghost: whose confirmation was withdrawn
  abandoned   \* ghost: cancelled as they waited to be continued

turnVars == <<turn, call, outputs, made>>
historyVars == <<kept, history>>
brokerVars == <<live, expired, resolver>>
stopVars == <<stops, overtaken>>
ghostVars == <<called, asked, withdrawn, abandoned>>
vars == <<at, lock, turnVars, historyVars, pending, brokerVars, stopVars, ghostVars>>

max_tool_calls == 48

Init ==
  /\ at = [c \in Commands |-> "new"] /\ lock = {}
  /\ turn = [c \in Commands |-> 0] /\ call = [c \in Commands |-> 0]
  /\ outputs = [c \in Commands |-> <<>>] /\ made = [c \in Commands |-> <<>>]
  /\ kept = {} /\ history = [c \in Commands |-> 0]
  /\ pending = {} /\ live = {} /\ expired = {} /\ resolver = [c \in Commands |-> "none"]
  /\ stops = 0 /\ overtaken = {}
  /\ called = [c \in Commands |-> 0] /\ asked = [c \in Commands |-> 0]
  /\ withdrawn = {} /\ abandoned = {}

Goto(c, label) == at' = [at EXCEPT ![c] = label]

\* A call and a decision about it are overtaken separately.
Call(c) == <<c, "call">>
Decision(c) == <<c, "decision">>

--------------------------------------------------------------------------------
(* submit                                                                    *)

\* Busy: the core speaks, or another command is at work.
Submit(c) ==
  /\ at[c] = "new"
  /\ Goto(c, "done") \/ (lock = {} /\ Goto(c, "queued"))
  /\ UNCHANGED <<lock, turnVars, historyVars, pending, brokerVars, stopVars, ghostVars>>

\* A command that is continued may wait for the lock already.
Enter(c) ==
  /\ at[c] = "queued" /\ lock = {} /\ lock' = {c} /\ Goto(c, "preparing")
  /\ kept' = kept \cup {c} /\ history' = [history EXCEPT ![c] = 0]
  /\ UNCHANGED <<turnVars, pending, brokerVars, stopVars, ghostVars>>

\* Memories, hints and the conversation so far; the first question to the model.
Prepare(c) ==
  /\ at[c] = "preparing" /\ Goto(c, "asking") /\ asked' = [asked EXCEPT ![c] = @ + 1]
  /\ UNCHANGED <<lock, turnVars, historyVars, pending, brokerVars, stopVars,
                 called, withdrawn, abandoned>>

--------------------------------------------------------------------------------
(* _advance, and the loop of resume_confirmation over the remaining calls    *)

\* The model answers with calls or without; it fails, or there is no time left.
Reply(c) ==
  /\ at[c] = "asking"
  /\ \/ \E n \in Nat \ {0} :
          /\ Goto(c, "advancing") /\ turn' = [turn EXCEPT ![c] = n]
          /\ call' = [call EXCEPT ![c] = 0]
          /\ outputs' = [outputs EXCEPT ![c] = <<>>] /\ made' = [made EXCEPT ![c] = <<>>]
     \/ Goto(c, "completing") /\ UNCHANGED turnVars
  /\ UNCHANGED <<lock, historyVars, pending, brokerVars, stopVars, ghostVars>>

\* The budget is spent, or the model repeats itself without progress.
Exhaust(c) ==
  /\ at[c] = "advancing" /\ Goto(c, "completing")
  /\ UNCHANGED <<lock, turnVars, historyVars, pending, brokerVars, stopVars, ghostVars>>

MakeCall(c) ==
  /\ at[c] = "advancing" /\ call[c] < turn[c] /\ history[c] < max_tool_calls
  /\ Goto(c, "calling") /\ call' = [call EXCEPT ![c] = @ + 1]
  /\ made' = [made EXCEPT ![c] = Append(@, call[c] + 1)]
  /\ called' = [called EXCEPT ![c] = @ + 1] /\ overtaken' = overtaken \ {Call(c)}
  /\ UNCHANGED <<lock, turn, outputs, historyVars, pending, brokerVars, stops,
                 asked, withdrawn, abandoned>>

Answered(c) ==
  /\ at[c] = "calling" /\ Goto(c, "advancing")
  /\ outputs' = [outputs EXCEPT ![c] = Append(@, call[c])]
  /\ history' = [history EXCEPT ![c] = @ + 1]
  /\ UNCHANGED <<lock, turn, call, made, kept, pending, brokerVars, stopVars, ghostVars>>

\* Stopped: the remaining calls are not made.
Cancelled(c) ==
  /\ at[c] \in {"calling", "recording"} /\ (at[c] = "recording" => Call(c) \in overtaken)
  /\ Goto(c, "done") /\ lock' = {} /\ kept' = kept \ {c} /\ live' = live \ {c}
  /\ UNCHANGED <<turnVars, history, pending, expired, resolver, stopVars, ghostVars>>

\* request_tool creates a confirmation, which may be decided from then on, and
\* records it in a thread.
NeedConfirmation(c) ==
  /\ at[c] = "calling" /\ Goto(c, "recording") /\ live' = live \cup {c}
  /\ UNCHANGED <<lock, turnVars, historyVars, pending, expired, resolver, stopVars, ghostVars>>

\* The command suspends with a session, whatever has become of its confirmation.
Suspend(c) ==
  /\ at[c] = "recording" /\ Call(c) \notin overtaken
  /\ Goto(c, "suspended") /\ lock' = {} /\ pending' = pending \cup {c}
  /\ UNCHANGED <<turnVars, historyVars, brokerVars, stopVars, ghostVars>>

AskAgain(c) ==
  /\ at[c] = "advancing" /\ call[c] = turn[c]
  /\ Goto(c, "asking") /\ asked' = [asked EXCEPT ![c] = @ + 1]
  /\ UNCHANGED <<lock, turnVars, historyVars, pending, brokerVars, stopVars,
                 called, withdrawn, abandoned>>

--------------------------------------------------------------------------------
(* resolve_confirmation and resume_confirmation                              *)

Decide(c) ==
  /\ c \in live /\ live' = live \ {c} /\ resolver' = [resolver EXCEPT ![c] = "deciding"]
  /\ overtaken' = overtaken \ {Decision(c)}
  /\ UNCHANGED <<at, lock, turnVars, historyVars, pending, expired, stops, ghostVars>>

\* A stop came while the decision was recorded: the session is dropped.
Voided(c) ==
  /\ resolver[c] = "deciding" /\ (stops > 0 \/ Decision(c) \in overtaken)
  /\ resolver' = [resolver EXCEPT ![c] = "none"]
  /\ pending' = pending \ {c} /\ kept' = kept \ {c} /\ withdrawn' = withdrawn \cup {c}
  /\ UNCHANGED <<at, lock, turnVars, history, live, expired, stopVars,
                 called, asked, abandoned>>

\* Denied, or approved and executed: in both cases the command goes on with what
\* came of it.
Resume(c) ==
  /\ resolver[c] = "deciding" /\ stops = 0 /\ Decision(c) \notin overtaken
  /\ resolver' = [resolver EXCEPT ![c] = "executing"]
  /\ UNCHANGED <<at, lock, turnVars, historyVars, pending, live, expired, stopVars, ghostVars>>

\* The record of the decision, or the approved tool, raises: the session stays.
ResolverFails(c) ==
  /\ resolver[c] # "none" /\ resolver' = [resolver EXCEPT ![c] = "none"]
  /\ UNCHANGED <<at, lock, turnVars, historyVars, pending, live, expired, stopVars, ghostVars>>

\* Without a session there is nothing to continue.
TakeSession(c) ==
  /\ resolver[c] = "executing" /\ resolver' = [resolver EXCEPT ![c] = "none"]
  /\ \/ c \in pending /\ pending' = pending \ {c} /\ Goto(c, "resuming")
     \/ c \notin pending /\ UNCHANGED <<at, pending>>
  /\ UNCHANGED <<lock, turnVars, historyVars, live, expired, stopVars, ghostVars>>

Continue(c) ==
  /\ at[c] = "resuming" /\ lock = {} /\ lock' = {c} /\ Goto(c, "advancing")
  /\ outputs' = [outputs EXCEPT ![c] = Append(@, call[c])]
  /\ kept' = kept \cup {c}
  /\ history' = [history EXCEPT ![c] = (IF c \in kept THEN @ ELSE 0) + 1]
  /\ UNCHANGED <<turn, call, made, pending, brokerVars, stopVars, ghostVars>>

--------------------------------------------------------------------------------
(* The end of a command                                                      *)

\* _complete: the history is taken, the answer remembered.
Complete(c) ==
  /\ at[c] = "completing" /\ Goto(c, "done") /\ lock' = {} /\ kept' = kept \ {c}
  /\ UNCHANGED <<turnVars, history, pending, brokerVars, stopVars, ghostVars>>

\* _recover_failed_command: an exception or a cancellation under the lock.
Fail(c) ==
  /\ at[c] \in {"preparing", "asking", "advancing", "calling", "recording", "completing"}
  /\ Goto(c, "done") /\ lock' = {} /\ kept' = kept \ {c}
  /\ UNCHANGED <<turnVars, history, pending, brokerVars, stopVars, ghostVars>>

\* A cancellation while it waits for the lock is not recovered from.
CancelWaiting(c) ==
  /\ at[c] \in {"queued", "resuming"} /\ Goto(c, "done")
  /\ abandoned' = IF at[c] = "resuming" THEN abandoned \cup {c} ELSE abandoned
  /\ UNCHANGED <<lock, turnVars, historyVars, pending, brokerVars, stopVars,
                 called, asked, withdrawn>>

--------------------------------------------------------------------------------
(* Stops, and the expiry of confirmations                                    *)

BeginStop ==
  /\ stops' = stops + 1
  /\ overtaken' = {Call(c) : c \in Commands} \cup {Decision(c) : c \in Commands}
  /\ UNCHANGED <<at, lock, turnVars, historyVars, pending, brokerVars, ghostVars>>

EndStop ==
  /\ stops > 0 /\ stops' = stops - 1
  /\ UNCHANGED <<at, lock, turnVars, historyVars, pending, brokerVars, overtaken, ghostVars>>

\* A stop revokes the confirmations one at a time, each with its session.
Revoke(c) ==
  /\ stops > 0 /\ c \in live /\ live' = live \ {c}
  /\ pending' = pending \ {c} /\ kept' = kept \ {c} /\ withdrawn' = withdrawn \cup {c}
  /\ UNCHANGED <<at, lock, turnVars, history, expired, resolver, stopVars,
                 called, asked, abandoned>>

\* An expired confirmation cannot be decided; pruning finds several of them at
\* once, and drops their sessions one after the other.
Expire(c) ==
  /\ c \in live /\ live' = live \ {c}
  /\ expired' = expired \cup {c} /\ withdrawn' = withdrawn \cup {c}
  /\ UNCHANGED <<at, lock, turnVars, historyVars, pending, resolver, stopVars,
                 called, asked, abandoned>>

Prune(c) ==
  /\ c \in expired /\ expired' = expired \ {c}
  /\ pending' = pending \ {c} /\ kept' = kept \ {c}
  /\ UNCHANGED <<at, lock, turnVars, history, live, resolver, stopVars, ghostVars>>

Next ==
  \/ \E c \in Commands :
       \/ Submit(c) \/ Enter(c) \/ Prepare(c) \/ Reply(c) \/ Exhaust(c) \/ MakeCall(c)
       \/ Answered(c) \/ Cancelled(c) \/ NeedConfirmation(c) \/ Suspend(c) \/ AskAgain(c)
       \/ Decide(c) \/ Voided(c) \/ Resume(c) \/ ResolverFails(c) \/ TakeSession(c)
       \/ Continue(c) \/ Complete(c) \/ Fail(c) \/ CancelWaiting(c)
       \/ Revoke(c) \/ Expire(c) \/ Prune(c)
  \/ BeginStop \/ EndStop

Spec == Init /\ [][Next]_vars

--------------------------------------------------------------------------------
(* Properties *)

Upto(n) == [i \in 1..n |-> i]

\* Budget (_advance, max_tool_calls): however often a command is suspended and
\* continued, and by whom, it hands over at most 48 calls and asks the model at
\* most 49 times; its history is not lost in between.
Budget == \A c \in Commands : called[c] <= max_tool_calls /\ asked[c] <= max_tool_calls + 1

\* WholeTurns (continue_with_tools): each call of a turn is handed over once and in
\* its order, and the model goes on with the results of all of them, also when
\* several of the calls were suspended and continued in other coroutines.
WholeTurns ==
  \A c \in Commands :
    /\ made[c] = Upto(call[c])
    /\ at[c] = "asking" => outputs[c] = Upto(turn[c])

\* WithdrawnEnds (_prune_expired_confirmations, _finish_stop_all_actions): a command
\* whose confirmation was withdrawn makes no call and asks the model nothing any
\* more, even if it was withdrawn before the command had suspended.
WithdrawnEnds ==
  [][\A c \in withdrawn : called'[c] = called[c] /\ asked'[c] = asked[c]]_vars

\* HistoryEnds (_recover_failed_command): the history of a command is forgotten
\* when it has ended, whatever ended it, unless it was cancelled as it waited for
\* the lock to be continued.
HistoryEnds == \A c \in kept \ abandoned : at[c] \notin {"new", "queued", "done"}

\* A command that is at work holds the lock, so there is one at most.
OneCommand ==
  \A c \in Commands :
    at[c] \in {"preparing", "asking", "advancing", "calling", "recording", "completing"}
      => lock = {c}
================================================================================
