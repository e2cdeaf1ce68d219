------------------------------- MODULE Recording -------------------------------
(***************************************************************************)
(* Screen recordings (recording.py, recording_worker.py) and the owned     *)
(* subprocess they run in (process_runner.py, command): the core starts a  *)
(* worker, which binds its life to the core's, asks the portal for a grant,*)
(* writes a pending file and reports; the core verifies the file and       *)
(* renames it to a clip, or unlinks it.                                    *)
(*                                                                         *)
(* A capture may be cancelled at each await of the core, more than once,   *)
(* the awaits of its own clean-up included; the worker may fail or die at  *)
(* any moment, and so may the core.  Left out: the contents of a video,    *)
(* what the probe looks at, and the limits of size, space and time, each   *)
(* of which is a way to fail.                                              *)
(***************************************************************************)
CONSTANT Clips

VARIABLES
  up,           \* a core runs
  at,           \* where its capture is suspended
  clip,         \* the identifier of that capture, at most one
  begun,        \* the identifiers given so far
  interrupted,  \* command was cancelled as it could not stop at once
  report,       \* what the worker has reported to command
  worker,       \* the worker process of an identifier
  pending,      \* its pending file
  final,        \* its clip
  crashed,      \* ghost: captures whose core died
  unbound       \* ghost: workers that bound themselves after their core had died

coreVars == <<up, at, clip, begun, interrupted, report>>
ghostVars == <<crashed, unbound>>
vars == <<coreVars, worker, pending, final, ghostVars>>

Init ==
  /\ up = TRUE /\ at = "idle" /\ clip = {} /\ begun = {} /\ interrupted = FALSE /\ report = "none"
  /\ worker = [c \in Clips |-> "none"]
  /\ pending = [c \in Clips |-> "none"] /\ final = [c \in Clips |-> "none"]
  /\ crashed = {} /\ unbound = {}

Ended == {"none", "reported", "dead"}
Capturing == {"granted", "writing", "whole"}

Become(c, state) == worker' = [worker EXCEPT ![c] = state]

Unlink(c) == pending' = [pending EXCEPT ![c] = "none"]

\* The end of capture without a clip.
Discard(c) == Unlink(c) /\ at' = "idle" /\ clip' = {}

--------------------------------------------------------------------------------
(* ScreenRecorder.capture, up to the worker's start                          *)

\* A second capture is refused while one is active.
Capture ==
  /\ up /\ at = "idle" /\ at' = "probing"
  /\ UNCHANGED <<up, clip, begun, interrupted, report, worker, pending, final, ghostVars>>

\* Not available, too little space, or cancelled.
Unavailable ==
  /\ at = "probing" /\ at' = "idle"
  /\ UNCHANGED <<up, clip, begun, interrupted, report, worker, pending, final, ghostVars>>

Begin(c) ==
  /\ at = "probing" /\ c \notin begun
  /\ at' = "spawning" /\ clip' = {c} /\ begun' = begun \cup {c}
  /\ interrupted' = FALSE /\ report' = "none"
  /\ UNCHANGED <<up, worker, pending, final, ghostVars>>

--------------------------------------------------------------------------------
(* command                                                                   *)

Fork(c) ==
  /\ at = "spawning" /\ c \in clip /\ worker[c] = "none" /\ Become(c, "starting")
  /\ UNCHANGED <<coreVars, pending, final, ghostVars>>

\* A cancellation that came before the process existed takes effect now.
Spawned(c) ==
  /\ at = "spawning" /\ c \in clip /\ worker[c] # "none"
  /\ at' = IF interrupted THEN "cleaning" ELSE "reading"
  /\ UNCHANGED <<up, clip, begun, interrupted, report, worker, pending, final, ghostVars>>

SpawnFails(c) ==
  /\ at = "spawning" /\ c \in clip /\ worker[c] = "none" /\ at' = "cleaning"
  /\ UNCHANGED <<up, clip, begun, interrupted, report, worker, pending, final, ghostVars>>

\* The process has exited and its pipes are at their end.
Collect(c) ==
  /\ at = "reading" /\ c \in clip /\ worker[c] \in Ended
  /\ at' = "cleaning" /\ report' = IF worker[c] = "reported" THEN "clip" ELSE "error"
  /\ UNCHANGED <<up, clip, begun, interrupted, worker, pending, final, ghostVars>>

\* The timeout of the command, or its output limit.
GiveUp ==
  /\ at = "reading" /\ at' = "cleaning" /\ report' = "error"
  /\ UNCHANGED <<up, clip, begun, interrupted, worker, pending, final, ghostVars>>

Cancel ==
  /\ at \in {"spawning", "reading", "cleaning"}
  /\ interrupted' = TRUE /\ at' = IF at = "reading" THEN "cleaning" ELSE at
  /\ UNCHANGED <<up, clip, begun, report, worker, pending, final, ghostVars>>

Kill(c) ==
  /\ at = "cleaning" /\ c \in clip /\ worker[c] \notin Ended /\ Become(c, "dead")
  /\ UNCHANGED <<coreVars, pending, final, ghostVars>>

\* The clean-up waits for the end of the process, cancelled or not.
Cleaned(c) ==
  /\ at = "cleaning" /\ c \in clip /\ worker[c] \in Ended
  /\ IF report = "clip" /\ ~interrupted
       THEN at' = "verifying" /\ UNCHANGED <<clip, pending>>
       ELSE Discard(c)
  /\ UNCHANGED <<up, begun, interrupted, report, worker, final, ghostVars>>

--------------------------------------------------------------------------------
(* ScreenRecorder.capture, the verification, and delete                      *)

Publish(c) ==
  /\ at = "verifying" /\ c \in clip /\ pending[c] # "none" /\ final[c] = "none"
  /\ final' = [final EXCEPT ![c] = pending[c]] /\ Discard(c)
  /\ UNCHANGED <<up, begun, interrupted, report, worker, ghostVars>>

Reject(c) ==
  /\ at = "verifying" /\ c \in clip /\ Discard(c)
  /\ UNCHANGED <<up, begun, interrupted, report, worker, final, ghostVars>>

\* A cancellation waits for the thread that reads the file.
CancelVerification ==
  /\ at = "verifying" /\ at' = "settling"
  /\ UNCHANGED <<up, clip, begun, interrupted, report, worker, pending, final, ghostVars>>

Settled(c) ==
  /\ at = "settling" /\ c \in clip /\ Discard(c)
  /\ UNCHANGED <<up, begun, interrupted, report, worker, final, ghostVars>>

Delete(c) ==
  /\ up /\ final[c] # "none" /\ final' = [final EXCEPT ![c] = "none"]
  /\ UNCHANGED <<coreVars, worker, pending, ghostVars>>

--------------------------------------------------------------------------------
(* The worker                                                                *)

\* main: the parent is read before the life is bound to the parent's, and compared
\* afterwards.  A worker whose core had died by then takes its successor for the core.
ReadParent(c) ==
  /\ worker[c] = "starting" /\ Become(c, "asking")
  /\ unbound' = IF c \in crashed THEN unbound \cup {c} ELSE unbound
  /\ UNCHANGED <<coreVars, pending, final, crashed>>

Bind(c) ==
  /\ worker[c] = "asking"
  /\ Become(c, IF c \in crashed \ unbound THEN "dead" ELSE "bound")
  /\ UNCHANGED <<coreVars, pending, final, ghostVars>>

Grant(c) ==
  /\ worker[c] = "bound" /\ Become(c, "granted")
  /\ UNCHANGED <<coreVars, pending, final, ghostVars>>

Open(c) ==
  /\ worker[c] = "granted" /\ Become(c, "writing")
  /\ pending' = [pending EXCEPT ![c] = "partial"]
  /\ UNCHANGED <<coreVars, final, ghostVars>>

\* The encoder has finished, and the container has been inspected.
Finish(c) ==
  /\ worker[c] = "writing" /\ Become(c, "whole")
  /\ pending' = [pending EXCEPT ![c] = "whole"]
  /\ UNCHANGED <<coreVars, final, ghostVars>>

\* The session of the portal is closed first.
Report(c) ==
  /\ worker[c] = "whole" /\ c \notin crashed /\ Become(c, "reported")
  /\ UNCHANGED <<coreVars, pending, final, ghostVars>>

\* Anything goes wrong, the report to a core that has died included.
WorkerFails(c) ==
  /\ worker[c] \in {"bound"} \cup Capturing /\ Become(c, "dead") /\ Unlink(c)
  /\ UNCHANGED <<coreVars, final, ghostVars>>

WorkerDies(c) ==
  /\ worker[c] \notin Ended /\ Become(c, "dead")
  /\ UNCHANGED <<coreVars, pending, final, ghostVars>>

--------------------------------------------------------------------------------
(* The core's end                                                            *)

Bound(c) == c \in clip /\ worker[c] \in {"bound"} \cup Capturing

\* The kernel kills a worker that has bound its life.
Crash ==
  /\ up /\ up' = FALSE /\ at' = "idle" /\ clip' = {} /\ crashed' = crashed \cup clip
  /\ worker' = [c \in Clips |-> IF Bound(c) THEN "dead" ELSE worker[c]]
  /\ UNCHANGED <<begun, interrupted, report, pending, final, unbound>>

Restart ==
  /\ ~up /\ up' = TRUE
  /\ UNCHANGED <<at, clip, begun, interrupted, report, worker, pending, final, ghostVars>>

Next ==
  \/ Capture \/ Unavailable \/ GiveUp \/ Cancel \/ CancelVerification \/ Crash \/ Restart
  \/ \E c \in Clips :
       \/ Begin(c) \/ Fork(c) \/ Spawned(c) \/ SpawnFails(c) \/ Collect(c) \/ Kill(c) \/ Cleaned(c)
       \/ Publish(c) \/ Reject(c) \/ Settled(c) \/ Delete(c)
       \/ ReadParent(c) \/ Bind(c) \/ Grant(c) \/ Open(c) \/ Finish(c) \/ Report(c)
       \/ WorkerFails(c) \/ WorkerDies(c)

Spec == Init /\ [][Next]_vars

--------------------------------------------------------------------------------
(* Properties *)

\* NothingLeft (capture, command): a capture that has returned, however often and
\* wherever it was cancelled, has left no worker and no pending file, and no worker
\* creates one later.  A crash of the core leaves the file for good.
NothingLeft ==
  \A c \in Clips \ (clip \cup crashed) : worker[c] \in Ended /\ pending[c] = "none"

\* GrantOwned (main): a screen is captured only by the worker of the capture in
\* progress, and so by one at most, even when the core is killed; but for a worker
\* that was started so late that it took another process for its core.
GrantOwned == \A c \in Clips \ unbound : worker[c] \in Capturing => c \in clip

\* WholeClips (_verify, path.rename): a clip that is listed is a finished recording
\* to which nobody writes any more.
WholeClips ==
  \A c \in Clips : final[c] # "none" => final[c] = "whole" /\ worker[c] = "reported"
================================================================================
