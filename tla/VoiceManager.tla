------------------------------ MODULE VoiceManager ------------------------------
(***************************************************************************)
(* The voice manager (voice/manager.py): capture of the user's speech from *)
(* a process of its own or from the ambient stream of the wake word, its   *)
(* transcription and hand-over as a command, spoken replies, and the       *)
(* stops, privacy changes and typed requests that cut across them.  The    *)
(* manager is a set of coroutines over shared fields: a step runs from one *)
(* await to the next.  A capture is ended under _capture_stop_lock, which  *)
(* is held until the command of its transcript has been answered; a speech *)
(* holds _tts_lock until its follow-up capture has been started.           *)
(***************************************************************************)
EXTENDS CoreState, Naturals, FiniteSets

CONSTANTS
  Listens,     \* requests to start a capture
  Wakes,       \* detections of the wake word
  Closers,     \* requests to end the capture
  Finishers,   \* tasks a capture starts to end itself
  Speeches,    \* texts to speak
  Reminders,   \* the speeches of due reminders
  Stops,       \* stops of everything
  Switches,    \* stops that go on to change the privacy mode
  Typed,       \* typed requests
  Pauses,      \* changes of the wake pause, of gaming and of memory pressure
  Critical,    \* the pauses for critical memory pressure, which abort a capture
  supervisor,  \* the task that keeps the ambient stream of the wake word
  Workloads,   \* what happens in one behaviour
  NoTask

Starters == Listens \cup Wakes \cup Speeches
Enders == Closers \cup Finishers \cup {supervisor}
Requests == Typed \cup Closers \cup Finishers
Tasks == Starters \cup Enders \cup Stops \cup Typed \cup Pauses
Transcripts == {"noise", "empty", "request", "close", "stop phrase", "stop everything"}

\* A coroutine is of one kind.
ASSUME VoiceAssumption ==
  /\ Reminders \subseteq Speeches /\ Switches \subseteq Stops /\ Critical \subseteq Pauses
  /\ NoTask \notin Tasks
  /\ LET kinds == <<Listens, Wakes, Closers, Finishers, {supervisor}, Speeches, Stops, Typed, Pauses>>
     IN \A i, j \in 1..9 : i # j => kinds[i] \cap kinds[j] = {}
  /\ Workloads \subseteq [tasks : SUBSET Tasks, heard : SUBSET Transcripts,
                          incidents : SUBSET {"microphone", "synthesis", "focus", "ambient"}]

VARIABLES
  core,         \* the state machine shared with the rest of the core
  at,           \* where each task is
  capture,      \* the fields capture_*: mic is capture_process, loop is capture_task
  open,         \* the recording processes that are running, by the task that started them
  loops,        \* the capture loops that are running
  taken,        \* the process the holder of _capture_stop_lock is ending
  ambient,      \* wake_audio_process is running
  stopLock, ttsLock,
  autoStop,     \* auto_stop_task
  speech,       \* speaking, speech_pending, tts_cancel_reason, and whether tts_process runs
  private, paused,
  interactive,  \* the request that owns _interactive_task
  revoked,      \* requests, and speeches waiting for _tts_lock, of an earlier action generation
  scope,        \* the stops and privacy changes so far, and what each reminder saw
  late,         \* captures that were being started while the microphone was denied
  overlapped,   \* a capture was started over another one
  orphaned,     \* a wake word gave up a capture that another task had started since
  deserted,     \* a task was cancelled while it ended a capture
  untouched,    \* a spoken request was answered without the core leaving TRANSCRIBING
  silenced,     \* speeches that were cut short while they held _tts_lock, and reminders
                \* a stop found claimed; the others a stop overtook are in revoked
  workload

captureVars == <<capture, open, loops, taken, ambient, stopLock, autoStop>>
speechVars == <<speech, ttsLock, silenced>>
modeVars == <<private, paused, scope>>
requestVars == <<interactive, revoked>>
ghostVars == <<late, overlapped, orphaned, deserted, untouched>>
vars == <<core, at, captureVars, speechVars, modeVars, requestVars, ghostVars, workload>>

NoCapture == [on |-> FALSE, origin |-> "none", finishing |-> FALSE, mic |-> NoTask, loop |-> NoTask]
NoSpeech == [speaking |-> FALSE, pending |-> FALSE, cancelled |-> FALSE, sounding |-> FALSE]

Init ==
  /\ core = "DORMANT"
  /\ at = [t \in Tasks |-> IF t = supervisor THEN "connecting" ELSE "new"]
  /\ capture = NoCapture /\ open = {} /\ loops = {} /\ taken = NoTask /\ ambient = FALSE
  /\ stopLock = NoTask /\ ttsLock = NoTask /\ autoStop = NoTask
  /\ speech = NoSpeech
  /\ private = FALSE /\ paused = FALSE
  /\ interactive = NoTask /\ revoked = {}
  /\ scope = [now |-> 0, seen |-> [r \in Reminders |-> 0]]
  /\ late = {} /\ overlapped = FALSE /\ orphaned = FALSE /\ deserted = FALSE /\ untouched = FALSE
  /\ silenced = {}
  /\ workload \in Workloads

--------------------------------------------------------------------------------
(* Helpers *)

Comes(t) == at[t] = "new" /\ t \in workload.tasks
Incident(i) == i \in workload.incidents
Goto(t, place) == at' = [at EXCEPT ![t] = place]
Done(t) == Goto(t, "done")
Busy(t) == at[t] \notin {"new", "done"}

Dormant == core' = "DORMANT"
DormantFrom(state) == core' = IF core = state THEN "DORMANT" ELSE core

WakeAllowed == ~private /\ ~paused

\* A task that is cancelled at an await gives up the locks it holds.
Released(t) == stopLock' = IF stopLock = t THEN NoTask ELSE stopLock
Disowned(t) == interactive' = IF interactive = t THEN NoTask ELSE interactive

Finishing == autoStop # NoTask /\ Busy(autoStop)

\* A capture that has ended itself goes on in a task of its own.
Spare == {f \in Finishers : at[f] = "new"}
StartFinisher(place) ==
  LET f == CHOOSE g \in Spare : TRUE
  IN Spare # {} /\ autoStop' = f /\ at' = [place EXCEPT ![f] = "closing"]

--------------------------------------------------------------------------------
(* Starting a capture: start_capture, _start_follow_up, _activate_capture.   *)
(* Nothing is checked again after the awaits.                                *)

\* Leaving speak releases its lock, whatever became of the follow-up.
StarterDone(t) ==
  /\ Done(t)
  /\ ttsLock' = IF ttsLock = t THEN NoTask ELSE ttsLock

\* The capture is marked active before the transition to LISTENING, which may raise.
Activate(t, origin, mic) ==
  /\ capture' = [capture EXCEPT !.on = TRUE, !.origin = origin, !.finishing = FALSE,
                                !.mic = IF mic = NoTask THEN @ ELSE mic,
                                !.loop = IF mic # NoTask /\ CanMove(core, "LISTENING") THEN mic ELSE @]
  /\ core' = IF CanMove(core, "LISTENING") THEN "LISTENING" ELSE core
  /\ late' = IF private THEN late \cup {t} ELSE late
  /\ overlapped' = (overlapped \/ capture.on \/ capture.mic # NoTask)

StartCapture(t) ==
  /\ IF private \/ capture.on \/ core # "DORMANT"
     THEN StarterDone(t)
     ELSE Goto(t, "source") /\ UNCHANGED ttsLock
  /\ UNCHANGED <<core, captureVars, speech, silenced, modeVars, requestVars, ghostVars, workload>>

Listen(t) == t \in Listens /\ Comes(t) /\ StartCapture(t)

\* While other sound comes from the loudspeakers a follow-up is deferred.
FollowUp(t) ==
  /\ at[t] = "following"
  /\ \/ StartCapture(t)
     \/ /\ StarterDone(t)
        /\ UNCHANGED <<core, captureVars, speech, silenced, modeVars, requestVars, ghostVars, workload>>

SourceFound(t) ==
  /\ at[t] = "source"
  /\ IF ambient
     THEN Activate(t, "ambient", NoTask) /\ StarterDone(t)
     ELSE Goto(t, "opening") /\ UNCHANGED <<core, capture, late, overlapped, ttsLock>>
  /\ UNCHANGED <<open, loops, taken, ambient, stopLock, autoStop, speech, silenced, modeVars,
                 requestVars, orphaned, deserted, untouched, workload>>

Opened(t) ==
  /\ at[t] = "opening"
  /\ \/ /\ Activate(t, "manual", t)
        /\ open' = open \cup {t}
        /\ loops' = IF CanMove(core, "LISTENING") THEN loops \cup {t} ELSE loops
     \/ /\ Incident("microphone")
        /\ UNCHANGED <<core, capture, late, overlapped, open, loops>>
  /\ StarterDone(t)
  /\ UNCHANGED <<taken, ambient, stopLock, autoStop, speech, silenced, modeVars, requestVars,
                 orphaned, deserted, untouched, workload>>

--------------------------------------------------------------------------------
(* The microphone: _capture_loop, _analyze_capture_chunk, _wake_audio_loop   *)

EndsCapture_Heard(t, done) == capture.on /\ capture.mic = t /\ done
EndsCapture(t, done) == capture.on /\ capture.mic = t /\ (done \/ ~capture.finishing)

\* A loop of a process that is no longer capture_process ends without a finisher.
LoopEnds(t, stillOpen, done) ==
  /\ loops' = loops \ {t}
  /\ open' = IF stillOpen THEN open ELSE open \ {t}
  /\ IF EndsCapture(t, done)
     THEN StartFinisher(at) /\ capture' = [capture EXCEPT !.finishing = TRUE]
     ELSE /\ capture' = [capture EXCEPT !.finishing = @ \/ done]
          /\ UNCHANGED <<at, autoStop>>
  /\ UNCHANGED <<core, taken, ambient, stopLock, speechVars, modeVars, requestVars, ghostVars, workload>>

\* The end of speech, a limit or input that is not speech.
SpeechHeard(t) == t \in loops /\ capture.on /\ LoopEnds(t, FALSE, TRUE)

\* The stream ends, as it does when a stop ends its process, or it stalls and leaves
\* the process running.
StreamFails(t) ==
  /\ t \in loops /\ (Incident("microphone") \/ taken = t)
  /\ \E stillOpen \in BOOLEAN : LoopEnds(t, stillOpen, FALSE)

AmbientHeard ==
  /\ ambient /\ capture.on /\ capture.origin = "ambient" /\ ~capture.finishing
  /\ StartFinisher(at) /\ capture' = [capture EXCEPT !.finishing = TRUE]
  /\ UNCHANGED <<core, open, loops, taken, ambient, stopLock, speechVars, modeVars, requestVars,
                 ghostVars, workload>>

--------------------------------------------------------------------------------
(* Ending a capture: stop_capture, _finish_automatic_capture                 *)

Close(t) ==
  /\ t \in Closers /\ Comes(t) /\ Goto(t, "closing")
  /\ UNCHANGED <<core, captureVars, speechVars, modeVars, requestVars, ghostVars, workload>>

EnderDone_Locked(t) ==
  UNCHANGED <<stopLock, taken>> /\ Goto(t, IF t = supervisor THEN "connecting" ELSE "done")

\* The supervisor goes back to its loop; the others are done.
EnderDone(t) ==
  /\ stopLock' = NoTask /\ taken' = NoTask
  /\ Goto(t, IF t = supervisor THEN "connecting" ELSE "done")

\* What the collected audio is.  A transition that raises ends the task, and a
\* finisher recovers the core from it.
Collect(t) ==
  /\ capture' = NoCapture
  /\ \/ /\ DormantFrom("LISTENING") /\ EnderDone(t)
     \/ /\ t # supervisor
        /\ IF CanMove(core, "TRANSCRIBING")
           THEN core' = "TRANSCRIBING" /\ Goto(t, "transcribing") /\ stopLock' = t /\ taken' = NoTask
           ELSE core' = (IF t \in Finishers THEN "DORMANT" ELSE core) /\ EnderDone(t)

TakeCapture(t) ==
  /\ at[t] = "closing" /\ stopLock = NoTask
  /\ \/ /\ ~capture.on /\ EnderDone(t) /\ UNCHANGED <<core, capture>>
     \/ /\ capture.on /\ capture.origin = "ambient" /\ Collect(t)
     \/ /\ capture.on /\ capture.origin = "manual"
        /\ capture' = [capture EXCEPT !.finishing = TRUE]
        /\ stopLock' = t /\ taken' = capture.mic /\ Goto(t, "emptying")
        /\ UNCHANGED core
  /\ UNCHANGED <<open, loops, ambient, autoStop, speechVars, modeVars, requestVars, ghostVars, workload>>

Emptied_Running(t) ==
  /\ at[t] = "emptying" /\ Collect(t)
  /\ UNCHANGED <<open, loops, ambient, autoStop, speechVars, modeVars, requestVars, ghostVars, workload>>

Emptied(t) ==
  /\ at[t] = "emptying" /\ Collect(t)
  /\ open' = open \ {taken} /\ loops' = loops \ {taken}
  /\ UNCHANGED <<ambient, autoStop, speechVars, modeVars, requestVars, ghostVars, workload>>

\* The words of a transcript decide who answers it.  A request to close an
\* application is put to a second model first.  A stop phrase cancels pending
\* work without touching the voice; "stop everything" is no such phrase, and is
\* dispatched, like any other request, with the lock held.
Transcribed(t) ==
  /\ at[t] = "transcribing"
  /\ \E words \in workload.heard :
       \/ words \in {"noise", "empty"} /\ Dormant /\ EnderDone(t)
       \/ words = "request" /\ Goto(t, "asking") /\ UNCHANGED <<core, stopLock, taken>>
       \/ words = "close" /\ Goto(t, "verifying") /\ UNCHANGED <<core, stopLock, taken>>
       \/ words = "stop phrase" /\ Goto(t, "cancelling") /\ UNCHANGED <<core, stopLock, taken>>
       \/ words = "stop everything" /\ Goto(t, "stopping") /\ UNCHANGED <<core, stopLock, taken>>
  /\ UNCHANGED <<capture, open, loops, ambient, autoStop, speechVars, modeVars, requestVars,
                 ghostVars, workload>>

Verified(t) ==
  /\ at[t] = "verifying"
  /\ \/ Goto(t, "asking") /\ UNCHANGED <<core, stopLock, taken>>
     \/ Dormant /\ EnderDone(t)
  /\ UNCHANGED <<capture, open, loops, ambient, autoStop, speechVars, modeVars, requestVars,
                 ghostVars, workload>>

--------------------------------------------------------------------------------
(* Speech: speak, stop_speaking                                              *)

SpeechActive == speech.speaking \/ speech.pending
InSpeech == {s \in Speeches : at[s] \in {"synthesis", "starting", "playing"}}

\* The speeches that wait behind another for _tts_lock.
Waiting == {s \in Speeches : at[s] = "queued" /\ ttsLock # NoTask}

\* A speech that is refused or fails is cleaned up and gives up the lock.
SpeechOver(s, next) ==
  /\ speech' = [NoSpeech EXCEPT !.cancelled = speech.cancelled]
  /\ Goto(s, next)
  /\ ttsLock' = IF next = "done" THEN NoTask ELSE s

\* The lock is free: the core must be at rest.  An earlier cancellation is forgotten.
Begin(s) ==
  IF core = "DORMANT"
  THEN ttsLock' = s /\ speech' = [NoSpeech EXCEPT !.pending = TRUE] /\ Goto(s, "synthesis")
  ELSE Done(s) /\ UNCHANGED <<ttsLock, speech>>

\* A response or a request to speak; it may come at any time.
Say(s) ==
  /\ s \in Speeches \ Reminders /\ Comes(s) /\ Goto(s, "queued")
  /\ UNCHANGED <<core, captureVars, speechVars, modeVars, requestVars, ghostVars, workload>>

\* A reminder that is due is claimed in the generation and privacy mode of the
\* moment, and looked up again in a thread before it is spoken.
ClaimReminder(s) ==
  /\ s \in Reminders /\ Comes(s)
  /\ core = "DORMANT" /\ ~speech.pending /\ ~private
  /\ scope' = [scope EXCEPT !.seen[s] = scope.now] /\ Goto(s, "claimed")
  /\ UNCHANGED <<core, captureVars, speechVars, private, paused, requestVars, ghostVars, workload>>

Changing == \E t \in Switches : Busy(t)

SpeakReminder(s) ==
  /\ at[s] = "claimed"
  /\ \/ /\ scope.seen[s] # scope.now \/ Changing
        /\ Done(s) /\ UNCHANGED <<ttsLock, speech>>
     \/ /\ scope.seen[s] = scope.now /\ ~Changing
        /\ IF ttsLock = NoTask THEN Begin(s) ELSE Goto(s, "queued") /\ UNCHANGED <<ttsLock, speech>>
  /\ UNCHANGED <<core, captureVars, silenced, modeVars, requestVars, ghostVars, workload>>

BeginSpeech(s) ==
  /\ at[s] = "queued" /\ ttsLock = NoTask /\ Begin(s)
  /\ UNCHANGED <<core, captureVars, silenced, modeVars, requestVars, ghostVars, workload>>

Synthesised(s) ==
  /\ at[s] = "synthesis"
  /\ \/ speech.cancelled /\ SpeechOver(s, "done")
     \/ Incident("synthesis") /\ SpeechOver(s, "done")
     \/ ~speech.cancelled /\ Goto(s, "starting") /\ UNCHANGED <<ttsLock, speech>>
  /\ UNCHANGED <<core, captureVars, silenced, modeVars, requestVars, ghostVars, workload>>

\* Whoever waits for the end of a player has run before the next one is started.
Ended == speech' = [speech EXCEPT !.sounding = FALSE]
Awaited == \E t \in Tasks : at[t] \in {"silencing", "hushing", "barging"}

\* The player has started.  The core may have begun to listen meanwhile.
MayPlay_Cancelled == CanMove(core, "SPEAKING")
MayPlay == ~speech.cancelled /\ CanMove(core, "SPEAKING")
PlayerStarted(s) ==
  /\ at[s] = "starting" /\ ~Awaited
  /\ IF MayPlay
     THEN /\ speech' = [speech EXCEPT !.speaking = TRUE, !.sounding = TRUE]
          /\ core' = "SPEAKING" /\ Goto(s, "playing") /\ UNCHANGED ttsLock
     ELSE SpeechOver(s, "done") /\ UNCHANGED core
  /\ UNCHANGED <<captureVars, silenced, modeVars, requestVars, ghostVars, workload>>

\* A speech that was heard to its end may open a window for a follow-up.
Played(s) ==
  /\ at[s] = "playing"
  /\ DormantFrom("SPEAKING")
  /\ \E next \in {"done", "following"} :
       /\ next = "following" =>
            ~speech.cancelled /\ ~private /\ core' = "DORMANT" /\ s \notin Reminders
       /\ SpeechOver(s, next)
  /\ UNCHANGED <<captureVars, silenced, modeVars, requestVars, ghostVars, workload>>

\* stop_speaking from a core that is in state now: it waits for a player to end,
\* and otherwise returns at once.
Silence(t, now, waiting, next) ==
  /\ speech' = [speech EXCEPT !.cancelled = @ \/ SpeechActive]
  /\ silenced' = silenced \cup InSpeech
  /\ IF speech.sounding THEN Goto(t, waiting) /\ core' = now
     ELSE /\ core' = IF SpeechActive /\ now = "SPEAKING" THEN "DORMANT" ELSE now
          /\ Goto(t, next)

--------------------------------------------------------------------------------
(* Requests: _prepare_interactive_request, _submit_action_clauses, and the   *)
(* hand-over of a transcript.  The request in progress owns interactive.     *)

FinishRequest(t) ==
  IF t \in Typed THEN Done(t) /\ UNCHANGED <<stopLock, taken>> ELSE EnderDone(t)

\* A second request is answered that the first is still being worked on.
Ask(t) ==
  IF interactive = NoTask
  THEN interactive' = t /\ Goto(t, "asked") /\ UNCHANGED <<stopLock, taken>>
  ELSE FinishRequest(t) /\ UNCHANGED interactive

AskSpoken(t) ==
  /\ at[t] = "asking" /\ Ask(t)
  /\ untouched' = (untouched \/ interactive # NoTask)
  /\ UNCHANGED <<core, capture, open, loops, ambient, autoStop, speechVars, modeVars, revoked,
                 late, overlapped, orphaned, deserted, workload>>

\* A typed request first ends the capture, then the speech.
AskTyped(t, now) ==
  IF speech.sounding
  THEN Silence(t, now, "silencing", "asked") /\ UNCHANGED <<interactive, stopLock, taken>>
  ELSE /\ speech' = [speech EXCEPT !.cancelled = @ \/ SpeechActive]
       /\ silenced' = silenced \cup InSpeech
       /\ core' = now /\ Ask(t)

Type(t) ==
  /\ t \in Typed /\ Comes(t)
  /\ IF capture.on
     THEN /\ Goto(t, "aborting")
          /\ UNCHANGED <<core, speech, silenced, interactive, stopLock, taken>>
     ELSE AskTyped(t, core)
  /\ UNCHANGED <<capture, open, loops, ambient, autoStop, ttsLock, modeVars, revoked, ghostVars,
                 workload>>

\* A request of an earlier generation, and one that needs no reasoning, is answered
\* without touching the core; a core that cannot think fails the request.
Think(t) ==
  /\ at[t] = "asked"
  /\ \/ /\ FinishRequest(t) /\ interactive' = NoTask /\ UNCHANGED core
        /\ untouched' = (untouched \/ t \notin Typed)
     \/ /\ t \notin revoked /\ CanMove(core, "THINKING") /\ UNCHANGED untouched
        /\ core' = "THINKING" /\ Goto(t, "thinking") /\ UNCHANGED <<interactive, stopLock, taken>>
     \/ /\ t \notin revoked /\ ~CanMove(core, "THINKING") /\ UNCHANGED untouched
        /\ Dormant /\ FinishRequest(t) /\ interactive' = NoTask
  /\ UNCHANGED <<capture, open, loops, ambient, autoStop, speechVars, modeVars, revoked, late,
                 overlapped, orphaned, deserted, workload>>

\* A completed answer leaves a core that is speaking alone; a failed one does not.
AnswerRequest(t) ==
  /\ at[t] = "thinking" /\ FinishRequest(t) /\ interactive' = NoTask
  /\ core' \in {"DORMANT", IF core = "SPEAKING" THEN core ELSE "DORMANT"}
  /\ UNCHANGED <<capture, open, loops, ambient, autoStop, speechVars, modeVars, revoked, ghostVars,
                 workload>>

--------------------------------------------------------------------------------
(* Stops: _stop_all_actions, end_conversation, abort_capture                 *)

\* A stop starts a new generation: requests of the earlier one must not go on.  A
\* speech that waits for _tts_lock belongs to the earlier one as well, but nothing
\* in its way looks at the generation.
BeginStop(t) ==
  /\ \/ t \in Stops /\ Comes(t) /\ (t \in Switches => ~Changing) /\ Goto(t, "revoking")
     \/ at[t] = "stopping" /\ Goto(t, "revoking")
     \/ at[t] = "cancelling" /\ Goto(t, "settling")
  /\ scope' = [scope EXCEPT !.now = @ + 1]
  /\ revoked' = revoked \cup ({interactive} \ {NoTask}) \cup Waiting
  /\ silenced' = silenced \cup {r \in Reminders : at[r] = "claimed"}
  /\ UNCHANGED <<core, captureVars, speech, ttsLock, private, paused, interactive, ghostVars, workload>>

\* Reasoning in progress is cancelled, but never a plan.
InterruptReasoning(t, next) ==
  \/ /\ interactive \notin {NoTask, t} /\ core = "THINKING"
     /\ at' = [at EXCEPT ![interactive] = "done", ![t] = next]
     /\ interactive' = NoTask /\ Dormant /\ Released(interactive)
  \/ Goto(t, next) /\ UNCHANGED <<interactive, core, stopLock>>

StopReasoning(t) ==
  /\ \/ at[t] = "revoking" /\ InterruptReasoning(t, "quietening")
     \/ at[t] = "settling" /\ InterruptReasoning(t, "settled")
  /\ UNCHANGED <<capture, open, loops, taken, ambient, autoStop, speechVars, modeVars, revoked,
                 ghostVars, workload>>

\* A spoken stop phrase ends with its transcript.
Settled(t) ==
  /\ at[t] = "settled" /\ Dormant /\ EnderDone(t)
  /\ UNCHANGED <<capture, open, loops, ambient, autoStop, speechVars, modeVars, requestVars,
                 ghostVars, workload>>

Quieten(t) ==
  /\ at[t] = "quietening" /\ Silence(t, core, "silencing", "aborting")
  /\ UNCHANGED <<captureVars, ttsLock, modeVars, requestVars, ghostVars, workload>>

\* The player has ended.
Silenced(t) ==
  /\ \/ /\ at[t] = "silencing" /\ t \notin Typed
        /\ Goto(t, "aborting") /\ UNCHANGED <<interactive, stopLock, taken>>
     \/ at[t] = "silencing" /\ t \in Typed /\ Ask(t)
     \/ at[t] = "hushing" /\ Goto(t, "leaving") /\ UNCHANGED <<interactive, stopLock, taken>>
  /\ DormantFrom("SPEAKING") /\ Ended
  /\ UNCHANGED <<capture, open, loops, ambient, autoStop, ttsLock, silenced, modeVars, revoked,
                 ghostVars, workload>>

\* What follows on abort_capture, from a core in state now.
AfterAbort(t, now) ==
  \/ /\ at[t] \in {"aborting", "dropping"} /\ t \notin Typed
     /\ core' = now
     /\ Goto(t, IF t \in Switches THEN "switching" ELSE IF t \in Pauses THEN "refreshing" ELSE "done")
     /\ stopLock' = NoTask /\ taken' = NoTask /\ UNCHANGED <<speech, silenced, interactive>>
  \/ /\ at[t] \in {"aborting", "dropping"} /\ t \in Typed
     /\ IF speech.sounding
        THEN Silence(t, now, "silencing", "asked") /\ UNCHANGED interactive
        ELSE /\ speech' = [speech EXCEPT !.cancelled = @ \/ SpeechActive]
             /\ silenced' = silenced \cup InSpeech /\ core' = now
             /\ IF interactive = NoTask THEN interactive' = t /\ Goto(t, "asked")
                ELSE Done(t) /\ UNCHANGED interactive
     /\ stopLock' = NoTask /\ taken' = NoTask
  \/ /\ at[t] \in {"purging", "draining"}
     /\ Silence(t, now, "hushing", "leaving")
     /\ stopLock' = NoTask /\ taken' = NoTask /\ UNCHANGED interactive

Aborted_Listening == core
Aborted == IF core = "LISTENING" THEN "DORMANT" ELSE core

\* The lock waits for a transcription, and its command, to be over.
Abort(t) ==
  /\ at[t] \in {"aborting", "purging"} /\ stopLock = NoTask
  /\ IF ~capture.on
     THEN AfterAbort(t, core) /\ UNCHANGED capture
     ELSE IF capture.origin = "ambient" /\ capture.loop = NoTask
     THEN AfterAbort(t, Aborted) /\ capture' = NoCapture
     ELSE /\ capture' = [capture EXCEPT !.on = FALSE, !.finishing = FALSE, !.origin = "none"]
          /\ stopLock' = t /\ taken' = (IF capture.origin = "manual" THEN capture.mic ELSE NoTask)
          /\ Goto(t, IF at[t] = "aborting" THEN "dropping" ELSE "draining")
          /\ UNCHANGED <<core, speech, silenced, interactive>>
  /\ UNCHANGED <<open, loops, ambient, autoStop, ttsLock, modeVars, revoked, ghostVars, workload>>

Dropped(t) ==
  /\ at[t] \in {"dropping", "draining"} /\ AfterAbort(t, Aborted)
  /\ open' = open \ {taken} /\ loops' = loops \ {capture.loop}
  /\ capture' = [capture EXCEPT !.mic = NoTask, !.loop = NoTask]
  /\ UNCHANGED <<ambient, autoStop, ttsLock, modeVars, revoked, ghostVars, workload>>

--------------------------------------------------------------------------------
(* Privacy, pauses and the wake supervisor                                   *)

\* _refresh_wake_supervisor: the supervisor is started or cancelled, with its stream.
Refresh(t, before) ==
  LET stay == WakeAllowed /\ at[supervisor] # "off"
      place == [before EXCEPT ![t] = "done"] IN
  /\ at' = IF stay THEN place
           ELSE [place EXCEPT ![supervisor] = IF WakeAllowed THEN "connecting" ELSE "off"]
  /\ ambient' = (ambient /\ WakeAllowed)

\* After the stop the mode is set and storage follows; in DO NOT LISTEN the capture
\* and the speech that have come since are stopped as well.
AfterMode_Unpurged == "refreshing"
AfterMode == IF private THEN "refreshing" ELSE "purging"
SetPrivacy(t) ==
  /\ at[t] = "switching"
  /\ private' = ~private /\ scope' = [scope EXCEPT !.now = @ + 1]
  /\ Goto(t, AfterMode)
  /\ UNCHANGED <<core, captureVars, speechVars, paused, requestVars, ghostVars, workload>>

\* A finisher that is still running is cancelled.
CancelFinisher(t) ==
  /\ at[t] = "leaving"
  /\ IF Finishing
     THEN /\ at' = [at EXCEPT ![t] = "refreshing", ![autoStop] = "done"]
          /\ Released(autoStop) /\ Disowned(autoStop)
          /\ deserted' = (deserted \/ capture.on)
     ELSE Goto(t, "refreshing") /\ UNCHANGED <<stopLock, interactive, deserted>>
  /\ UNCHANGED <<core, capture, open, loops, taken, ambient, autoStop, speechVars, modeVars, revoked,
                 late, overlapped, orphaned, untouched, workload>>

Pause(t) ==
  /\ t \in Pauses /\ Comes(t)
  /\ paused' = ~paused
  /\ Goto(t, IF t \in Critical /\ ~paused THEN "aborting" ELSE "refreshing")
  /\ UNCHANGED <<core, captureVars, speechVars, private, scope, requestVars, ghostVars, workload>>

\* A supervisor that is cancelled while it ends a capture gives up the lock.
Refreshed(t) ==
  /\ at[t] = "refreshing" /\ Refresh(t, at)
  /\ IF WakeAllowed THEN UNCHANGED <<stopLock, deserted>>
     ELSE Released(supervisor) /\ deserted' = (deserted \/ stopLock = supervisor)
  /\ UNCHANGED <<core, capture, open, loops, taken, autoStop, speechVars, modeVars, requestVars,
                 late, overlapped, orphaned, untouched, workload>>

AmbientStarts ==
  /\ at[supervisor] = "connecting"
  /\ IF WakeAllowed THEN Goto(supervisor, "on") /\ ambient' = TRUE
     ELSE Goto(supervisor, "off") /\ UNCHANGED ambient
  /\ UNCHANGED <<core, capture, open, loops, taken, stopLock, autoStop, speechVars, modeVars,
                 requestVars, ghostVars, workload>>

\* The stream or the wake worker fails: a capture that listens to it is ended, and
\* the stream is started again.
AmbientFails ==
  /\ at[supervisor] = "on" /\ Incident("ambient")
  /\ ambient' = FALSE
  /\ Goto(supervisor, IF capture.on /\ capture.origin = "ambient" THEN "closing" ELSE "connecting")
  /\ UNCHANGED <<core, capture, open, loops, taken, stopLock, autoStop, speechVars, modeVars,
                 requestVars, ghostVars, workload>>

--------------------------------------------------------------------------------
(* The wake word: _on_wake_detected                                          *)

Wake(t) ==
  /\ t \in Wakes /\ Comes(t) /\ ambient /\ WakeAllowed /\ Goto(t, "noticed")
  /\ UNCHANGED <<core, captureVars, speechVars, modeVars, requestVars, ghostVars, workload>>

\* A core that is not at rest ignores the wake word; a wake test only counts it.
Answer(t, now) ==
  IF now = "DORMANT" /\ ~capture.on
  THEN \/ /\ capture' = [capture EXCEPT !.on = TRUE, !.origin = "ambient", !.finishing = FALSE]
          /\ core' = "LISTENING"
          /\ late' = (IF private THEN late \cup {t} ELSE late)
          /\ overlapped' = (overlapped \/ capture.mic # NoTask)
          /\ Goto(t, "focusing")
       \/ Done(t) /\ core' = now /\ UNCHANGED <<capture, late, overlapped>>
  ELSE Done(t) /\ core' = now /\ UNCHANGED <<capture, late, overlapped>>

\* A transcription of the last capture and reasoning are interrupted first.
Alert(t, now) ==
  \/ /\ now = "TRANSCRIBING" /\ Finishing
     /\ at' = [at EXCEPT ![t] = "cutting", ![autoStop] = "done"]
     /\ Released(autoStop) /\ Disowned(autoStop) /\ core' = now
     /\ UNCHANGED <<capture, late, overlapped>>
  \/ /\ now = "THINKING" /\ Goto(t, "interrupting") /\ core' = now
     /\ UNCHANGED <<capture, late, overlapped, stopLock, interactive>>
  \/ /\ now # "THINKING" /\ (now = "TRANSCRIBING" => ~Finishing)
     /\ Answer(t, now) /\ UNCHANGED <<stopLock, interactive>>

\* Other sound may filter the wake word; a speech is cut short by it.
Noticed(t) ==
  /\ at[t] = "noticed"
  /\ \/ Done(t) /\ UNCHANGED <<core, capture, late, overlapped, stopLock, interactive, speech, silenced>>
     \/ /\ speech.sounding /\ Silence(t, core, "barging", "barging")
        /\ UNCHANGED <<capture, late, overlapped, stopLock, interactive>>
     \/ /\ ~speech.sounding /\ Alert(t, core)
        /\ speech' = [speech EXCEPT !.cancelled = @ \/ SpeechActive]
        /\ silenced' = silenced \cup InSpeech
  /\ UNCHANGED <<open, loops, taken, ambient, autoStop, ttsLock, modeVars, revoked, orphaned,
                 deserted, untouched, workload>>

Barged(t) ==
  /\ at[t] = "barging" /\ Alert(t, IF core = "SPEAKING" THEN "DORMANT" ELSE core)
  /\ Ended
  /\ UNCHANGED <<open, loops, taken, ambient, autoStop, ttsLock, silenced, modeVars, revoked,
                 orphaned, deserted, untouched, workload>>

Cut(t) ==
  /\ at[t] = "cutting" /\ Answer(t, "DORMANT")
  /\ UNCHANGED <<open, loops, taken, ambient, stopLock, autoStop, speechVars, modeVars, requestVars,
                 orphaned, deserted, untouched, workload>>

ReasoningCut(t) ==
  /\ at[t] = "interrupting" /\ InterruptReasoning(t, "answering")
  /\ UNCHANGED <<capture, open, loops, taken, ambient, autoStop, speechVars, modeVars, revoked,
                 ghostVars, workload>>

Answering(t) ==
  /\ at[t] = "answering" /\ Answer(t, core)
  /\ UNCHANGED <<open, loops, taken, ambient, stopLock, autoStop, speechVars, modeVars, requestVars,
                 orphaned, deserted, untouched, workload>>

\* Other media are paused; when that fails the capture is given up.
Focused(t) ==
  /\ at[t] = "focusing" /\ Done(t)
  /\ \/ UNCHANGED <<core, capture, orphaned>>
     \/ /\ Incident("focus") /\ Dormant
        /\ capture' = [capture EXCEPT !.on = FALSE, !.origin = "none", !.finishing = FALSE]
        /\ orphaned' = (orphaned \/ capture.mic # NoTask)
  /\ UNCHANGED <<open, loops, taken, ambient, stopLock, autoStop, speechVars, modeVars, requestVars,
                 late, overlapped, deserted, untouched, workload>>

--------------------------------------------------------------------------------
Arrive(t) == Listen(t) \/ Close(t) \/ Say(t) \/ ClaimReminder(t) \/ Type(t) \/ Pause(t) \/ Wake(t)

CaptureStep(t) ==
  FollowUp(t) \/ SourceFound(t) \/ Opened(t) \/ SpeechHeard(t) \/ TakeCapture(t) \/ Emptied(t)
    \/ Transcribed(t) \/ Verified(t)
SpeechStep(t) ==
  SpeakReminder(t) \/ BeginSpeech(t) \/ Synthesised(t) \/ PlayerStarted(t) \/ Played(t)
RequestStep(t) == AskSpoken(t) \/ Think(t) \/ AnswerRequest(t)
StopStep(t) ==
  StopReasoning(t) \/ Settled(t) \/ Quieten(t) \/ Silenced(t) \/ Abort(t) \/ Dropped(t)
ModeStep(t) == SetPrivacy(t) \/ CancelFinisher(t) \/ Refreshed(t)
WakeStep(t) == Noticed(t) \/ Barged(t) \/ Cut(t) \/ ReasoningCut(t) \/ Answering(t) \/ Focused(t)

Next ==
  \/ \E t \in Tasks :
       \/ Arrive(t) \/ CaptureStep(t) \/ SpeechStep(t) \/ RequestStep(t) \/ BeginStop(t)
       \/ StopStep(t) \/ ModeStep(t) \/ WakeStep(t) \/ StreamFails(t)
  \/ AmbientHeard \/ AmbientStarts \/ AmbientFails

Spec == Init /\ [][Next]_vars

--------------------------------------------------------------------------------
(* Fairness: timeouts bound every await on a process, and the limits of a    *)
(* capture every recording that is read.                                     *)

Step(t) ==
  \/ CaptureStep(t) \/ SpeechStep(t) \/ RequestStep(t) \/ StopStep(t) \/ ModeStep(t) \/ WakeStep(t)
  \/ at[t] # "new" /\ BeginStop(t)

Fairness ==
  /\ \A t \in Tasks : WF_vars(Step(t))
  /\ WF_vars(AmbientHeard) /\ WF_vars(AmbientStarts)

FairSpec == Spec /\ Fairness

--------------------------------------------------------------------------------
(* Properties *)

\* A task that waits for the lock it holds: a spoken "stop everything" is dispatched
\* under the lock its own abort of the capture needs.
SelfBlocked == \E t \in Tasks : stopLock = t /\ at[t] = "aborting"

\* Once a change to DO NOT LISTEN is over, nothing records: no capture is active,
\* no recording process runs and the ambient stream is off.  The exceptions are
\* the captures whose start was past its check of the mode when it changed (late),
\* or overlapped another, and one that a wake word has given up (orphaned).
DeafWhenPrivate ==
  private /\ ~Changing /\ late = {} /\ ~overlapped /\ ~orphaned => ~capture.on /\ open = {} /\ ~ambient

\* However requests, speeches, captures, stops and wake words overlap, the core is
\* at rest when all of them are over, and can be spoken to again.  The exception is
\* a spoken request that is answered without reasoning: nobody takes the core out of
\* TRANSCRIBING, in which wake words are ignored and replies cannot be spoken; and a
\* late capture, whose transcription the change of mode cancels.
CoreAtRest ==
  (\A t \in Tasks \ {supervisor} : ~Busy(t)) /\ ~capture.on => core = "DORMANT" \/ untouched \/ late # {}

\* Every recording process that runs belongs to the current capture or to the
\* stop that is ending it, unless two captures were started at once.
NoStrayMicrophone == overlapped \/ open \subseteq {capture.mic, taken}

Begins(s) == at[s] # "playing" /\ at'[s] = "playing"

\* A speech that a stop, a wake word or a new request found in progress, and a
\* reminder claimed before a stop, is not begun to be played afterwards.  The
\* exception are the speeches that still waited for _tts_lock: stop_speaking looks
\* at the holder of the lock alone, and speak forgets the cancellation when it gets
\* the lock, so that they take their turn.
StoppedStaysSilent == [][\A s \in silenced : ~Begins(s)]_vars

\* A stop of everything, or the part of a change of mode that is one, is in progress.
Stopping ==
  \E t \in Stops \cup Enders :
    at[t] \in {"revoking", "quietening", "silencing", "aborting", "dropping", "settling", "settled"}

\* A stop cancels queued speech (docs/USAGE.md): a speech that waited for _tts_lock
\* when a stop began is not begun to be played once the stop is over.
StopSilencesQueue == [][\A s \in revoked \cap Speeches : Begins(s) => Stopping]_vars

\* No two tasks wait for each other's locks, processes or requests: each one ends.
EverythingEnds == <>[](SelfBlocked \/ \A t \in Tasks \ {supervisor} : ~Busy(t))

\* The capture has no reader left: its stream was paused away, or its start failed
\* after it had been marked active.
Unread == \/ capture.origin = "ambient" /\ at[supervisor] = "off"
          \/ capture.origin = "manual" /\ capture.loop # capture.mic

\* The microphone does not stay active: a capture that is read is ended, unless a
\* change of mode cancels the task that ends it (deserted).
CaptureEnds == <>[](capture.on => Unread \/ overlapped \/ deserted \/ SelfBlocked)

================================================================================
