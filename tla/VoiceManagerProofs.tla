--------------------------- MODULE VoiceManagerProofs ---------------------------
(***************************************************************************)
(* The safety properties of VoiceManager hold for any tasks of each kind,  *)
(* any workload, and every interleaving of their steps.                    *)
(*                                                                         *)
(* The argument: a task is only at places of its kind, holds the lock of   *)
(* the capture exactly where its route says, and is moved by the steps of  *)
(* others only when they cancel or start it (TaskInv).  On that rest four  *)
(* invariants, which a step of each kind is shown to keep:                 *)
(*   - SpeechInv: a speech under way owns _tts_lock, and one that a stop   *)
(*     found in progress is cancelled before its player;                   *)
(*   - MicrophoneInv: the recording process that runs is the one the       *)
(*     manager or the holder of the lock knows;                            *)
(*   - PrivacyInv: in DO NOT LISTEN somebody still purges, or nothing can  *)
(*     be heard;                                                           *)
(*   - CoreInv: in each state of the core somebody is on the way to take   *)
(*     it out of it.                                                       *)
(***************************************************************************)
EXTENDS VoiceManager, TLAPS

--------------------------------------------------------------------------------
(* The kinds of task                                                          *)

\* Closers and finishers end captures and answer what was said.
Answerers == Closers \cup Finishers

\* A task is of one kind.
Alone(t) ==
  /\ t # NoTask
  /\ t \in Listens => t \notin Wakes \cup Speeches \cup Enders \cup Stops \cup Typed \cup Pauses
  /\ t \in Wakes => t \notin Speeches \cup Enders \cup Stops \cup Typed \cup Pauses
  /\ t \in Speeches => t \notin Enders \cup Stops \cup Typed \cup Pauses
  /\ t \in Enders => t \notin Stops \cup Typed \cup Pauses
  /\ t \in Stops => t \notin Typed \cup Pauses
  /\ t \in Typed => t \notin Pauses
  /\ t \in Answerers => t # supervisor
  /\ t \in Closers => t \notin Finishers
  /\ t \in Enders <=> t \in Answerers \cup {supervisor}
  /\ t \in Reminders => t \in Speeches
  /\ t \in Switches => t \in Stops
  /\ t \in Critical => t \in Pauses

\* The kinds of VoiceAssumption have no task in common.
LEMMA Apart ==
  ASSUME NEW t \in Tasks
  PROVE  Alone(t)
<1> DEFINE kinds == <<Listens, Wakes, Closers, Finishers, {supervisor}, Speeches, Stops, Typed, Pauses>>
<1>1. \A i, j \in 1..9 : i # j => kinds[i] \cap kinds[j] = {}
  BY VoiceAssumption
<1>2. ASSUME NEW i \in 1..9, NEW j \in 1..9, i # j PROVE ~(t \in kinds[i] /\ t \in kinds[j])
  BY <1>1, <1>2
<1>3. /\ kinds[1] = Listens /\ kinds[2] = Wakes /\ kinds[3] = Closers /\ kinds[4] = Finishers
      /\ kinds[5] = {supervisor} /\ kinds[6] = Speeches /\ kinds[7] = Stops /\ kinds[8] = Typed
      /\ kinds[9] = Pauses
  OBVIOUS
<1> HIDE DEF kinds
<1>4. \A i \in 2..9 : ~(t \in kinds[1] /\ t \in kinds[i])
  BY <1>2
<1>5. \A i \in 3..9 : ~(t \in kinds[2] /\ t \in kinds[i])
  BY <1>2
<1>6. \A i \in {3, 4, 5, 7, 8, 9} : ~(t \in kinds[6] /\ t \in kinds[i])
  BY <1>2
<1>7. \A i \in {7, 8, 9}, j \in {3, 4, 5} : ~(t \in kinds[j] /\ t \in kinds[i])
  BY <1>2
<1>8. ~(t \in kinds[7] /\ t \in kinds[8]) /\ ~(t \in kinds[7] /\ t \in kinds[9]) /\ ~(t \in kinds[8] /\ t \in kinds[9])
  BY <1>2
<1>9. ~(t \in kinds[3] /\ t \in kinds[4]) /\ ~(t \in kinds[3] /\ t \in kinds[5]) /\ ~(t \in kinds[4] /\ t \in kinds[5])
  BY <1>2
<1>10. t \in Listens => t \notin Wakes \cup Speeches \cup Enders \cup Stops \cup Typed \cup Pauses
  BY <1>3, <1>4 DEF Enders
<1>11. t \in Wakes => t \notin Speeches \cup Enders \cup Stops \cup Typed \cup Pauses
  BY <1>3, <1>5 DEF Enders
<1>12. t \in Speeches => t \notin Enders \cup Stops \cup Typed \cup Pauses
  BY <1>3, <1>6 DEF Enders
<1>13. t \in Enders => t \notin Stops \cup Typed \cup Pauses
  BY <1>3, <1>7 DEF Enders
<1>14. /\ t \in Stops => t \notin Typed \cup Pauses
       /\ t \in Typed => t \notin Pauses
       /\ t \in Answerers => t # supervisor
       /\ t \in Closers => t \notin Finishers
  BY <1>3, <1>8, <1>9 DEF Answerers
<1>15. /\ t # NoTask /\ (t \in Answerers \cup {supervisor} <=> t \in Enders)
       /\ t \in Reminders => t \in Speeches
       /\ t \in Switches => t \in Stops
       /\ t \in Critical => t \in Pauses
  BY VoiceAssumption DEF Enders, Answerers
<1> QED BY <1>10, <1>11, <1>12, <1>13, <1>14, <1>15 DEF Alone

--------------------------------------------------------------------------------
(* Where the tasks are                                                        *)

ListenPlaces == {"new", "source", "opening", "done"}
WakePlaces == {"new", "noticed", "barging", "cutting", "interrupting", "answering", "focusing", "done"}
SpeechPlaces ==
  {"new", "claimed", "queued", "synthesis", "starting", "playing", "following", "source", "opening", "done"}
SupervisorPlaces == {"connecting", "on", "off", "closing", "emptying"}
StopPlaces == {"new", "revoking", "quietening", "silencing", "aborting", "dropping", "done"}
SwitchPlaces == StopPlaces \cup {"switching", "purging", "draining", "hushing", "leaving", "refreshing"}
TypedPlaces == {"new", "aborting", "dropping", "silencing", "asked", "thinking", "done"}
PausePlaces == {"new", "aborting", "dropping", "refreshing", "done"}

\* From the collection of the audio to the end of the answer.
SpokenPlaces ==
  {"transcribing", "verifying", "asking", "asked", "thinking", "cancelling", "settling", "settled",
   "stopping", "revoking", "quietening", "silencing", "aborting"}
AnswererPlaces == SpokenPlaces \cup {"new", "closing", "emptying", "done"}

Places ==
  ListenPlaces \cup WakePlaces \cup SpeechPlaces \cup SupervisorPlaces \cup SwitchPlaces \cup TypedPlaces
    \cup PausePlaces \cup AnswererPlaces

OnRoute(t, p) ==
  /\ t \in Listens => p \in ListenPlaces
  /\ t \in Wakes => p \in WakePlaces
  /\ t \in Speeches => p \in SpeechPlaces
  /\ t = supervisor => p \in SupervisorPlaces
  /\ t \in Answerers => p \in AnswererPlaces
  /\ t \in Switches => p \in SwitchPlaces
  /\ t \in Stops \ Switches => p \in StopPlaces
  /\ t \in Typed => p \in TypedPlaces
  /\ t \in Pauses => p \in PausePlaces

\* Where a task holds the lock of the capture.
Holds(t, p) == p \in {"emptying", "dropping", "draining"} \/ (t \in Answerers /\ p \in SpokenPlaces)

TaskOK(t) ==
  /\ OnRoute(t, at[t])
  /\ Holds(t, at[t]) <=> stopLock = t
  /\ at[t] \in {"asked", "thinking"} <=> interactive = t

TaskInv ==
  /\ at \in [Tasks -> Places]
  /\ stopLock \in Tasks \cup {NoTask} /\ interactive \in Tasks \cup {NoTask}
  /\ autoStop \in Finishers \cup {NoTask}
  /\ \A t \in Tasks : TaskOK(t)
  /\ \A t, u \in Switches : Busy(t) /\ Busy(u) => t = u

\* Where a step leaves task t.
Settles(t) ==
  /\ OnRoute(t, at'[t])
  /\ Holds(t, at'[t]) <=> stopLock' = t
  /\ at'[t] \in {"asked", "thinking"} <=> interactive' = t
  /\ t \in Switches /\ at'[t] \notin {"new", "done"} => at[t] \notin {"new", "done"} \/ ~Changing

\* What a step of the tasks t and u leaves to the others.
Spares(t, u) ==
  /\ stopLock' # stopLock => stopLock \in {NoTask, t, u} /\ stopLock' \in {NoTask, t, u}
  /\ interactive' # interactive => interactive \in {NoTask, t, u} /\ interactive' \in {NoTask, t, u}
  /\ autoStop' = autoStop \/ autoStop' \in Finishers

\* A step that moves one task, and one that moves two.
Moves(t) == at' = [at EXCEPT ![t] = at'[t]] /\ Settles(t) /\ Spares(t, t)
MovesBoth(t, u) ==
  /\ at' = [at EXCEPT ![t] = at'[t], ![u] = at'[u]] /\ Settles(t) /\ Settles(u) /\ Spares(t, u)
  /\ at'[u] \in {at[u], "done", "off", "connecting"}

\* The holder of the lock of the capture and the request in progress, unless they are t,
\* stay where they are.
HolderStays(t) == stopLock' \notin {NoTask, t} => stopLock' = stopLock /\ at'[stopLock] = at[stopLock]
ThinkerStays(t) ==
  interactive' \notin {NoTask, t} => interactive' = interactive /\ at'[interactive] = at[interactive]

\* The places of every route are places.
LEMMA Placed ==
  ASSUME NEW t \in Tasks, NEW p, OnRoute(t, p)
  PROVE  p \in Places
BY DEF OnRoute, Places, SwitchPlaces, Tasks, Starters, Enders, Answerers

\* A step that leaves its tasks in order, and the others where they are, keeps TaskInv.
LEMMA SettledKeep ==
  ASSUME TaskInv, NEW t \in Tasks, NEW u \in Tasks, Settles(t), Settles(u), Spares(t, u),
         at' \in [Tasks -> Places], \A v \in Tasks : v \notin {t, u} => at'[v] = at[v],
         t \in Switches /\ u \in Switches => t = u, t = u \/ at'[u] \in {at[u], "done", "off", "connecting"}
  PROVE  TaskInv' /\ HolderStays(t) /\ ThinkerStays(t)
<1>1. ASSUME NEW v \in Tasks PROVE TaskOK(v)'
  <2>0. TaskOK(v) /\ v # NoTask
    BY Apart DEF TaskInv, Alone
  <2>1. CASE v \in {t, u}
    BY <2>1 DEF Settles, TaskOK
  <2>2. CASE v \notin {t, u}
    <3>1. at'[v] = at[v] /\ (stopLock = v <=> stopLock' = v)
      BY <2>0, <2>2 DEF Spares
    <3>2. interactive = v <=> interactive' = v
      BY <2>0, <2>2 DEF Spares
    <3> QED BY <2>0, <3>1, <3>2 DEF TaskOK
  <2> QED BY <2>1, <2>2
<1>2. Switches \subseteq Tasks
  BY VoiceAssumption DEF Tasks
<1>3. ASSUME NEW v \in Switches, NEW w \in Switches, Busy(v)', Busy(w)' PROVE v = w
  <2>1. v \notin {t, u} => at[v] \notin {"new", "done"}
    BY <1>2, <1>3 DEF Busy
  <2>2. w \notin {t, u} => at[w] \notin {"new", "done"}
    BY <1>2, <1>3 DEF Busy
  <2>3. v \in {t, u} => at[v] \notin {"new", "done"} \/ ~Changing
    BY <1>3 DEF Settles, Busy
  <2>4. w \in {t, u} => at[w] \notin {"new", "done"} \/ ~Changing
    BY <1>3 DEF Settles, Busy
  <2>5. ~Changing => at[v] \in {"new", "done"} /\ at[w] \in {"new", "done"}
    BY DEF Changing, Busy
  <2>6. at[v] \notin {"new", "done"} /\ at[w] \notin {"new", "done"} => v = w
    BY DEF TaskInv, Busy
  <2> QED BY <2>1, <2>2, <2>3, <2>4, <2>5, <2>6
<1>4. /\ stopLock' \in Tasks \cup {NoTask} /\ interactive' \in Tasks \cup {NoTask}
      /\ autoStop' \in Finishers \cup {NoTask}
  BY DEF TaskInv, Spares
<1>5. ASSUME stopLock' \notin {NoTask, t} PROVE stopLock' = stopLock /\ at'[stopLock] = at[stopLock]
  <2>1. stopLock' \in Tasks /\ Holds(stopLock', at'[stopLock'])
    BY <1>1, <1>4, <1>5 DEF TaskOK
  <2>2. CASE stopLock' = u
    <3>1. at'[u] = at[u] /\ stopLock = u
      BY <1>5, <2>1, <2>2 DEF TaskInv, TaskOK, Holds, SpokenPlaces
    <3> QED BY <2>2, <3>1
  <2>3. CASE stopLock' # u
    BY <1>5, <2>1, <2>3 DEF Spares
  <2> QED BY <2>2, <2>3
<1>6. ASSUME interactive' \notin {NoTask, t} PROVE interactive' = interactive /\ at'[interactive] = at[interactive]
  <2>1. interactive' \in Tasks /\ at'[interactive'] \in {"asked", "thinking"}
    BY <1>1, <1>4, <1>6 DEF TaskOK
  <2>2. CASE interactive' = u
    <3>1. at'[u] = at[u] /\ interactive = u
      BY <1>6, <2>1, <2>2 DEF TaskInv, TaskOK
    <3> QED BY <2>2, <3>1
  <2>3. CASE interactive' # u
    BY <1>6, <2>1, <2>3 DEF Spares
  <2> QED BY <2>2, <2>3
<1> QED BY <1>1, <1>3, <1>4, <1>5, <1>6 DEF TaskInv, HolderStays, ThinkerStays

\* So does a step that moves one task.
LEMMA MoveKeeps ==
  ASSUME TaskInv, NEW t \in Tasks, Moves(t)
  PROVE  TaskInv' /\ HolderStays(t) /\ ThinkerStays(t) /\ \A v \in Tasks : v # t => at'[v] = at[v]
<1>1. \A v \in Tasks : v # t => at'[v] = at[v]
  BY DEF TaskInv, Moves
<1>2. at'[t] \in Places
  BY Placed DEF Moves, Settles
<1>3. at' \in [Tasks -> Places]
  BY <1>2 DEF TaskInv, Moves
<1> QED BY <1>1, <1>3, SettledKeep DEF Moves

\* So does a step that moves a task and cancels another.
LEMMA BothKeep ==
  ASSUME TaskInv, NEW t \in Tasks, NEW u \in Tasks, t # u, MovesBoth(t, u), u \notin Switches
  PROVE  TaskInv' /\ HolderStays(t) /\ ThinkerStays(t) /\ \A v \in Tasks : v \notin {t, u} => at'[v] = at[v]
<1>1. \A v \in Tasks : v \notin {t, u} => at'[v] = at[v]
  BY DEF TaskInv, MovesBoth
<1>2. at'[t] \in Places /\ at'[u] \in Places
  BY Placed DEF MovesBoth, Settles
<1>3. at' \in [Tasks -> Places]
  BY <1>2 DEF TaskInv, MovesBoth
<1> QED BY <1>1, <1>3, SettledKeep DEF MovesBoth

--------------------------------------------------------------------------------
(* Every step keeps the tasks apart                                           *)

\* A request, a wake word, a speech or a pause that comes moves itself.
LEMMA ArrivalMoves ==
  ASSUME TaskInv, NEW t \in Tasks, Arrive(t)
  PROVE  Moves(t)
<1> USE DEF OnRoute, Holds, ListenPlaces, WakePlaces, SpeechPlaces, SupervisorPlaces, StopPlaces, SwitchPlaces,
            TypedPlaces, PausePlaces, AnswererPlaces, SpokenPlaces, Alone, TaskOK, Moves, Settles, Spares,
            Goto, Done, Comes, captureVars, requestVars
<1>a. TaskOK(t) /\ Alone(t) /\ at \in [Tasks -> Places]
  BY Apart DEF TaskInv
<1>1. Listen(t) => Moves(t)
  BY <1>a DEF Listen, StartCapture, StarterDone
<1>2. Close(t) => Moves(t)
  BY <1>a DEF Close, Tasks, Starters, Enders, Answerers
<1>3. Say(t) => Moves(t)
  BY <1>a DEF Say
<1>4. ClaimReminder(t) => Moves(t)
  BY <1>a DEF ClaimReminder
<1>5. Type(t) => Moves(t)
  BY <1>a DEF Type, AskTyped, Silence, Ask, FinishRequest, EnderDone, Tasks, Starters, Enders, Answerers
<1>6. Pause(t) => Moves(t)
  BY <1>a DEF Pause
<1>7. Wake(t) => Moves(t)
  BY <1>a DEF Wake
<1> HIDE DEF Moves
<1> QED BY <1>1, <1>2, <1>3, <1>4, <1>5, <1>6, <1>7 DEF Arrive

\* So does a step of a capture, but the one that starts a finisher.
LEMMA CaptureMoves ==
  ASSUME TaskInv, NEW t \in Tasks, CaptureStep(t) /\ ~SpeechHeard(t)
  PROVE  Moves(t)
<1> USE DEF OnRoute, Holds, ListenPlaces, WakePlaces, SpeechPlaces, SupervisorPlaces, StopPlaces, SwitchPlaces,
            TypedPlaces, PausePlaces, AnswererPlaces, SpokenPlaces, Alone, TaskOK, Moves, Settles, Spares,
            Goto, Done, Comes, captureVars, requestVars
<1>a. TaskOK(t) /\ Alone(t) /\ at \in [Tasks -> Places]
  BY Apart DEF TaskInv
<1>1. FollowUp(t) => Moves(t)
  BY <1>a DEF FollowUp, StartCapture, StarterDone
<1>2. SourceFound(t) => Moves(t)
  BY <1>a DEF SourceFound, StarterDone
<1>3. Opened(t) => Moves(t)
  BY <1>a DEF Opened, StarterDone
<1>4. TakeCapture(t) => Moves(t)
  BY <1>a DEF TakeCapture, EnderDone, Collect, Tasks, Starters, Enders, Answerers
<1>5. Emptied(t) => Moves(t)
  BY <1>a DEF Emptied, EnderDone, Collect, Tasks, Starters, Enders, Answerers
<1>6. Transcribed(t) => Moves(t)
  BY <1>a DEF Transcribed, EnderDone, Tasks, Starters, Enders, Answerers
<1>7. Verified(t) => Moves(t)
  BY <1>a DEF Verified, EnderDone, Tasks, Starters, Enders, Answerers
<1> HIDE DEF Moves
<1> QED BY <1>1, <1>2, <1>3, <1>4, <1>5, <1>6, <1>7 DEF CaptureStep

\* So does a step of a speech or of a request.
LEMMA SpeechMoves ==
  ASSUME TaskInv, NEW t \in Tasks, SpeechStep(t) \/ RequestStep(t)
  PROVE  Moves(t)
<1> USE DEF OnRoute, Holds, ListenPlaces, WakePlaces, SpeechPlaces, SupervisorPlaces, StopPlaces, SwitchPlaces,
            TypedPlaces, PausePlaces, AnswererPlaces, SpokenPlaces, Alone, TaskOK, Moves, Settles, Spares,
            Goto, Done, Comes, captureVars, requestVars
<1>a. TaskOK(t) /\ Alone(t) /\ at \in [Tasks -> Places]
  BY Apart DEF TaskInv
<1>1. SpeakReminder(t) => Moves(t)
  BY <1>a DEF SpeakReminder, Begin
<1>2. BeginSpeech(t) => Moves(t)
  BY <1>a DEF BeginSpeech, Begin
<1>3. Synthesised(t) => Moves(t)
  BY <1>a DEF Synthesised, SpeechOver
<1>4. PlayerStarted(t) => Moves(t)
  BY <1>a DEF PlayerStarted, SpeechOver
<1>5. Played(t) => Moves(t)
  BY <1>a DEF Played, SpeechOver
<1>6. AskSpoken(t) => Moves(t)
  BY <1>a DEF AskSpoken, Ask, FinishRequest, EnderDone, Tasks, Starters, Enders, Answerers
<1>7. Think(t) => Moves(t)
  BY <1>a DEF Think, FinishRequest, EnderDone, Tasks, Starters, Enders, Answerers
<1>8. AnswerRequest(t) => Moves(t)
  BY <1>a DEF AnswerRequest, FinishRequest, EnderDone, Tasks, Starters, Enders, Answerers
<1> HIDE DEF Moves
<1> QED BY <1>1, <1>2, <1>3, <1>4, <1>5, <1>6, <1>7, <1>8 DEF SpeechStep, RequestStep

\* So does a step of a stop, unless it cancels the reasoning of another.
LEMMA StopMoves ==
  ASSUME TaskInv, NEW t \in Tasks, BeginStop(t) \/ (StopStep(t) /\ ~StopReasoning(t))
  PROVE  Moves(t)
<1> USE DEF OnRoute, Holds, ListenPlaces, WakePlaces, SpeechPlaces, SupervisorPlaces, StopPlaces, SwitchPlaces,
            TypedPlaces, PausePlaces, AnswererPlaces, SpokenPlaces, Alone, TaskOK, Moves, Settles, Spares,
            Goto, Done, Comes, captureVars, requestVars
<1>a. TaskOK(t) /\ Alone(t) /\ at \in [Tasks -> Places]
  BY Apart DEF TaskInv
<1>1. BeginStop(t) => Moves(t)
  BY <1>a DEF BeginStop
<1>2. Settled(t) => Moves(t)
  BY <1>a DEF Settled, EnderDone, Tasks, Starters, Enders, Answerers
<1>3. Quieten(t) => Moves(t)
  BY <1>a DEF Quieten, Silence
<1>4. Silenced(t) => Moves(t)
  BY <1>a DEF Silenced, Ask, FinishRequest, EnderDone, Tasks, Starters, Enders, Answerers
<1>5. Abort(t) => Moves(t)
  BY <1>a DEF Abort, AfterAbort, Silence
<1>6. Dropped(t) => Moves(t)
  BY <1>a DEF Dropped, AfterAbort, Silence
<1> HIDE DEF Moves
<1> QED BY <1>1, <1>2, <1>3, <1>4, <1>5, <1>6 DEF StopStep

\* So do a change of mode and a wake word that is answered.
LEMMA ModeMoves ==
  ASSUME TaskInv, NEW t \in Tasks, SetPrivacy(t) \/ Cut(t) \/ Answering(t) \/ Focused(t)
  PROVE  Moves(t)
<1> USE DEF OnRoute, Holds, ListenPlaces, WakePlaces, SpeechPlaces, SupervisorPlaces, StopPlaces, SwitchPlaces,
            TypedPlaces, PausePlaces, AnswererPlaces, SpokenPlaces, Alone, TaskOK, Moves, Settles, Spares,
            Goto, Done, Comes, captureVars, requestVars
<1>a. TaskOK(t) /\ Alone(t) /\ at \in [Tasks -> Places]
  BY Apart DEF TaskInv
<1>1. SetPrivacy(t) => Moves(t)
  BY <1>a DEF SetPrivacy, AfterMode
<1>2. Cut(t) => Moves(t)
  BY <1>a DEF Cut, Answer
<1>3. Answering(t) => Moves(t)
  BY <1>a DEF Answering, Answer
<1>4. Focused(t) => Moves(t)
  BY <1>a DEF Focused
<1> HIDE DEF Moves
<1> QED BY <1>1, <1>2, <1>3, <1>4

\* The steps that move the task that takes them, and no other.
SingleStep(t) ==
  \/ Arrive(t) \/ (CaptureStep(t) /\ ~SpeechHeard(t)) \/ SpeechStep(t) \/ RequestStep(t) \/ BeginStop(t)
  \/ (StopStep(t) /\ ~StopReasoning(t)) \/ SetPrivacy(t) \/ Cut(t) \/ Answering(t) \/ Focused(t)

LEMMA SingleMoves ==
  ASSUME TaskInv, NEW t \in Tasks, SingleStep(t)
  PROVE  Moves(t)
<1>1. Arrive(t) => Moves(t)
  BY ArrivalMoves
<1>2. CaptureStep(t) /\ ~SpeechHeard(t) => Moves(t)
  BY CaptureMoves
<1>3. SpeechStep(t) => Moves(t)
  BY SpeechMoves
<1>4. RequestStep(t) => Moves(t)
  BY SpeechMoves
<1>5. BeginStop(t) => Moves(t)
  BY StopMoves
<1>6. StopStep(t) /\ ~StopReasoning(t) => Moves(t)
  BY StopMoves
<1>7. SetPrivacy(t) => Moves(t)
  BY ModeMoves
<1>8. Cut(t) => Moves(t)
  BY ModeMoves
<1>9. Answering(t) => Moves(t)
  BY ModeMoves
<1>10. Focused(t) => Moves(t)
  BY ModeMoves
<1> QED BY <1>1, <1>2, <1>3, <1>4, <1>5, <1>6, <1>7, <1>8, <1>9, <1>10 DEF SingleStep

\* A finisher is a task of its kind, and no change of mode.
LEMMA FinisherKind ==
  ASSUME TaskInv, NEW u \in Finishers
  PROVE  u \in Tasks /\ Alone(u) /\ TaskOK(u) /\ u \notin Switches
BY Apart, VoiceAssumption DEF TaskInv, Tasks, Enders, Alone

\* The request in progress is asked or thought about, and is no change of mode.
LEMMA Asking ==
  ASSUME TaskInv, interactive # NoTask
  PROVE  /\ interactive \in Tasks /\ Alone(interactive) /\ TaskOK(interactive)
         /\ interactive \in Typed \cup Answerers /\ interactive \notin Switches
         /\ at[interactive] \in {"asked", "thinking"}
<1>1. interactive \in Tasks /\ Alone(interactive) /\ TaskOK(interactive)
  BY Apart DEF TaskInv
<1>2. at[interactive] \in {"asked", "thinking"} /\ OnRoute(interactive, at[interactive])
  BY <1>1 DEF TaskOK
<1> QED
  BY <1>1, <1>2 DEF OnRoute, ListenPlaces, WakePlaces, SpeechPlaces, SupervisorPlaces, StopPlaces, SwitchPlaces,
     PausePlaces, Tasks, Starters, Enders, Answerers

\* A stop and a wake word that end reasoning move themselves and its request.
LEMMA CutMoves ==
  ASSUME TaskInv, NEW t \in Tasks, StopReasoning(t) \/ ReasoningCut(t)
  PROVE  Moves(t) \/ (t # interactive /\ interactive # NoTask /\ MovesBoth(t, interactive))
<1> USE DEF OnRoute, Holds, ListenPlaces, WakePlaces, SpeechPlaces, SupervisorPlaces, StopPlaces, SwitchPlaces,
            TypedPlaces, PausePlaces, AnswererPlaces, SpokenPlaces, Alone, TaskOK, Moves, MovesBoth, Settles, Spares,
            Goto, Done, requestVars, Released
<1>a. TaskOK(t) /\ Alone(t) /\ at \in [Tasks -> Places]
  BY Apart DEF TaskInv
<1>b. interactive # NoTask =>
        /\ interactive \in Tasks /\ Alone(interactive) /\ TaskOK(interactive)
        /\ interactive \in Typed \cup Answerers /\ interactive \notin Switches
        /\ at[interactive] \in {"asked", "thinking"}
  BY Asking
<1>1. CASE interactive # NoTask /\ interactive # t /\ core = "THINKING" /\ StopReasoning(t)
  BY <1>a, <1>b, <1>1 DEF StopReasoning, InterruptReasoning
<1>2. CASE interactive # NoTask /\ interactive # t /\ core = "THINKING" /\ ReasoningCut(t)
  BY <1>a, <1>b, <1>2 DEF ReasoningCut, InterruptReasoning
<1>3. CASE ~(interactive # NoTask /\ interactive # t /\ core = "THINKING") /\ StopReasoning(t)
  BY <1>a, <1>3 DEF StopReasoning, InterruptReasoning
<1>4. CASE ~(interactive # NoTask /\ interactive # t /\ core = "THINKING") /\ ReasoningCut(t)
  BY <1>a, <1>4 DEF ReasoningCut, InterruptReasoning
<1> QED BY <1>1, <1>2, <1>3, <1>4

\* A wake word and a change of mode that cancel a finisher move themselves and it.
LEMMA WakeMoves ==
  ASSUME TaskInv, NEW t \in Tasks, Noticed(t) \/ Barged(t) \/ CancelFinisher(t)
  PROVE  Moves(t) \/ (t # autoStop /\ autoStop \in Finishers /\ MovesBoth(t, autoStop))
<1> USE DEF OnRoute, Holds, ListenPlaces, WakePlaces, SpeechPlaces, SupervisorPlaces, StopPlaces, SwitchPlaces,
            TypedPlaces, PausePlaces, AnswererPlaces, SpokenPlaces, Alone, TaskOK, Moves, MovesBoth, Settles, Spares,
            Goto, Done, requestVars, Released, Disowned
<1>a. TaskOK(t) /\ Alone(t) /\ at \in [Tasks -> Places] /\ (autoStop = NoTask \/ autoStop \in Finishers)
  BY Apart DEF TaskInv
<1>b. autoStop \in Finishers => autoStop \in Tasks /\ Alone(autoStop) /\ TaskOK(autoStop) /\ autoStop \notin Switches
  BY FinisherKind
<1>1. Noticed(t) => Moves(t) \/ (t # autoStop /\ autoStop \in Finishers /\ MovesBoth(t, autoStop))
  BY <1>a, <1>b DEF Noticed, Alert, Answer, Silence, Finishing, Answerers
<1>2. Barged(t) => Moves(t) \/ (t # autoStop /\ autoStop \in Finishers /\ MovesBoth(t, autoStop))
  BY <1>a, <1>b DEF Barged, Alert, Answer, Finishing, Answerers
<1>3. CancelFinisher(t) => Moves(t) \/ (t # autoStop /\ autoStop \in Finishers /\ MovesBoth(t, autoStop))
  BY <1>a, <1>b DEF CancelFinisher, Finishing, Answerers
<1> QED BY <1>1, <1>2, <1>3

\* A refresh moves itself and the supervisor.
LEMMA RefreshMoves ==
  ASSUME TaskInv, NEW t \in Tasks, Refreshed(t)
  PROVE  t # supervisor /\ MovesBoth(t, supervisor)
<1> USE DEF OnRoute, Holds, ListenPlaces, WakePlaces, SpeechPlaces, SupervisorPlaces, StopPlaces, SwitchPlaces,
            TypedPlaces, PausePlaces, AnswererPlaces, SpokenPlaces, Alone, TaskOK, MovesBoth, Settles, Spares,
            requestVars, Released
<1>a. TaskOK(t) /\ Alone(t) /\ at \in [Tasks -> Places]
  BY Apart DEF TaskInv
<1>b. supervisor \in Tasks /\ Alone(supervisor) /\ TaskOK(supervisor)
  BY Apart DEF TaskInv, Tasks, Enders
<1> QED BY <1>a, <1>b DEF Refreshed, Refresh, Tasks, Starters, Enders, Answerers

\* The stream of the wake word moves the supervisor.
LEMMA AmbientMoves ==
  ASSUME TaskInv, AmbientStarts \/ AmbientFails
  PROVE  supervisor \in Tasks /\ Moves(supervisor)
<1>1. supervisor \in Tasks /\ Alone(supervisor) /\ TaskOK(supervisor) /\ at \in [Tasks -> Places]
  BY Apart DEF TaskInv, Tasks, Enders
<1> QED
  BY <1>1 DEF AmbientStarts, AmbientFails, OnRoute, Holds, SupervisorPlaces, SpokenPlaces, Tasks, Starters, Enders,
     Answerers, Alone, TaskOK, Moves, Settles, Spares, Goto, requestVars

\* A finisher that has been started.
Starts(f) == f \in Finishers /\ at[f] = "new" /\ at' = [at EXCEPT ![f] = "closing"] /\ autoStop' = f

\* The end of a recording moves a finisher, or nobody.
LEMMA HeardMoves ==
  ASSUME TaskInv, (\E t \in Tasks : SpeechHeard(t) \/ StreamFails(t)) \/ AmbientHeard
  PROVE  \/ UNCHANGED <<at, stopLock, interactive, autoStop>>
         \/ \E f \in Tasks : Starts(f) /\ Moves(f)
<1>1. UNCHANGED <<stopLock, interactive>> /\ (UNCHANGED <<at, autoStop>> \/ StartFinisher(at))
  BY DEF SpeechHeard, StreamFails, AmbientHeard, LoopEnds, requestVars
<1>2. CASE StartFinisher(at)
  <2>1. PICK f \in Spare : at' = [at EXCEPT ![f] = "closing"] /\ autoStop' = f
    BY <1>2 DEF StartFinisher
  <2>2. Starts(f) /\ f \in Tasks /\ Alone(f) /\ TaskOK(f) /\ at \in [Tasks -> Places]
    BY <2>1, FinisherKind DEF Spare, Starts, TaskInv
  <2>3. Moves(f)
    BY <1>1, <2>2 DEF Starts, Moves, Settles, Spares, TaskOK, Alone, OnRoute, Holds, AnswererPlaces, SpokenPlaces,
       Answerers, Enders
  <2> QED BY <2>2, <2>3
<1> QED BY <1>1, <1>2

\* The tasks start in order.
LEMMA TaskInit ==
  Init => TaskInv
<1> SUFFICES ASSUME Init PROVE TaskInv
  OBVIOUS
<1>1. at \in [Tasks -> Places]
  BY DEF Init, Places, SupervisorPlaces, AnswererPlaces
<1>2. ASSUME NEW t \in Tasks PROVE TaskOK(t)
  <2>1. Alone(t) /\ at[t] = (IF t = supervisor THEN "connecting" ELSE "new") /\ interactive = NoTask /\ stopLock = NoTask
    BY Apart DEF Init
  <2> QED
    BY <2>1 DEF TaskOK, OnRoute, Holds, ListenPlaces, WakePlaces, SpeechPlaces, SupervisorPlaces, StopPlaces,
       SwitchPlaces, TypedPlaces, PausePlaces, AnswererPlaces, SpokenPlaces, Alone, Answerers, Enders
<1>3. ASSUME NEW t \in Switches PROVE ~Busy(t)
  <2>1. t \in Tasks /\ Alone(t)
    BY Apart, VoiceAssumption DEF Tasks
  <2> QED BY <2>1 DEF Init, Busy, Alone, Enders
<1> QED BY <1>1, <1>2, <1>3 DEF TaskInv, Init

\* A step of the task t, and the tasks that the steps of others may cancel or start.
Turn(t) ==
  \/ Arrive(t) \/ CaptureStep(t) \/ SpeechStep(t) \/ RequestStep(t) \/ BeginStop(t)
  \/ StopStep(t) \/ ModeStep(t) \/ WakeStep(t) \/ StreamFails(t)
Environs == AmbientHeard \/ AmbientStarts \/ AmbientFails
Interruptible == Finishers \cup {supervisor, interactive}
Stay(tasks) == \A v \in tasks : at'[v] = at[v]

\* The end of a recording leaves the holder of the lock and the reasoning alone.
LEMMA HeardStays ==
  ASSUME TaskInv, (\E t \in Tasks : SpeechHeard(t) \/ StreamFails(t)) \/ AmbientHeard
  PROVE  TaskInv' /\ Stay(Tasks \ Interruptible) /\ HolderStays(NoTask) /\ ThinkerStays(NoTask)
<1>1. CASE \E f \in Tasks : Starts(f) /\ Moves(f)
  <2>1. PICK f \in Tasks : Starts(f) /\ Moves(f)
    BY <1>1
  <2>2. f \in Interruptible
    BY <2>1 DEF Starts, Interruptible
  <2>3. stopLock' # f /\ interactive' # f
    BY <2>1, MoveKeeps DEF Starts, TaskInv, TaskOK, Holds, SpokenPlaces
  <2> QED BY <2>1, <2>2, <2>3, MoveKeeps DEF Stay, HolderStays, ThinkerStays
<1>2. CASE UNCHANGED <<at, stopLock, interactive, autoStop>>
  BY <1>2 DEF TaskInv, TaskOK, Busy, Stay, HolderStays, ThinkerStays
<1> QED BY <1>1, <1>2, HeardMoves

\* So does the ambient stream.
LEMMA EnvironsStay ==
  ASSUME TaskInv, Environs
  PROVE  TaskInv' /\ Stay(Tasks \ Interruptible) /\ HolderStays(NoTask) /\ ThinkerStays(NoTask)
<1>1. CASE AmbientHeard
  BY <1>1, HeardStays
<1>2. CASE AmbientStarts \/ AmbientFails
  <2>1. supervisor \in Tasks /\ Alone(supervisor) /\ at' = [at EXCEPT ![supervisor] = at'[supervisor]]
        /\ at'[supervisor] \in {"on", "off", "closing", "connecting"}
    BY <1>2, AmbientMoves, Apart DEF AmbientStarts, AmbientFails, Goto, TaskInv, Moves
  <2>2. stopLock' # supervisor /\ interactive' # supervisor
    BY <1>2, <2>1, AmbientMoves DEF Moves, Settles, Holds, SpokenPlaces, Alone
  <2> QED BY <1>2, <2>2, AmbientMoves, MoveKeeps DEF Stay, Interruptible, HolderStays, ThinkerStays
<1> QED BY <1>1, <1>2 DEF Environs

\* A step of a task keeps TaskInv, and moves others only where they can be interrupted.
LEMMA TurnStays ==
  ASSUME TaskInv, NEW t \in Tasks, Turn(t)
  PROVE  TaskInv' /\ Stay(Tasks \ (Interruptible \cup {t})) /\ HolderStays(t) /\ ThinkerStays(t)
<1>1. CASE SingleStep(t)
  BY <1>1, SingleMoves, MoveKeeps DEF Stay
<1>2. CASE StopReasoning(t) \/ ReasoningCut(t)
  <2>1. CASE Moves(t)
    BY <2>1, MoveKeeps DEF Stay
  <2>2. CASE t # interactive /\ interactive # NoTask /\ MovesBoth(t, interactive)
    BY <2>2, Asking, BothKeep DEF Stay, Interruptible
  <2> QED BY <1>2, <2>1, <2>2, CutMoves
<1>3. CASE Noticed(t) \/ Barged(t) \/ CancelFinisher(t)
  <2>1. CASE Moves(t)
    BY <2>1, MoveKeeps DEF Stay
  <2>2. CASE t # autoStop /\ autoStop \in Finishers /\ MovesBoth(t, autoStop)
    BY <2>2, FinisherKind, BothKeep DEF Stay, Interruptible
  <2> QED BY <1>3, <2>1, <2>2, WakeMoves
<1>4. CASE Refreshed(t)
  <2>1. supervisor \in Tasks /\ supervisor \notin Switches
    BY Apart DEF Tasks, Enders, Alone
  <2> QED BY <1>4, <2>1, RefreshMoves, BothKeep DEF Stay, Interruptible
<1>5. CASE SpeechHeard(t) \/ StreamFails(t)
  BY <1>5, HeardStays DEF Stay, HolderStays, ThinkerStays
<1> QED
  BY <1>1, <1>2, <1>3, <1>4, <1>5 DEF Turn, SingleStep, CaptureStep, StopStep, ModeStep, WakeStep

\* Nobody interrupts a speech, a wake word or a change of mode.
LEMMA Uninterrupted ==
  ASSUME TaskInv, NEW s \in Speeches \cup Wakes \cup Switches
  PROVE  s \in Tasks \ Interruptible
<1>1. s \in Tasks
  BY VoiceAssumption DEF Tasks, Starters
<1>2. Alone(s) /\ s # NoTask /\ (interactive # NoTask => interactive \in Typed \cup Answerers)
  BY <1>1, Apart, Asking, VoiceAssumption
<1> QED BY <1>1, <1>2 DEF Interruptible, Alone, Answerers, Enders

\* Where the holder of the lock has marked the capture inactive, and waits for the
\* recording process to end.
Inactive(h) == h # NoTask /\ at[h] \in {"dropping", "draining"}

\* Nor a task that waits for the recording process it has given up.
LEMMA InactiveStays ==
  ASSUME TaskInv, NEW t \in Tasks, Turn(t) \/ Environs, Inactive(stopLock),
         Turn(t) => stopLock # t
  PROVE  stopLock' = stopLock /\ at'[stopLock] = at[stopLock]
<1>1. stopLock \in Tasks /\ TaskOK(stopLock) /\ Alone(stopLock)
  BY Apart DEF TaskInv, Inactive
<1>2. stopLock \notin Interruptible
  BY <1>1 DEF Interruptible, Inactive, TaskOK, OnRoute, SupervisorPlaces, AnswererPlaces, SpokenPlaces, Answerers
<1>3. at'[stopLock] = at[stopLock] /\ TaskInv'
  BY <1>1, <1>2, TurnStays, EnvironsStay DEF Stay
<1>4. Holds(stopLock, at'[stopLock]) /\ stopLock' \in Tasks \cup {NoTask}
  BY <1>3 DEF Holds, Inactive, TaskInv
<1>5. \A v \in Tasks : Holds(v, at'[v]) <=> stopLock' = v
  BY <1>3 DEF TaskInv, TaskOK
<1> QED BY <1>1, <1>3, <1>4, <1>5

\* Every step keeps TaskInv.
LEMMA TaskStep ==
  TaskInv /\ [Next]_vars => TaskInv'
<1> SUFFICES ASSUME TaskInv, [Next]_vars PROVE TaskInv'
  OBVIOUS
<1>1. CASE UNCHANGED vars
  BY <1>1 DEF vars, captureVars, requestVars, TaskInv, TaskOK, Busy
<1> QED BY <1>1, TurnStays, EnvironsStay DEF Next, Turn, Environs

--------------------------------------------------------------------------------
(* Speech                                                                     *)

\* A speech from its beginning to its end owns the lock; one that was silenced, or a
\* reminder claimed before a stop, does not go on to be played.
SpeechOK(s) ==
  s \in Speeches =>
    /\ at[s] \in {"synthesis", "starting", "playing", "following", "source", "opening"} => ttsLock = s
    /\ at[s] \in {"synthesis", "starting"} => speech.pending
    /\ at[s] = "claimed" => s \in Reminders
    /\ s \in silenced =>
         /\ at[s] \notin {"new", "queued"}
         /\ at[s] = "claimed" => scope.seen[s] < scope.now
         /\ at[s] \in {"synthesis", "starting"} => speech.cancelled

SpeechRecord == [speaking : BOOLEAN, pending : BOOLEAN, cancelled : BOOLEAN, sounding : BOOLEAN]

SpeechTypes ==
  /\ speech \in SpeechRecord
  /\ scope \in [now : Nat, seen : [Reminders -> Nat]]
  /\ \A r \in Reminders : scope.seen[r] <= scope.now
  /\ silenced \subseteq Speeches
  /\ ttsLock \in Speeches \cup {NoTask}

SpeechInv == SpeechTypes /\ \A s \in Tasks : SpeechOK(s)

\* Either a speech begins, or the core is not at rest and it is over.
LEMMA Beginning ==
  ASSUME NEW s \in Speeches, Begin(s)
  PROVE  \/ ttsLock' = s /\ speech' \in SpeechRecord /\ speech'.pending /\ Goto(s, "synthesis")
         \/ Done(s) /\ UNCHANGED <<ttsLock, speech>>
<1>1. \A r \in SpeechRecord : /\ [r EXCEPT !.pending = TRUE] \in SpeechRecord
                              /\ [r EXCEPT !.pending = TRUE].pending
  BY DEF SpeechRecord
<1>2. NoSpeech \in SpeechRecord
  BY DEF NoSpeech, SpeechRecord
<1> QED BY <1>1, <1>2 DEF Begin

StaysSilent(s) == s \in Speeches \cap silenced /\ at'[s] = "playing" => at[s] = "playing"

\* A step of a task keeps the speeches in order, and begins to play no silenced one.
LEMMA SpeechTurn ==
  ASSUME TaskInv, SpeechInv, NEW t \in Tasks, Turn(t), NEW s \in Tasks
  PROVE  SpeechTypes' /\ SpeechOK(s)' /\ StaysSilent(s)
<1> USE DEF Goto, Done, Comes, speechVars, modeVars, SpeechTypes, SpeechOK, InSpeech, SpeechActive,
            SpeechRecord, StaysSilent
<1>a. /\ at \in [Tasks -> Places] /\ (s # t /\ s \in Speeches => at'[s] = at[s])
      /\ OnRoute(t, at[t]) /\ Alone(t) /\ OnRoute(s, at[s]) /\ Alone(s)
      /\ SpeechTypes /\ SpeechOK(s) /\ SpeechOK(t)
      /\ NoSpeech \in SpeechRecord
      /\ NoTask \notin Tasks /\ Speeches \subseteq Tasks /\ Reminders \subseteq Speeches
  BY TurnStays, Uninterrupted, Apart, VoiceAssumption DEF Stay, TaskInv, TaskOK, SpeechInv, Tasks, Starters,
     NoSpeech, SpeechRecord
<1>b. at[t] \in {"claimed", "queued", "synthesis", "starting", "playing", "following"} => t \in Speeches
  BY <1>a DEF Tasks, Starters, Enders, Answerers, Alone,
     OnRoute, ListenPlaces, WakePlaces, SpeechPlaces, SupervisorPlaces, StopPlaces, SwitchPlaces, TypedPlaces,
     PausePlaces, AnswererPlaces, SpokenPlaces
<1>c. SpeechHeard(t) \/ StreamFails(t) => (s \in Speeches => at'[s] = at[s])
  BY HeardStays, Uninterrupted DEF Stay
<1>1. Say(t) => SpeechTypes' /\ SpeechOK(s)' /\ StaysSilent(s)
  BY <1>a DEF Say
<1>2. ClaimReminder(t) => SpeechTypes' /\ SpeechOK(s)' /\ StaysSilent(s)
  BY <1>a DEF ClaimReminder
<1>3. ASSUME SpeakReminder(t) PROVE SpeechTypes' /\ SpeechOK(s)' /\ StaysSilent(s)
  <2>1. UNCHANGED <<silenced, scope>> /\ at[t] = "claimed"
    BY <1>3 DEF SpeakReminder
  <2>2. \/ Done(t) /\ UNCHANGED <<ttsLock, speech>>
        \/ scope.seen[t] = scope.now /\ Begin(t) /\ ttsLock = NoTask
        \/ scope.seen[t] = scope.now /\ Goto(t, "queued") /\ UNCHANGED <<ttsLock, speech>>
    BY <1>3 DEF SpeakReminder
  <2>3. CASE Done(t) /\ UNCHANGED <<ttsLock, speech>>
    BY <1>a, <1>b, <2>1, <2>3
  <2>4. CASE /\ scope.seen[t] = scope.now /\ ttsLock = NoTask
             /\ ttsLock' = t /\ speech' \in SpeechRecord /\ speech'.pending /\ Goto(t, "synthesis")
    BY <1>a, <1>b, <2>1, <2>4
  <2>5. CASE scope.seen[t] = scope.now /\ Goto(t, "queued") /\ UNCHANGED <<ttsLock, speech>>
    BY <1>a, <1>b, <2>1, <2>5
  <2> QED BY <1>b, <2>1, <2>2, <2>3, <2>4, <2>5, Beginning
<1>4. ASSUME BeginSpeech(t) PROVE SpeechTypes' /\ SpeechOK(s)' /\ StaysSilent(s)
  <2>1. UNCHANGED <<silenced, scope>> /\ at[t] = "queued" /\ ttsLock = NoTask /\ Begin(t)
    BY <1>4 DEF BeginSpeech
  <2>2. CASE Done(t) /\ UNCHANGED <<ttsLock, speech>>
    BY <1>a, <1>b, <2>1, <2>2
  <2>3. CASE ttsLock' = t /\ speech' \in SpeechRecord /\ speech'.pending /\ Goto(t, "synthesis")
    BY <1>a, <1>b, <2>1, <2>3
  <2> QED BY <1>b, <2>1, <2>2, <2>3, Beginning
<1>5. Synthesised(t) => SpeechTypes' /\ SpeechOK(s)' /\ StaysSilent(s)
  BY <1>a, <1>b DEF Synthesised, SpeechOver
<1>6. ASSUME PlayerStarted(t) PROVE SpeechTypes' /\ SpeechOK(s)' /\ StaysSilent(s)
  <2>1. UNCHANGED <<silenced, scope>> /\ at[t] = "starting"
    BY <1>6 DEF PlayerStarted
  <2>2. \/ /\ ~speech.cancelled /\ speech' = [speech EXCEPT !.speaking = TRUE, !.sounding = TRUE]
           /\ Goto(t, "playing") /\ UNCHANGED ttsLock
        \/ SpeechOver(t, "done")
    BY <1>6 DEF PlayerStarted, MayPlay
  <2>3. CASE /\ ~speech.cancelled /\ speech' = [speech EXCEPT !.speaking = TRUE, !.sounding = TRUE]
             /\ Goto(t, "playing") /\ UNCHANGED ttsLock
    BY <1>a, <1>b, <2>1, <2>3
  <2>4. CASE SpeechOver(t, "done")
    BY <1>a, <1>b, <2>1, <2>4 DEF SpeechOver
  <2> QED BY <2>2, <2>3, <2>4
<1>7. Played(t) => SpeechTypes' /\ SpeechOK(s)' /\ StaysSilent(s)
  BY <1>a, <1>b DEF Played, SpeechOver
<1>8. FollowUp(t) => SpeechTypes' /\ SpeechOK(s)' /\ StaysSilent(s)
  BY <1>a, <1>b DEF FollowUp, StartCapture, StarterDone
<1> USE DEF Alone, OnRoute, ListenPlaces, WakePlaces, SpeechPlaces, SupervisorPlaces, StopPlaces, SwitchPlaces,
            TypedPlaces, PausePlaces, AnswererPlaces, SpokenPlaces
<1>9. Listen(t) => SpeechTypes' /\ SpeechOK(s)' /\ StaysSilent(s)
  BY <1>a DEF Listen, StartCapture, StarterDone
<1>10. Close(t) => SpeechTypes' /\ SpeechOK(s)' /\ StaysSilent(s)
  BY <1>a DEF Close
<1>11. Type(t) => SpeechTypes' /\ SpeechOK(s)' /\ StaysSilent(s)
  BY <1>a DEF Type, AskTyped, Silence, Ask, FinishRequest, EnderDone
<1>12. Pause(t) => SpeechTypes' /\ SpeechOK(s)' /\ StaysSilent(s)
  BY <1>a DEF Pause
<1>13. Wake(t) => SpeechTypes' /\ SpeechOK(s)' /\ StaysSilent(s)
  BY <1>a DEF Wake
<1>14. SourceFound(t) => SpeechTypes' /\ SpeechOK(s)' /\ StaysSilent(s)
  BY <1>a DEF SourceFound, StarterDone
<1>15. Opened(t) => SpeechTypes' /\ SpeechOK(s)' /\ StaysSilent(s)
  BY <1>a DEF Opened, StarterDone
<1>16. SpeechHeard(t) => SpeechTypes' /\ SpeechOK(s)' /\ StaysSilent(s)
  BY <1>a, <1>c DEF SpeechHeard, LoopEnds
<1>17. StreamFails(t) => SpeechTypes' /\ SpeechOK(s)' /\ StaysSilent(s)
  BY <1>a, <1>c DEF StreamFails, LoopEnds
<1>18. TakeCapture(t) => SpeechTypes' /\ SpeechOK(s)' /\ StaysSilent(s)
  BY <1>a DEF TakeCapture, EnderDone, Collect
<1>19. Emptied(t) => SpeechTypes' /\ SpeechOK(s)' /\ StaysSilent(s)
  BY <1>a DEF Emptied, EnderDone, Collect
<1>20. Transcribed(t) => SpeechTypes' /\ SpeechOK(s)' /\ StaysSilent(s)
  BY <1>a DEF Transcribed, EnderDone
<1>21. Verified(t) => SpeechTypes' /\ SpeechOK(s)' /\ StaysSilent(s)
  BY <1>a DEF Verified, EnderDone
<1>22. AskSpoken(t) => SpeechTypes' /\ SpeechOK(s)' /\ StaysSilent(s)
  BY <1>a DEF AskSpoken, Ask, FinishRequest, EnderDone
<1>23. Think(t) => SpeechTypes' /\ SpeechOK(s)' /\ StaysSilent(s)
  BY <1>a DEF Think, FinishRequest, EnderDone
<1>24. AnswerRequest(t) => SpeechTypes' /\ SpeechOK(s)' /\ StaysSilent(s)
  BY <1>a DEF AnswerRequest, FinishRequest, EnderDone
<1>25. BeginStop(t) => SpeechTypes' /\ SpeechOK(s)' /\ StaysSilent(s)
  BY <1>a DEF BeginStop
<1>26. StopReasoning(t) => SpeechTypes' /\ SpeechOK(s)' /\ StaysSilent(s)
  BY <1>a DEF StopReasoning, InterruptReasoning
<1>27. Settled(t) => SpeechTypes' /\ SpeechOK(s)' /\ StaysSilent(s)
  BY <1>a DEF Settled, EnderDone
<1>28. Quieten(t) => SpeechTypes' /\ SpeechOK(s)' /\ StaysSilent(s)
  BY <1>a DEF Quieten, Silence
<1>29. Silenced(t) => SpeechTypes' /\ SpeechOK(s)' /\ StaysSilent(s)
  BY <1>a DEF Silenced, Ask, FinishRequest, EnderDone, Ended
<1>30. Abort(t) => SpeechTypes' /\ SpeechOK(s)' /\ StaysSilent(s)
  BY <1>a DEF Abort, AfterAbort, Silence
<1>31. Dropped(t) => SpeechTypes' /\ SpeechOK(s)' /\ StaysSilent(s)
  BY <1>a DEF Dropped, AfterAbort, Silence
<1>32. SetPrivacy(t) => SpeechTypes' /\ SpeechOK(s)' /\ StaysSilent(s)
  BY <1>a DEF SetPrivacy, AfterMode
<1>33. CancelFinisher(t) => SpeechTypes' /\ SpeechOK(s)' /\ StaysSilent(s)
  BY <1>a DEF CancelFinisher, Finishing, Released, Disowned
<1>34. Refreshed(t) => SpeechTypes' /\ SpeechOK(s)' /\ StaysSilent(s)
  BY <1>a DEF Refreshed, Refresh, Released
<1>35. Noticed(t) => SpeechTypes' /\ SpeechOK(s)' /\ StaysSilent(s)
  BY <1>a DEF Noticed, Silence, Alert, Answer, Released, Disowned
<1>36. Barged(t) => SpeechTypes' /\ SpeechOK(s)' /\ StaysSilent(s)
  BY <1>a DEF Barged, Ended, Alert, Answer, Released, Disowned
<1>37. Cut(t) => SpeechTypes' /\ SpeechOK(s)' /\ StaysSilent(s)
  BY <1>a DEF Cut, Answer
<1>38. ReasoningCut(t) => SpeechTypes' /\ SpeechOK(s)' /\ StaysSilent(s)
  BY <1>a DEF ReasoningCut, InterruptReasoning
<1>39. Answering(t) => SpeechTypes' /\ SpeechOK(s)' /\ StaysSilent(s)
  BY <1>a DEF Answering, Answer
<1>40. Focused(t) => SpeechTypes' /\ SpeechOK(s)' /\ StaysSilent(s)
  BY <1>a DEF Focused
<1> HIDE DEF SpeechTypes, SpeechOK, StaysSilent
<1> QED BY <1>1, <1>2, <1>3, <1>4, <1>5, <1>6, <1>7, <1>8, <1>9, <1>10, <1>11, <1>12, <1>13, <1>14, <1>15,
       <1>16, <1>17, <1>18, <1>19, <1>20, <1>21, <1>22, <1>23, <1>24, <1>25, <1>26, <1>27, <1>28, <1>29, <1>30,
          <1>31, <1>32, <1>33, <1>34, <1>35, <1>36, <1>37, <1>38, <1>39, <1>40
   DEF Turn, Arrive, CaptureStep, SpeechStep, RequestStep, StopStep, ModeStep, WakeStep

\* So does a step that leaves the speeches alone.
LEMMA SpeechStands ==
  ASSUME TaskInv, SpeechInv, UNCHANGED <<speechVars, modeVars>>, Stay(Speeches)
  PROVE  SpeechInv' /\ \A s \in Speeches : StaysSilent(s)
BY DEF SpeechInv, SpeechTypes, SpeechOK, StaysSilent, Stay, speechVars, modeVars, SpeechRecord

\* Every step keeps SpeechInv and begins to play no silenced speech.
LEMMA SpeechKept ==
  ASSUME TaskInv, SpeechInv, [Next]_vars
  PROVE  SpeechInv' /\ \A s \in Speeches : StaysSilent(s)
<1>1. ASSUME NEW t \in Tasks, Turn(t) PROVE SpeechInv' /\ \A s \in Speeches : StaysSilent(s)
  BY <1>1, SpeechTurn, Uninterrupted DEF SpeechInv
<1>2. CASE Environs
  <2>1. UNCHANGED <<speechVars, modeVars>>
    BY <1>2 DEF Environs, AmbientHeard, AmbientStarts, AmbientFails
  <2>2. Stay(Speeches)
    BY <1>2, EnvironsStay, Uninterrupted DEF Stay
  <2> QED BY <2>1, <2>2, SpeechStands
<1>3. CASE UNCHANGED vars
  BY <1>3, SpeechStands, Uninterrupted DEF vars, Stay
<1> QED BY <1>1, <1>2, <1>3 DEF Next, Turn, Environs

\* At the start nobody speaks.
LEMMA SpeechInit ==
  Init => SpeechInv
<1> SUFFICES ASSUME Init PROVE SpeechInv
  OBVIOUS
<1>1. SpeechTypes
  BY DEF Init, SpeechTypes, SpeechRecord, NoSpeech
<1>2. ASSUME NEW s \in Tasks PROVE SpeechOK(s)
  <2>1. s \in Speeches => s # supervisor
    BY Apart DEF Alone, Enders
  <2> QED BY <2>1 DEF Init, SpeechOK
<1> QED BY <1>1, <1>2 DEF SpeechInv

--------------------------------------------------------------------------------
(* The microphone                                                             *)

\* Where the holder of the lock waits for a recording process to end.
Ending(h) == h # NoTask /\ at[h] \in {"emptying", "dropping", "draining"}

CaptureRecord ==
  [on : BOOLEAN, origin : {"none", "ambient", "manual"}, finishing : BOOLEAN, mic : Tasks \cup {NoTask},
   loop : Tasks \cup {NoTask}]

MicrophoneInv ==
  /\ capture \in CaptureRecord
  /\ capture.on => capture.origin \in {"ambient", "manual"}
  /\ ~overlapped =>
       /\ capture.on => (capture.origin = "manual" <=> capture.mic # NoTask)
       /\ capture.loop \in {NoTask, capture.mic} /\ taken \in {NoTask, capture.mic}
       /\ open \subseteq {capture.mic} \ {NoTask}
       /\ Ending(stopLock) => taken = capture.mic /\ taken # NoTask
       /\ Inactive(stopLock) => ~capture.on
       /\ ~capture.on /\ capture.mic # NoTask => orphaned \/ Inactive(stopLock)

\* A step that leaves the capture and its microphone alone, one that starts a capture,
\* and one after which there is no capture.
MicrophoneStands ==
  /\ capture' \in CaptureRecord
  /\ capture'.on = capture.on /\ capture'.origin = capture.origin
  /\ capture'.mic = capture.mic /\ capture'.loop = capture.loop
  /\ open' \subseteq open /\ overlapped' = overlapped /\ orphaned' = orphaned /\ taken' \in {taken, NoTask}
  /\ Ending(stopLock)' => Ending(stopLock) /\ taken' = taken
  /\ Inactive(stopLock)' <=> Inactive(stopLock)

MicrophoneStarts ==
  /\ capture' \in CaptureRecord /\ capture'.on
  /\ \/ /\ capture'.origin = "ambient" /\ capture'.mic = capture.mic /\ capture'.loop = capture.loop
        /\ open' = open
     \/ /\ capture'.origin = "manual" /\ capture'.mic # NoTask
        /\ capture'.loop \in {capture'.mic, capture.loop} /\ open' = open \cup {capture'.mic}
  /\ overlapped' = (overlapped \/ capture.on \/ capture.mic # NoTask) /\ taken' = taken
  /\ Ending(stopLock)' => Ending(stopLock)

MicrophoneEnds ==
  /\ capture' = NoCapture /\ taken' = NoTask /\ overlapped' = overlapped
  /\ ~overlapped => open' = {}
  /\ ~Ending(stopLock)'

\* A step that leaves the capture alone keeps the microphone in order.
LEMMA StandsKeeps ==
  ASSUME MicrophoneInv, MicrophoneStands
  PROVE  MicrophoneInv'
BY DEF MicrophoneInv, MicrophoneStands

\* So does one that starts a capture.
LEMMA StartsKeeps ==
  ASSUME TaskInv, MicrophoneInv, MicrophoneStarts
  PROVE  MicrophoneInv'
<1>1. ~overlapped' => ~Ending(stopLock)'
  BY DEF MicrophoneInv, MicrophoneStarts
<1>2. ~overlapped' => ~Inactive(stopLock)'
  BY <1>1 DEF Ending, Inactive
<1>3. CASE overlapped'
  BY <1>3 DEF MicrophoneInv, MicrophoneStarts
<1>4. CASE ~overlapped' /\ capture'.origin = "ambient"
  BY <1>1, <1>2, <1>4 DEF MicrophoneInv, MicrophoneStarts
<1>5. CASE ~overlapped' /\ capture'.origin = "manual"
  BY <1>1, <1>2, <1>5 DEF MicrophoneInv, MicrophoneStarts
<1> QED BY <1>3, <1>4, <1>5 DEF MicrophoneStarts

\* So does one that ends it.
LEMMA EndsKeeps ==
  ASSUME MicrophoneEnds
  PROVE  MicrophoneInv'
<1>1. ~Inactive(stopLock)'
  BY DEF MicrophoneEnds, Ending, Inactive
<1>2. NoCapture \in CaptureRecord
  BY DEF NoCapture, CaptureRecord
<1>3. /\ ~NoCapture.on /\ NoCapture.mic = NoTask /\ NoCapture.loop = NoTask
  BY DEF NoCapture
<1> QED BY <1>1, <1>2, <1>3 DEF MicrophoneEnds, MicrophoneInv

\* What _activate_capture makes of the capture.
LEMMA CaptureActive ==
  ASSUME capture \in CaptureRecord, NEW t \in Tasks, NEW o \in {"ambient", "manual"},
         NEW m \in Tasks \cup {NoTask}, Activate(t, o, m)
  PROVE  /\ capture' \in CaptureRecord /\ capture'.on /\ capture'.origin = o
         /\ capture'.mic = (IF m = NoTask THEN capture.mic ELSE m) /\ capture'.loop \in {capture.loop, m}
         /\ m = NoTask => capture'.loop = capture.loop
         /\ overlapped' = (overlapped \/ capture.on \/ capture.mic # NoTask)
BY DEF Activate, CaptureRecord

\* A wake word is ignored, or it starts a capture from the ambient stream.
LEMMA Answered ==
  ASSUME capture \in CaptureRecord, NEW t \in Tasks, NEW now, Answer(t, now)
  PROVE  \/ Done(t) /\ core' = now /\ UNCHANGED <<capture, late, overlapped>>
         \/ /\ ~capture.on /\ now = "DORMANT" /\ core' = "LISTENING" /\ Goto(t, "focusing")
            /\ capture' \in CaptureRecord /\ capture'.on /\ capture'.origin = "ambient"
            /\ capture'.mic = capture.mic /\ capture'.loop = capture.loop
            /\ late' = (IF private THEN late \cup {t} ELSE late)
            /\ overlapped' = (overlapped \/ capture.mic # NoTask)
<1>1. CASE /\ ~capture.on /\ now = "DORMANT" /\ core' = "LISTENING" /\ Goto(t, "focusing")
           /\ capture' = [capture EXCEPT !.on = TRUE, !.origin = "ambient", !.finishing = FALSE]
           /\ late' = (IF private THEN late \cup {t} ELSE late)
           /\ overlapped' = (overlapped \/ capture.mic # NoTask)
  <2>1. /\ capture' \in CaptureRecord /\ capture'.on /\ capture'.origin = "ambient"
        /\ capture'.mic = capture.mic /\ capture'.loop = capture.loop
    BY <1>1 DEF CaptureRecord
  <2> QED BY <1>1, <2>1
<1> QED BY <1>1 DEF Answer

\* The waiting for a recording process is over only with the task that waits.
LEMMA EndingStays ==
  ASSUME TaskInv, NEW t \in Tasks, Turn(t), at[t] \notin {"emptying", "dropping", "draining"},
         at'[t] \notin {"emptying", "dropping", "draining"}
  PROVE  /\ Ending(stopLock)' => Ending(stopLock)
         /\ Inactive(stopLock)' <=> Inactive(stopLock)
<1>1. HolderStays(t)
  BY TurnStays
<1>2. Ending(stopLock)' => Ending(stopLock)
  BY <1>1 DEF Ending, HolderStays
<1>3. Inactive(stopLock)' => Inactive(stopLock)
  BY <1>1 DEF Inactive, HolderStays
<1>4. Inactive(stopLock) => stopLock' = stopLock /\ at'[stopLock] = at[stopLock]
  BY InactiveStays DEF Inactive
<1> QED BY <1>2, <1>3, <1>4 DEF Inactive

\* A step of a task keeps the microphone in order.
LEMMA MicrophoneTurn ==
  ASSUME TaskInv, MicrophoneInv, NEW t \in Tasks, Turn(t)
  PROVE  MicrophoneInv'
<1> USE DEF Goto, Done, Comes, captureVars, ghostVars, speechVars, requestVars
<1>a. /\ at \in [Tasks -> Places] /\ HolderStays(t) /\ TaskOK(t) /\ Alone(t) /\ capture \in CaptureRecord
      /\ stopLock \in Tasks \cup {NoTask} /\ NoTask \notin Tasks
      /\ Inactive(stopLock) => stopLock = t \/ (stopLock' = stopLock /\ at'[stopLock] = at[stopLock])
  BY TurnStays, InactiveStays, Apart, VoiceAssumption DEF TaskInv, MicrophoneInv
<1>1. Listen(t) => MicrophoneStands
  BY <1>a DEF Listen, StartCapture, StarterDone, TaskOK, Holds, SpokenPlaces, HolderStays, MicrophoneStands,
     Ending, Inactive
<1>2. Close(t) => MicrophoneStands
  BY <1>a DEF Close, TaskOK, Holds, SpokenPlaces, HolderStays, MicrophoneStands, Ending, Inactive
<1>3. Say(t) => MicrophoneStands
  BY <1>a DEF Say, TaskOK, Holds, SpokenPlaces, HolderStays, MicrophoneStands, Ending, Inactive
<1>4. ClaimReminder(t) => MicrophoneStands
  BY <1>a DEF ClaimReminder, TaskOK, Holds, SpokenPlaces, HolderStays, MicrophoneStands, Ending, Inactive
<1>5. Type(t) => MicrophoneStands
  BY <1>a DEF Type, AskTyped, Silence, Ask, FinishRequest, EnderDone, TaskOK, Holds, SpokenPlaces, HolderStays,
     MicrophoneStands, Ending, Inactive
<1>6. Pause(t) => MicrophoneStands
  BY <1>a DEF Pause, TaskOK, Holds, SpokenPlaces, HolderStays, MicrophoneStands, Ending, Inactive
<1>7. Wake(t) => MicrophoneStands
  BY <1>a DEF Wake, TaskOK, Holds, SpokenPlaces, HolderStays, MicrophoneStands, Ending, Inactive
<1>8. FollowUp(t) => MicrophoneStands
  BY <1>a DEF FollowUp, StartCapture, StarterDone, TaskOK, Holds, SpokenPlaces, HolderStays, MicrophoneStands,
     Ending, Inactive
<1>9. Transcribed(t) => MicrophoneStands
  BY <1>a DEF Transcribed, EnderDone, TaskOK, Holds, SpokenPlaces, HolderStays, MicrophoneStands, Ending,
     Inactive
<1>10. Verified(t) => MicrophoneStands
  BY <1>a DEF Verified, EnderDone, TaskOK, Holds, SpokenPlaces, HolderStays, MicrophoneStands, Ending, Inactive
<1>11. SpeakReminder(t) => MicrophoneStands
  BY <1>a DEF SpeakReminder, Begin, TaskOK, Holds, SpokenPlaces, HolderStays, MicrophoneStands, Ending, Inactive
<1>12. BeginSpeech(t) => MicrophoneStands
  BY <1>a DEF BeginSpeech, Begin, TaskOK, Holds, SpokenPlaces, HolderStays, MicrophoneStands, Ending, Inactive
<1>13. Synthesised(t) => MicrophoneStands
  BY <1>a DEF Synthesised, SpeechOver, TaskOK, Holds, SpokenPlaces, HolderStays, MicrophoneStands, Ending,
     Inactive
<1>14. PlayerStarted(t) => MicrophoneStands
  BY <1>a DEF PlayerStarted, SpeechOver, TaskOK, Holds, SpokenPlaces, HolderStays, MicrophoneStands, Ending,
     Inactive
<1>15. Played(t) => MicrophoneStands
  BY <1>a DEF Played, SpeechOver, TaskOK, Holds, SpokenPlaces, HolderStays, MicrophoneStands, Ending, Inactive
<1>16. AskSpoken(t) => MicrophoneStands
  BY <1>a DEF AskSpoken, Ask, FinishRequest, EnderDone, TaskOK, Holds, SpokenPlaces, HolderStays,
     MicrophoneStands, Ending, Inactive
<1>17. Think(t) => MicrophoneStands
  BY <1>a DEF Think, FinishRequest, EnderDone, TaskOK, Holds, SpokenPlaces, HolderStays, MicrophoneStands,
     Ending, Inactive
<1>18. AnswerRequest(t) => MicrophoneStands
  BY <1>a DEF AnswerRequest, FinishRequest, EnderDone, TaskOK, Holds, SpokenPlaces, HolderStays,
     MicrophoneStands, Ending, Inactive
<1>19. BeginStop(t) => MicrophoneStands
  BY <1>a DEF BeginStop, TaskOK, Holds, SpokenPlaces, HolderStays, MicrophoneStands, Ending, Inactive
<1>20. StopReasoning(t) => MicrophoneStands
  BY <1>a DEF StopReasoning, InterruptReasoning, TaskOK, Holds, SpokenPlaces, HolderStays, MicrophoneStands,
     Ending, Inactive
<1>21. Settled(t) => MicrophoneStands
  BY <1>a DEF Settled, EnderDone, TaskOK, Holds, SpokenPlaces, HolderStays, MicrophoneStands, Ending, Inactive
<1>22. Quieten(t) => MicrophoneStands
  BY <1>a DEF Quieten, Silence, TaskOK, Holds, SpokenPlaces, HolderStays, MicrophoneStands, Ending, Inactive
<1>23. Silenced(t) => MicrophoneStands
  BY <1>a DEF Silenced, Ask, FinishRequest, EnderDone, Ended, TaskOK, Holds, SpokenPlaces, HolderStays,
     MicrophoneStands, Ending, Inactive
<1>24. SetPrivacy(t) => MicrophoneStands
  BY <1>a DEF SetPrivacy, AfterMode, TaskOK, Holds, SpokenPlaces, HolderStays, MicrophoneStands, Ending,
     Inactive
<1>25. CancelFinisher(t) => MicrophoneStands
  BY <1>a DEF CancelFinisher, Finishing, Released, Disowned, TaskOK, Holds, SpokenPlaces, HolderStays,
     MicrophoneStands, Ending, Inactive
<1>26. Refreshed(t) => MicrophoneStands
  BY <1>a DEF Refreshed, Refresh, Released, TaskOK, Holds, SpokenPlaces, HolderStays, MicrophoneStands, Ending,
     Inactive
<1>27. ReasoningCut(t) => MicrophoneStands
  BY <1>a DEF ReasoningCut, InterruptReasoning, TaskOK, Holds, SpokenPlaces, HolderStays, MicrophoneStands,
     Ending, Inactive
<1>28. ASSUME SpeechHeard(t) PROVE MicrophoneStands
  <2>1. UNCHANGED <<taken, overlapped, orphaned, stopLock>> /\ open' \subseteq open
    BY <1>28 DEF SpeechHeard, LoopEnds
  <2>2. PICK b \in BOOLEAN : capture' = [capture EXCEPT !.finishing = b]
    BY <1>a, <1>28 DEF SpeechHeard, LoopEnds, CaptureRecord
  <2>3. stopLock # NoTask => at'[stopLock] = at[stopLock]
    BY <2>1, <1>28, HeardStays DEF HolderStays
  <2>4. /\ capture' \in CaptureRecord /\ capture'.on = capture.on /\ capture'.origin = capture.origin
        /\ capture'.mic = capture.mic /\ capture'.loop = capture.loop
    BY <1>a, <2>2 DEF CaptureRecord
  <2> QED BY <1>a, <2>1, <2>3, <2>4 DEF MicrophoneStands, Ending, Inactive
<1>29. ASSUME StreamFails(t) PROVE MicrophoneStands
  <2>1. UNCHANGED <<taken, overlapped, orphaned, stopLock>> /\ open' \subseteq open
    BY <1>29 DEF StreamFails, LoopEnds
  <2>2. PICK b \in BOOLEAN : capture' = [capture EXCEPT !.finishing = b]
    BY <1>a, <1>29 DEF StreamFails, LoopEnds, CaptureRecord
  <2>3. stopLock # NoTask => at'[stopLock] = at[stopLock]
    BY <2>1, <1>29, HeardStays DEF HolderStays
  <2>4. /\ capture' \in CaptureRecord /\ capture'.on = capture.on /\ capture'.origin = capture.origin
        /\ capture'.mic = capture.mic /\ capture'.loop = capture.loop
    BY <1>a, <2>2 DEF CaptureRecord
  <2> QED BY <1>a, <2>1, <2>3, <2>4 DEF MicrophoneStands, Ending, Inactive
<1>30. ASSUME Noticed(t) PROVE MicrophoneStands \/ MicrophoneStarts
  <2>1. UNCHANGED <<open, taken, orphaned>>
    BY <1>30 DEF Noticed
  <2>2. UNCHANGED <<capture, overlapped>> \/ \E now : Answer(t, now)
    BY <1>30 DEF Noticed, Alert
  <2>3. at[t] \notin {"emptying", "dropping", "draining"} /\ at'[t] \notin {"emptying", "dropping", "draining"}
    BY <1>a, <1>30 DEF Noticed, Silence, Alert, Released, Disowned, Answer
  <2>4. /\ Ending(stopLock)' => Ending(stopLock)
        /\ Inactive(stopLock)' <=> Inactive(stopLock)
    BY <2>3, EndingStays
  <2> QED BY <1>a, <2>1, <2>2, <2>4, Answered DEF MicrophoneStands, MicrophoneStarts
<1>31. ASSUME Barged(t) PROVE MicrophoneStands \/ MicrophoneStarts
  <2>1. UNCHANGED <<open, taken, orphaned>>
    BY <1>31 DEF Barged
  <2>2. UNCHANGED <<capture, overlapped>> \/ \E now : Answer(t, now)
    BY <1>31 DEF Barged, Alert
  <2>3. at[t] \notin {"emptying", "dropping", "draining"} /\ at'[t] \notin {"emptying", "dropping", "draining"}
    BY <1>a, <1>31 DEF Barged, Alert, Released, Disowned, Answer
  <2>4. /\ Ending(stopLock)' => Ending(stopLock)
        /\ Inactive(stopLock)' <=> Inactive(stopLock)
    BY <2>3, EndingStays
  <2> QED BY <1>a, <2>1, <2>2, <2>4, Answered DEF MicrophoneStands, MicrophoneStarts
<1>32. ASSUME Cut(t) PROVE MicrophoneStands \/ MicrophoneStarts
  <2>1. UNCHANGED <<open, taken, orphaned>>
    BY <1>32 DEF Cut
  <2>2. UNCHANGED <<capture, overlapped>> \/ \E now : Answer(t, now)
    BY <1>32 DEF Cut
  <2>3. at[t] \notin {"emptying", "dropping", "draining"} /\ at'[t] \notin {"emptying", "dropping", "draining"}
    BY <1>a, <1>32 DEF Cut, Answer
  <2>4. /\ Ending(stopLock)' => Ending(stopLock)
        /\ Inactive(stopLock)' <=> Inactive(stopLock)
    BY <2>3, EndingStays
  <2> QED BY <1>a, <2>1, <2>2, <2>4, Answered DEF MicrophoneStands, MicrophoneStarts
<1>33. ASSUME Answering(t) PROVE MicrophoneStands \/ MicrophoneStarts
  <2>1. UNCHANGED <<open, taken, orphaned>>
    BY <1>33 DEF Answering
  <2>2. UNCHANGED <<capture, overlapped>> \/ \E now : Answer(t, now)
    BY <1>33 DEF Answering
  <2>3. at[t] \notin {"emptying", "dropping", "draining"} /\ at'[t] \notin {"emptying", "dropping", "draining"}
    BY <1>a, <1>33 DEF Answering, Answer
  <2>4. /\ Ending(stopLock)' => Ending(stopLock)
        /\ Inactive(stopLock)' <=> Inactive(stopLock)
    BY <2>3, EndingStays
  <2> QED BY <1>a, <2>1, <2>2, <2>4, Answered DEF MicrophoneStands, MicrophoneStarts
<1>34. ASSUME TakeCapture(t) PROVE MicrophoneInv'
  <2>1. stopLock = NoTask /\ UNCHANGED <<open, overlapped, orphaned>>
    BY <1>34 DEF TakeCapture
  <2>2. CASE ~capture.on /\ EnderDone(t) /\ UNCHANGED <<core, capture>>
    <3>1. MicrophoneStands
      BY <1>a, <2>1, <2>2 DEF EnderDone, MicrophoneStands, Ending, Inactive
    <3> QED BY <3>1, StandsKeeps
  <2>3. CASE capture.on /\ capture.origin = "ambient" /\ Collect(t)
    <3>1. ~overlapped => open' = {}
      BY <2>1, <2>3 DEF MicrophoneInv
    <3>2. MicrophoneEnds
      BY <1>a, <2>1, <2>3, <3>1 DEF Collect, EnderDone, MicrophoneEnds, Ending
    <3> QED BY <3>2, EndsKeeps
  <2>4. CASE /\ capture.on /\ capture.origin = "manual" /\ capture' = [capture EXCEPT !.finishing = TRUE]
             /\ stopLock' = t /\ taken' = capture.mic /\ Goto(t, "emptying")
    BY <1>a, <2>1, <2>4 DEF MicrophoneInv, CaptureRecord, Ending, Inactive
  <2> QED BY <1>34, <2>2, <2>3, <2>4 DEF TakeCapture
<1>35. ASSUME Emptied(t) PROVE MicrophoneInv'
  <2>1. ~overlapped => open' = {}
    BY <1>a, <1>35 DEF Emptied, MicrophoneInv, TaskOK, Holds, Ending
  <2>2. MicrophoneEnds
    BY <1>a, <1>35, <2>1 DEF Emptied, Collect, EnderDone, MicrophoneEnds, Ending
  <2> QED BY <2>2, EndsKeeps
<1>36. ASSUME Abort(t) PROVE MicrophoneInv'
  <2>1. stopLock = NoTask /\ UNCHANGED <<open, overlapped, orphaned>> /\ at[t] \in {"aborting", "purging"}
    BY <1>36 DEF Abort
  <2>2. CASE ~capture.on
    <3>1. MicrophoneStands
      BY <1>a, <2>1, <2>2, <1>36 DEF Abort, AfterAbort, MicrophoneStands, Ending, Inactive
    <3> QED BY <3>1, StandsKeeps
  <2>3. CASE capture.on /\ capture.origin = "ambient" /\ capture.loop = NoTask
    <3>1. ~overlapped => open' = {}
      BY <2>1, <2>3 DEF MicrophoneInv
    <3>2. MicrophoneEnds
      BY <1>a, <2>1, <2>3, <3>1, <1>36 DEF Abort, AfterAbort, MicrophoneEnds, Ending
    <3> QED BY <3>2, EndsKeeps
  <2>4. CASE capture.on /\ ~(capture.origin = "ambient" /\ capture.loop = NoTask)
    <3>1. /\ capture' = [capture EXCEPT !.on = FALSE, !.finishing = FALSE, !.origin = "none"]
          /\ stopLock' = t /\ taken' = (IF capture.origin = "manual" THEN capture.mic ELSE NoTask)
          /\ at'[t] \in {"dropping", "draining"}
      BY <1>a, <2>1, <2>4, <1>36 DEF Abort
    <3>2. capture' \in CaptureRecord /\ ~capture'.on /\ capture'.mic = capture.mic /\ capture'.loop =
       capture.loop
      BY <1>a, <3>1 DEF CaptureRecord
    <3>3. Ending(stopLock)' /\ Inactive(stopLock)'
      BY <1>a, <3>1 DEF Ending, Inactive
    <3>4. ~overlapped => capture.origin = "manual" /\ capture.mic # NoTask
      BY <2>4 DEF MicrophoneInv
    <3> QED BY <2>1, <3>1, <3>2, <3>3, <3>4 DEF MicrophoneInv
  <2> QED BY <2>2, <2>3, <2>4
<1>37. ASSUME Dropped(t) PROVE MicrophoneInv'
  <2>1. /\ capture' = [capture EXCEPT !.mic = NoTask, !.loop = NoTask] /\ open' = open \ {taken}
        /\ overlapped' = overlapped /\ stopLock' = NoTask /\ taken' = NoTask /\ Inactive(stopLock)
    BY <1>a, <1>37 DEF Dropped, AfterAbort, TaskOK, Holds, Inactive
  <2> QED BY <1>a, <2>1 DEF MicrophoneInv, CaptureRecord, Ending, Inactive
<1>38. ASSUME Focused(t) PROVE MicrophoneInv'
  <2>1. UNCHANGED <<open, taken, overlapped, stopLock>> /\ (Ending(stopLock)' => Ending(stopLock))
        /\ (Inactive(stopLock)' <=> Inactive(stopLock))
    BY <1>a, <1>38 DEF Focused, Ending, Inactive, HolderStays, TaskOK, Holds, SpokenPlaces
  <2>2. CASE UNCHANGED <<core, capture, orphaned>>
    BY <1>a, <2>1, <2>2, StandsKeeps DEF MicrophoneStands
  <2>3. CASE /\ capture' = [capture EXCEPT !.on = FALSE, !.origin = "none", !.finishing = FALSE]
             /\ orphaned' = (orphaned \/ capture.mic # NoTask)
    BY <1>a, <2>1, <2>3 DEF MicrophoneInv, CaptureRecord
  <2> QED BY <1>38, <2>2, <2>3 DEF Focused
<1>39. ASSUME SourceFound(t) PROVE MicrophoneStands \/ MicrophoneStarts
  <2>1. UNCHANGED <<open, taken, orphaned>> /\ at[t] = "source" /\ at'[t] \in {"opening", "done"}
    BY <1>a, <1>39 DEF SourceFound, StarterDone
  <2>2. /\ Ending(stopLock)' => Ending(stopLock)
        /\ Inactive(stopLock)' <=> Inactive(stopLock)
    BY <2>1, EndingStays
  <2>3. CASE UNCHANGED <<capture, overlapped>>
    BY <1>a, <2>1, <2>2, <2>3 DEF MicrophoneStands
  <2>4. CASE Activate(t, "ambient", NoTask)
    BY <1>a, <2>1, <2>2, <2>4, CaptureActive DEF MicrophoneStarts
  <2> QED BY <1>39, <2>3, <2>4 DEF SourceFound
<1>40. ASSUME Opened(t) PROVE MicrophoneStands \/ MicrophoneStarts
  <2>1. UNCHANGED <<taken, orphaned>> /\ at[t] = "opening" /\ at'[t] = "done"
    BY <1>a, <1>40 DEF Opened, StarterDone
  <2>2. /\ Ending(stopLock)' => Ending(stopLock)
        /\ Inactive(stopLock)' <=> Inactive(stopLock)
    BY <2>1, EndingStays
  <2>3. CASE UNCHANGED <<capture, overlapped, open>>
    BY <1>a, <2>1, <2>2, <2>3 DEF MicrophoneStands
  <2>4. CASE Activate(t, "manual", t) /\ open' = open \cup {t}
    BY <1>a, <2>1, <2>2, <2>4, CaptureActive DEF MicrophoneStarts
  <2> QED BY <1>40, <2>3, <2>4 DEF Opened
<1> QED
  BY <1>1, <1>2, <1>3, <1>4, <1>5, <1>6, <1>7, <1>8, <1>9, <1>10, <1>11, <1>12, <1>13, <1>14, <1>15, <1>16,
     <1>17, <1>18, <1>19, <1>20, <1>21, <1>22, <1>23, <1>24, <1>25, <1>26, <1>27, <1>28, <1>29, <1>30, <1>31,
        <1>32, <1>33, <1>34, <1>35, <1>36, <1>37, <1>38, <1>39, <1>40, StandsKeeps, StartsKeeps
   DEF Turn, Arrive, CaptureStep, SpeechStep, RequestStep, StopStep, ModeStep, WakeStep

\* Every step does.
LEMMA MicrophoneKept ==
  ASSUME TaskInv, MicrophoneInv, [Next]_vars
  PROVE  MicrophoneInv'
<1>1. ASSUME NEW t \in Tasks, Turn(t) PROVE MicrophoneInv'
  BY <1>1, MicrophoneTurn
<1>2. CASE AmbientHeard
  <2>1. UNCHANGED <<open, taken, overlapped, orphaned, stopLock>> /\ capture' = [capture EXCEPT !.finishing =
     TRUE]
    BY <1>2 DEF AmbientHeard, ghostVars
  <2>2. /\ capture' \in CaptureRecord /\ capture'.on = capture.on /\ capture'.origin = capture.origin
        /\ capture'.mic = capture.mic /\ capture'.loop = capture.loop
    BY <2>1 DEF MicrophoneInv, CaptureRecord
  <2>3. stopLock # NoTask => at'[stopLock] = at[stopLock]
    BY <1>2, <2>1, EnvironsStay DEF HolderStays, Environs
  <2>4. MicrophoneStands
    BY <2>1, <2>2, <2>3 DEF MicrophoneStands, Ending, Inactive
  <2> QED BY <2>4, StandsKeeps
<1>3. CASE AmbientStarts \/ AmbientFails
  <2>1. UNCHANGED <<capture, open, taken, overlapped, orphaned, stopLock>>
    BY <1>3 DEF AmbientStarts, AmbientFails, ghostVars
  <2>2. stopLock # NoTask => at'[stopLock] = at[stopLock]
    BY <1>3, <2>1, EnvironsStay DEF HolderStays, Environs
  <2>3. MicrophoneStands
    BY <2>1, <2>2 DEF MicrophoneStands, Ending, Inactive, MicrophoneInv
  <2> QED BY <2>3, StandsKeeps
<1>4. CASE UNCHANGED vars
  <2>1. UNCHANGED <<capture, open, taken, overlapped, orphaned, stopLock, at>>
    BY <1>4 DEF vars, captureVars, ghostVars
  <2>2. MicrophoneStands
    BY <2>1 DEF MicrophoneStands, Ending, Inactive, MicrophoneInv
  <2> QED BY <2>2, StandsKeeps
<1> QED BY <1>1, <1>2, <1>3, <1>4 DEF Next, Turn

\* At the start nothing records.
LEMMA MicrophoneInit ==
  Init => MicrophoneInv
BY DEF Init, MicrophoneInv, NoCapture, CaptureRecord, Ending, Inactive

\* A recording process that runs is known.
LEMMA MicrophonesKnown ==
  MicrophoneInv => NoStrayMicrophone
BY DEF MicrophoneInv, NoStrayMicrophone

--------------------------------------------------------------------------------
(* The privacy mode                                                           *)

\* Nobody ends a capture, but a change of mode that throws it away.
NothingHeard == ~capture.on /\ (stopLock # NoTask => at[stopLock] = "draining")

Purging == \E x \in Switches : at[x] = "purging"

PrivacyInv ==
  /\ \A x \in Switches : at[x] \in {"purging", "draining", "hushing", "leaving"} => private
  /\ private /\ late = {} => Purging \/ NothingHeard
  /\ private /\ ambient =>
       \E x \in Switches : at[x] \in {"purging", "draining", "hushing", "leaving", "refreshing"}

\* A change of mode begins to purge the capture with the mode, and leaves it in order.
KeepsPlace(t) ==
  /\ at'[t] \in {"purging", "draining", "hushing", "leaving"} =>
       at[t] \in {"purging", "draining", "hushing", "leaving"}
  /\ at[t] = "purging" => at'[t] = "purging" \/ NothingHeard'
  /\ at[t] \in {"purging", "draining", "hushing", "leaving", "refreshing"} =>
       \/ at'[t] \in {"purging", "draining", "hushing", "leaving", "refreshing"}
       \/ private => ~ambient'

\* A step of t that keeps the mode.
Discreet(t) ==
  /\ private' = private /\ late \subseteq late'
  /\ private /\ NothingHeard => late' # {} \/ NothingHeard'
  /\ private /\ ambient' => ambient
  /\ t \in Switches => KeepsPlace(t)

\* A step that keeps the mode keeps PrivacyInv.
LEMMA DiscreetKeeps ==
  ASSUME PrivacyInv, NEW t, Discreet(t), \A x \in Switches : x # t => at'[x] = at[x]
  PROVE  PrivacyInv'
<1>1. ASSUME NEW x \in Switches, at'[x] \in {"purging", "draining", "hushing", "leaving"} PROVE private'
  BY <1>1 DEF PrivacyInv, Discreet, KeepsPlace
<1>2. ASSUME private', late' = {} PROVE Purging' \/ NothingHeard'
  <2>1. private /\ late = {}
    BY <1>2 DEF Discreet
  <2>2. CASE NothingHeard
    BY <1>2, <2>1, <2>2 DEF Discreet
  <2>3. CASE Purging
    BY <2>3 DEF Purging, Discreet, KeepsPlace
  <2> QED BY <2>1, <2>2, <2>3 DEF PrivacyInv
<1>3. ASSUME private', ambient'
      PROVE  \E x \in Switches : at'[x] \in {"purging", "draining", "hushing", "leaving", "refreshing"}
  BY <1>3 DEF PrivacyInv, Discreet, KeepsPlace
<1> QED BY <1>1, <1>2, <1>3 DEF PrivacyInv

\* Where nothing can be heard, only a step that starts a capture changes that.
LEMMA QuietStays ==
  ASSUME TaskInv, NEW t \in Tasks, Turn(t), NothingHeard, ~capture'.on, stopLock' # t
  PROVE  NothingHeard'
<1>1. HolderStays(t)
  BY TurnStays
<1> QED BY <1>1 DEF HolderStays, NothingHeard

\* Every step of a task but the change of the mode keeps it.
LEMMA PrivacyTurn ==
  ASSUME TaskInv, MicrophoneInv, NEW t \in Tasks, Turn(t), ~SetPrivacy(t)
  PROVE  Discreet(t)
<1> USE DEF Goto, Done, Comes, captureVars, ghostVars, speechVars, requestVars, modeVars, NothingHeard
<1>a. /\ at \in [Tasks -> Places] /\ HolderStays(t) /\ TaskOK(t) /\ Alone(t) /\ capture \in CaptureRecord
      /\ stopLock \in Tasks \cup {NoTask} /\ NoTask \notin Tasks
  BY TurnStays, Apart, VoiceAssumption DEF TaskInv, MicrophoneInv
<1>1. Listen(t) => Discreet(t)
  BY <1>a DEF Listen, StartCapture, StarterDone, TaskOK, Holds, HolderStays, Discreet, KeepsPlace, OnRoute,
     SwitchPlaces, StopPlaces, Alone
<1>2. Close(t) => Discreet(t)
  BY <1>a DEF Close, TaskOK, Holds, HolderStays, Discreet, KeepsPlace, OnRoute, SwitchPlaces, StopPlaces, Alone
<1>3. Say(t) => Discreet(t)
  BY <1>a DEF Say, TaskOK, Holds, HolderStays, Discreet, KeepsPlace, OnRoute, SwitchPlaces, StopPlaces, Alone
<1>4. ClaimReminder(t) => Discreet(t)
  BY <1>a DEF ClaimReminder, TaskOK, Holds, HolderStays, Discreet, KeepsPlace, OnRoute, SwitchPlaces,
     StopPlaces, Alone
<1>5. Type(t) => Discreet(t)
  BY <1>a DEF Type, AskTyped, Silence, Ask, FinishRequest, EnderDone, TaskOK, Holds, HolderStays, Discreet,
     KeepsPlace, OnRoute, SwitchPlaces, StopPlaces, Alone
<1>6. Pause(t) => Discreet(t)
  BY <1>a DEF Pause, TaskOK, Holds, HolderStays, Discreet, KeepsPlace, OnRoute, SwitchPlaces, StopPlaces, Alone
<1>7. Wake(t) => Discreet(t)
  BY <1>a DEF Wake, TaskOK, Holds, HolderStays, Discreet, KeepsPlace, OnRoute, SwitchPlaces, StopPlaces, Alone
<1>8. FollowUp(t) => Discreet(t)
  BY <1>a DEF FollowUp, StartCapture, StarterDone, TaskOK, Holds, HolderStays, Discreet, KeepsPlace, OnRoute,
     SwitchPlaces, StopPlaces, Alone
<1>9. ASSUME SourceFound(t) PROVE Discreet(t)
  <2>1. private' = private /\ late \subseteq late' /\ (private /\ ambient' => ambient)
    BY <1>a, <1>9 DEF SourceFound, StarterDone, Activate
  <2>2. private /\ ~capture.on => late' # {} \/ ~capture'.on
    BY <1>a, <1>9 DEF SourceFound, StarterDone, Activate, CaptureRecord
  <2>3. NothingHeard => stopLock' # t
    BY <1>a, <1>9 DEF SourceFound, TaskOK, Holds, SpokenPlaces, Alone, StarterDone
  <2>4. t \in Switches => KeepsPlace(t)
    BY <1>a, <1>9 DEF SourceFound, KeepsPlace, TaskOK, Alone, OnRoute, SwitchPlaces, StopPlaces, StarterDone
  <2> QED BY <1>a, <2>1, <2>2, <2>3, <2>4, QuietStays DEF Discreet
<1>10. ASSUME Opened(t) PROVE Discreet(t)
  <2>1. private' = private /\ late \subseteq late' /\ (private /\ ambient' => ambient)
    BY <1>a, <1>10 DEF Opened, StarterDone, Activate
  <2>2. private /\ ~capture.on => late' # {} \/ ~capture'.on
    BY <1>a, <1>10 DEF Opened, StarterDone, Activate, CaptureRecord
  <2>3. NothingHeard => stopLock' # t
    BY <1>a, <1>10 DEF Opened, TaskOK, Holds, SpokenPlaces, Alone, StarterDone
  <2>4. t \in Switches => KeepsPlace(t)
    BY <1>a, <1>10 DEF Opened, KeepsPlace, TaskOK, Alone, OnRoute, SwitchPlaces, StopPlaces, StarterDone
  <2> QED BY <1>a, <2>1, <2>2, <2>3, <2>4, QuietStays DEF Discreet
<1>11. ASSUME SpeechHeard(t) PROVE Discreet(t)
  <2>1. private' = private /\ late' = late /\ ambient' = ambient /\ stopLock' = stopLock
    BY <1>11 DEF SpeechHeard, LoopEnds
  <2>2. PICK b \in BOOLEAN : capture' = [capture EXCEPT !.finishing = b]
    BY <1>a, <1>11 DEF SpeechHeard, LoopEnds, CaptureRecord
  <2>3. capture'.on = capture.on
    BY <1>a, <2>2 DEF CaptureRecord
  <2>4. stopLock # NoTask => at'[stopLock] = at[stopLock]
    BY <1>11, <2>1, HeardStays DEF HolderStays
  <2>5. t \in Switches => at'[t] = at[t]
    BY <1>11, HeardStays, Uninterrupted DEF Stay
  <2> QED BY <2>1, <2>3, <2>4, <2>5 DEF Discreet, KeepsPlace
<1>12. ASSUME StreamFails(t) PROVE Discreet(t)
  <2>1. private' = private /\ late' = late /\ ambient' = ambient /\ stopLock' = stopLock
    BY <1>12 DEF StreamFails, LoopEnds
  <2>2. PICK b \in BOOLEAN : capture' = [capture EXCEPT !.finishing = b]
    BY <1>a, <1>12 DEF StreamFails, LoopEnds, CaptureRecord
  <2>3. capture'.on = capture.on
    BY <1>a, <2>2 DEF CaptureRecord
  <2>4. stopLock # NoTask => at'[stopLock] = at[stopLock]
    BY <1>12, <2>1, HeardStays DEF HolderStays
  <2>5. t \in Switches => at'[t] = at[t]
    BY <1>12, HeardStays, Uninterrupted DEF Stay
  <2> QED BY <2>1, <2>3, <2>4, <2>5 DEF Discreet, KeepsPlace
<1>13. TakeCapture(t) => Discreet(t)
  BY <1>a DEF TakeCapture, EnderDone, Collect, TaskOK, Holds, HolderStays, Discreet, KeepsPlace, OnRoute,
     SwitchPlaces, StopPlaces, Alone
<1>14. Emptied(t) => Discreet(t)
  BY <1>a DEF Emptied, EnderDone, Collect, TaskOK, Holds, HolderStays, Discreet, KeepsPlace, OnRoute,
     SwitchPlaces, StopPlaces, Alone
<1>15. ASSUME Transcribed(t) PROVE Discreet(t)
  <2>1. private' = private /\ late \subseteq late' /\ (private /\ ambient' => ambient)
    BY <1>a, <1>15 DEF Transcribed, EnderDone
  <2>2. private /\ ~capture.on => late' # {} \/ ~capture'.on
    BY <1>a, <1>15 DEF Transcribed, EnderDone
  <2>3. NothingHeard => stopLock' # t
    BY <1>a, <1>15 DEF Transcribed, TaskOK, Holds, SpokenPlaces, Alone, EnderDone, Tasks, Starters, Enders,
       Answerers
  <2>4. t \in Switches => KeepsPlace(t)
    BY <1>a, <1>15 DEF Transcribed, KeepsPlace, TaskOK, Alone, OnRoute, SwitchPlaces, StopPlaces, EnderDone
  <2> QED BY <1>a, <2>1, <2>2, <2>3, <2>4, QuietStays DEF Discreet
<1>16. Verified(t) => Discreet(t)
  BY <1>a DEF Verified, EnderDone, TaskOK, Holds, HolderStays, Discreet, KeepsPlace, OnRoute, SwitchPlaces,
     StopPlaces, Alone
<1>17. SpeakReminder(t) => Discreet(t)
  BY <1>a DEF SpeakReminder, Begin, TaskOK, Holds, HolderStays, Discreet, KeepsPlace, OnRoute, SwitchPlaces,
     StopPlaces, Alone
<1>18. BeginSpeech(t) => Discreet(t)
  BY <1>a DEF BeginSpeech, Begin, TaskOK, Holds, HolderStays, Discreet, KeepsPlace, OnRoute, SwitchPlaces,
     StopPlaces, Alone
<1>19. Synthesised(t) => Discreet(t)
  BY <1>a DEF Synthesised, SpeechOver, TaskOK, Holds, HolderStays, Discreet, KeepsPlace, OnRoute, SwitchPlaces,
     StopPlaces, Alone
<1>20. PlayerStarted(t) => Discreet(t)
  BY <1>a DEF PlayerStarted, SpeechOver, TaskOK, Holds, HolderStays, Discreet, KeepsPlace, OnRoute,
     SwitchPlaces, StopPlaces, Alone
<1>21. Played(t) => Discreet(t)
  BY <1>a DEF Played, SpeechOver, TaskOK, Holds, HolderStays, Discreet, KeepsPlace, OnRoute, SwitchPlaces,
     StopPlaces, Alone
<1>22. AskSpoken(t) => Discreet(t)
  BY <1>a DEF AskSpoken, Ask, FinishRequest, EnderDone, TaskOK, Holds, HolderStays, Discreet, KeepsPlace,
     OnRoute, SwitchPlaces, StopPlaces, Alone
<1>23. Think(t) => Discreet(t)
  BY <1>a DEF Think, FinishRequest, EnderDone, TaskOK, Holds, HolderStays, Discreet, KeepsPlace, OnRoute,
     SwitchPlaces, StopPlaces, Alone
<1>24. AnswerRequest(t) => Discreet(t)
  BY <1>a DEF AnswerRequest, FinishRequest, EnderDone, TaskOK, Holds, HolderStays, Discreet, KeepsPlace,
     OnRoute, SwitchPlaces, StopPlaces, Alone
<1>25. BeginStop(t) => Discreet(t)
  BY <1>a DEF BeginStop, TaskOK, Holds, HolderStays, Discreet, KeepsPlace, OnRoute, SwitchPlaces, StopPlaces,
     Alone
<1>26. ASSUME StopReasoning(t) PROVE Discreet(t)
  <2>1. private' = private /\ late \subseteq late' /\ (private /\ ambient' => ambient)
    BY <1>a, <1>26 DEF StopReasoning, InterruptReasoning
  <2>2. private /\ ~capture.on => late' # {} \/ ~capture'.on
    BY <1>a, <1>26 DEF StopReasoning, InterruptReasoning
  <2>3. NothingHeard => stopLock' # t
    BY <1>a, <1>26 DEF StopReasoning, TaskOK, Holds, SpokenPlaces, Alone, InterruptReasoning, Released
  <2>4. t \in Switches => KeepsPlace(t)
    BY <1>a, <1>26 DEF StopReasoning, KeepsPlace, TaskOK, Alone, OnRoute, SwitchPlaces, StopPlaces,
       InterruptReasoning
  <2> QED BY <1>a, <2>1, <2>2, <2>3, <2>4, QuietStays DEF Discreet
<1>27. Settled(t) => Discreet(t)
  BY <1>a DEF Settled, EnderDone, TaskOK, Holds, HolderStays, Discreet, KeepsPlace, OnRoute, SwitchPlaces,
     StopPlaces, Alone
<1>28. Quieten(t) => Discreet(t)
  BY <1>a DEF Quieten, Silence, TaskOK, Holds, HolderStays, Discreet, KeepsPlace, OnRoute, SwitchPlaces,
     StopPlaces, Alone
<1>29. Silenced(t) => Discreet(t)
  BY <1>a DEF Silenced, Ask, FinishRequest, EnderDone, Ended, TaskOK, Holds, HolderStays, Discreet, KeepsPlace,
     OnRoute, SwitchPlaces, StopPlaces, Alone
<1>30. ASSUME Abort(t) PROVE Discreet(t)
  <2>1. /\ private' = private /\ late' = late /\ ambient' = ambient
        /\ stopLock = NoTask /\ at[t] \in {"aborting", "purging"}
    BY <1>30 DEF Abort
  <2>2. CASE ~capture.on
    <3>1. /\ UNCHANGED capture /\ stopLock' = NoTask
          /\ at[t] = "aborting" => at'[t] \notin {"purging", "draining", "hushing", "leaving"}
          /\ at[t] = "purging" => at'[t] \in {"hushing", "leaving"}
      BY <1>a, <2>1, <2>2, <1>30 DEF Abort, AfterAbort, Silence
    <3> QED BY <2>1, <2>2, <3>1 DEF Discreet, KeepsPlace
  <2>3. CASE capture.on /\ capture.origin = "ambient" /\ capture.loop = NoTask
    <3>1. /\ capture' = NoCapture /\ stopLock' = NoTask
          /\ at[t] = "aborting" => at'[t] \notin {"purging", "draining", "hushing", "leaving"}
          /\ at[t] = "purging" => at'[t] \in {"hushing", "leaving"}
      BY <1>a, <2>1, <2>3, <1>30 DEF Abort, AfterAbort, Silence
    <3> QED BY <2>1, <2>3, <3>1 DEF Discreet, KeepsPlace, NoCapture
  <2>4. CASE capture.on /\ ~(capture.origin = "ambient" /\ capture.loop = NoTask)
    <3>1. /\ capture' = [capture EXCEPT !.on = FALSE, !.finishing = FALSE, !.origin = "none"] /\ stopLock' = t
          /\ at'[t] = (IF at[t] = "aborting" THEN "dropping" ELSE "draining")
      BY <1>a, <2>1, <2>4, <1>30 DEF Abort
    <3>2. ~capture'.on
      BY <1>a, <3>1 DEF CaptureRecord
    <3> QED BY <2>1, <2>4, <3>1, <3>2 DEF Discreet, KeepsPlace
  <2> QED BY <2>2, <2>3, <2>4
<1>31. Dropped(t) => Discreet(t)
  BY <1>a DEF Dropped, AfterAbort, Silence, TaskOK, Holds, HolderStays, Discreet, KeepsPlace, OnRoute,
     SwitchPlaces, StopPlaces, Alone
<1>32. CancelFinisher(t) => Discreet(t)
  BY <1>a DEF CancelFinisher, Finishing, Released, Disowned, TaskOK, Holds, HolderStays, Discreet, KeepsPlace,
     OnRoute, SwitchPlaces, StopPlaces, Alone
<1>33. ASSUME Refreshed(t) PROVE Discreet(t)
  <2>1. private' = private /\ late \subseteq late' /\ (private /\ ambient' => ambient)
    BY <1>a, <1>33 DEF Refreshed, Refresh, WakeAllowed
  <2>2. private /\ ~capture.on => late' # {} \/ ~capture'.on
    BY <1>a, <1>33 DEF Refreshed, Refresh
  <2>3. NothingHeard => stopLock' # t
    BY <1>a, <1>33 DEF Refreshed, TaskOK, Holds, SpokenPlaces, Alone, Released
  <2>4. t \in Switches => KeepsPlace(t)
    BY <1>a, <1>33 DEF Refreshed, KeepsPlace, TaskOK, Alone, OnRoute, SwitchPlaces, StopPlaces, Refresh,
       WakeAllowed, Tasks, Enders
  <2> QED BY <1>a, <2>1, <2>2, <2>3, <2>4, QuietStays DEF Discreet
<1>34. Noticed(t) => Discreet(t)
  BY <1>a DEF Noticed, Silence, Alert, Answer, Released, Disowned, TaskOK, Holds, HolderStays, Discreet,
     KeepsPlace, OnRoute, SwitchPlaces, StopPlaces, Alone
<1>35. Barged(t) => Discreet(t)
  BY <1>a DEF Barged, Ended, Alert, Answer, Released, Disowned, TaskOK, Holds, HolderStays, Discreet,
     KeepsPlace, OnRoute, SwitchPlaces, StopPlaces, Alone
<1>36. Cut(t) => Discreet(t)
  BY <1>a DEF Cut, Answer, TaskOK, Holds, HolderStays, Discreet, KeepsPlace, OnRoute, SwitchPlaces, StopPlaces,
     Alone
<1>37. ASSUME ReasoningCut(t) PROVE Discreet(t)
  <2>1. private' = private /\ late \subseteq late' /\ (private /\ ambient' => ambient)
    BY <1>a, <1>37 DEF ReasoningCut, InterruptReasoning
  <2>2. private /\ ~capture.on => late' # {} \/ ~capture'.on
    BY <1>a, <1>37 DEF ReasoningCut, InterruptReasoning
  <2>3. NothingHeard => stopLock' # t
    BY <1>a, <1>37 DEF ReasoningCut, TaskOK, Holds, SpokenPlaces, Alone, InterruptReasoning, Released
  <2>4. t \in Switches => KeepsPlace(t)
    BY <1>a, <1>37 DEF ReasoningCut, KeepsPlace, TaskOK, Alone, OnRoute, SwitchPlaces, StopPlaces,
       InterruptReasoning
  <2> QED BY <1>a, <2>1, <2>2, <2>3, <2>4, QuietStays DEF Discreet
<1>38. Answering(t) => Discreet(t)
  BY <1>a DEF Answering, Answer, TaskOK, Holds, HolderStays, Discreet, KeepsPlace, OnRoute, SwitchPlaces,
     StopPlaces, Alone
<1>39. ASSUME Focused(t) PROVE Discreet(t)
  <2>1. private' = private /\ late \subseteq late' /\ (private /\ ambient' => ambient)
    BY <1>a, <1>39 DEF Focused
  <2>2. private /\ ~capture.on => late' # {} \/ ~capture'.on
    BY <1>a, <1>39 DEF Focused, CaptureRecord
  <2>3. NothingHeard => stopLock' # t
    BY <1>a, <1>39 DEF Focused, TaskOK, Holds, SpokenPlaces, Alone
  <2>4. t \in Switches => KeepsPlace(t)
    BY <1>a, <1>39 DEF Focused, KeepsPlace, TaskOK, Alone, OnRoute, SwitchPlaces, StopPlaces
  <2> QED BY <1>a, <2>1, <2>2, <2>3, <2>4, QuietStays DEF Discreet
<1> QED
  BY <1>1, <1>2, <1>3, <1>4, <1>5, <1>6, <1>7, <1>8, <1>9, <1>10, <1>11, <1>12, <1>13, <1>14, <1>15, <1>16,
     <1>17, <1>18, <1>19, <1>20, <1>21, <1>22, <1>23, <1>24, <1>25, <1>26, <1>27, <1>28, <1>29, <1>30, <1>31,
        <1>32, <1>33, <1>34, <1>35, <1>36, <1>37, <1>38, <1>39
   DEF Turn, Arrive, CaptureStep, SpeechStep, RequestStep, StopStep, ModeStep, WakeStep

\* The change of the mode keeps PrivacyInv: it goes on to purge.
LEMMA ModeChanges ==
  ASSUME TaskInv, PrivacyInv, NEW t \in Tasks, SetPrivacy(t)
  PROVE  PrivacyInv'
<1>1. /\ t \in Switches /\ at[t] = "switching" /\ private' = ~private /\ UNCHANGED late
      /\ at' = [at EXCEPT ![t] = IF private THEN "refreshing" ELSE "purging"] /\ at \in [Tasks -> Places]
  <2>1. OnRoute(t, at[t]) /\ Alone(t)
    BY Apart DEF TaskInv, TaskOK
  <2> QED
    BY <2>1 DEF SetPrivacy, AfterMode, Goto, TaskInv, OnRoute, ListenPlaces, WakePlaces, SpeechPlaces,
       SupervisorPlaces, StopPlaces, TypedPlaces, PausePlaces, AnswererPlaces, SpokenPlaces, Tasks, Starters,
          Enders,
       Answerers, ghostVars
<1>2. ASSUME NEW x \in Switches, x # t PROVE at'[x] \in {"new", "done"}
  <2>1. x \in Tasks /\ at'[x] = at[x]
    BY <1>1, <1>2, VoiceAssumption DEF Tasks
  <2>2. ~Busy(x)
    BY <1>1, <1>2 DEF TaskInv, Busy
  <2> QED BY <2>1, <2>2 DEF Busy
<1>3. at'[t] = (IF private THEN "refreshing" ELSE "purging")
  BY <1>1
<1>4. \A x \in Switches : at'[x] \in {"purging", "draining", "hushing", "leaving"} => private'
  BY <1>1, <1>2, <1>3
<1>5. private' => Purging'
  BY <1>1, <1>3 DEF Purging
<1> QED BY <1>4, <1>5 DEF PrivacyInv, Purging

\* Every step keeps PrivacyInv.
LEMMA PrivacyKept ==
  ASSUME TaskInv, MicrophoneInv, PrivacyInv, [Next]_vars
  PROVE  PrivacyInv'
<1>1. ASSUME NEW t \in Tasks, Turn(t) PROVE PrivacyInv'
  <2>1. \A x \in Switches : x # t => at'[x] = at[x]
    BY <1>1, TurnStays, Uninterrupted DEF Stay
  <2>2. CASE SetPrivacy(t)
    BY <2>2, ModeChanges
  <2>3. CASE ~SetPrivacy(t)
    BY <1>1, <2>1, <2>3, PrivacyTurn, DiscreetKeeps
  <2> QED BY <2>2, <2>3
<1>2. CASE Environs
  <2>1. \A x \in Switches : at'[x] = at[x]
    BY <1>2, EnvironsStay, Uninterrupted DEF Stay
  <2>2. private' = private /\ late' = late /\ stopLock' = stopLock /\ (private /\ ambient' => ambient)
    BY <1>2 DEF Environs, AmbientHeard, AmbientStarts, AmbientFails, modeVars, ghostVars, WakeAllowed
  <2>3. capture'.on = capture.on
    BY <1>2 DEF Environs, AmbientHeard, AmbientStarts, AmbientFails, MicrophoneInv, CaptureRecord
  <2>4. stopLock # NoTask => at'[stopLock] = at[stopLock]
    BY <1>2, <2>2, EnvironsStay DEF HolderStays
  <2>5. Discreet(NoTask)
    BY <2>2, <2>3, <2>4, Uninterrupted, VoiceAssumption DEF Discreet, NothingHeard
  <2> QED BY <2>1, <2>5, DiscreetKeeps
<1>3. CASE UNCHANGED vars
  BY <1>3 DEF vars, captureVars, modeVars, ghostVars, PrivacyInv, Purging, NothingHeard
<1> QED BY <1>1, <1>2, <1>3 DEF Next, Turn, Environs

\* At the start the mode is not private.
LEMMA PrivacyInit ==
  Init => PrivacyInv
<1>1. ASSUME Init, NEW x \in Switches PROVE at[x] \in {"new", "connecting"}
  BY <1>1, VoiceAssumption DEF Init, Tasks
<1> QED BY <1>1 DEF Init, PrivacyInv, Purging

\* Once no change of mode is under way, nothing records.
LEMMA PrivacyDeaf ==
  TaskInv /\ MicrophoneInv /\ PrivacyInv => DeafWhenPrivate
<1> SUFFICES ASSUME TaskInv, MicrophoneInv, PrivacyInv, private, ~Changing, late = {}, ~overlapped, ~orphaned
             PROVE  ~capture.on /\ open = {} /\ ~ambient
  BY DEF DeafWhenPrivate
<1>1. \A x \in Switches : at[x] \in {"new", "done"}
  BY DEF Changing, Busy
<1>2. NothingHeard /\ ~ambient
  BY <1>1 DEF PrivacyInv, Purging
<1>3. ~Inactive(stopLock)
  <2>1. CASE stopLock # NoTask /\ at[stopLock] = "draining"
    <3>1. stopLock \in Tasks /\ OnRoute(stopLock, "draining")
      BY <2>1 DEF TaskInv, TaskOK
    <3>2. stopLock \in Switches
      BY <3>1 DEF OnRoute, ListenPlaces, WakePlaces, SpeechPlaces, SupervisorPlaces, StopPlaces, TypedPlaces,
         PausePlaces, AnswererPlaces, SpokenPlaces, Tasks, Starters, Enders, Answerers
    <3> QED BY <1>1, <2>1, <3>2
  <2> QED BY <1>2, <2>1 DEF NothingHeard, Inactive
<1> QED BY <1>2, <1>3 DEF MicrophoneInv, NothingHeard

--------------------------------------------------------------------------------
(* The core                                                                   *)

\* A wake word has ended the transcription.
Cutting == \E w \in Wakes : at[w] = "cutting"

\* Whoever takes the core out of each of its states.
Listening == capture.on \/ Inactive(stopLock)
Transcribing == Cutting \/ (stopLock \in Answerers /\ at[stopLock] \in SpokenPlaces)
Thinking == interactive # NoTask /\ at[interactive] = "thinking"
Speaking == ttsLock # NoTask /\ at[ttsLock] = "playing"

Attended ==
  \/ core = "DORMANT"
  \/ core = "LISTENING" /\ Listening
  \/ core = "TRANSCRIBING" /\ Transcribing
  \/ core = "THINKING" /\ Thinking
  \/ core = "SPEAKING" /\ Speaking

CoreInv == untouched \/ late # {} \/ Attended

\* A step of t that leaves the core alone or at rest, and whoever attends to it in place.
Spared(t) ==
  /\ core' \in {core, "DORMANT"}
  /\ core' = "LISTENING" => capture'.on = capture.on /\ at[t] \notin {"dropping", "draining"}
  /\ core' = "TRANSCRIBING" =>
       /\ at[t] # "cutting"
       /\ stopLock \in Answerers /\ at[stopLock] \in SpokenPlaces => stopLock' = stopLock
       /\ t \in Answerers /\ at[t] \in SpokenPlaces => at'[t] \in SpokenPlaces
  /\ core' = "THINKING" => at[t] # "thinking" /\ (interactive' = interactive \/ interactive \in {NoTask, t})
  /\ core' = "SPEAKING" => at[t] # "playing" /\ (ttsLock' = ttsLock \/ ttsLock \in {NoTask, t})

CoreStep(t) ==
  /\ late \subseteq late' /\ (untouched => untouched')
  /\ untouched' \/ late' # {} \/ Attended' \/ Spared(t)

\* A step that takes the core on, or leaves who attends to it in place, keeps CoreInv.
LEMMA CoreStepKeeps ==
  ASSUME TaskInv, SpeechInv, CoreInv, NEW t \in Tasks, Turn(t), CoreStep(t)
  PROVE  CoreInv'
<1>a. /\ HolderStays(t) /\ ThinkerStays(t) /\ NoTask \notin Tasks /\ Answerers \subseteq Tasks
      /\ \A s \in Speeches \cup Wakes : s # t => at'[s] = at[s]
  BY TurnStays, Uninterrupted, VoiceAssumption DEF Stay, Tasks, Enders, Answerers
<1>1. CASE untouched' \/ late' # {} \/ Attended'
  BY <1>1 DEF CoreInv
<1>2. CASE ~untouched' /\ late' = {} /\ Spared(t)
  <2>1. Attended
    BY <1>2 DEF CoreStep, CoreInv
  <2>2. CASE core' = "DORMANT"
    BY <2>2 DEF CoreInv, Attended
  <2>3. CASE core' = "LISTENING"
    <3>1. Listening /\ capture'.on = capture.on /\ at[t] \notin {"dropping", "draining"}
      BY <1>2, <2>1, <2>3 DEF Attended, Spared
    <3>2. Inactive(stopLock) => stopLock' = stopLock /\ at'[stopLock] = at[stopLock]
      BY <3>1, InactiveStays DEF Inactive
    <3>3. Listening'
      BY <3>1, <3>2 DEF Listening, Inactive
    <3> QED BY <2>3, <3>3 DEF CoreInv, Attended
  <2>4. CASE core' = "TRANSCRIBING"
    <3>1. /\ Transcribing /\ at[t] # "cutting"
          /\ stopLock \in Answerers /\ at[stopLock] \in SpokenPlaces => stopLock' = stopLock
          /\ t \in Answerers /\ at[t] \in SpokenPlaces => at'[t] \in SpokenPlaces
      BY <1>2, <2>1, <2>4 DEF Attended, Spared
    <3>2. CASE Cutting
      BY <1>a, <2>4, <3>1, <3>2 DEF CoreInv, Attended, Transcribing, Cutting
    <3>3. CASE stopLock \in Answerers /\ at[stopLock] \in SpokenPlaces
      <4>1. stopLock' = stopLock /\ (stopLock # t => at'[stopLock] = at[stopLock])
        BY <1>a, <3>1, <3>3 DEF HolderStays
      <4>2. Transcribing'
        BY <3>1, <3>3, <4>1 DEF Transcribing
      <4> QED BY <2>4, <4>2 DEF CoreInv, Attended
    <3> QED BY <3>1, <3>2, <3>3 DEF Transcribing
  <2>5. CASE core' = "THINKING"
    <3>1. Thinking /\ at[t] # "thinking" /\ (interactive' = interactive \/ interactive \in {NoTask, t})
      BY <1>2, <2>1, <2>5 DEF Attended, Spared
    <3>2. Thinking'
      BY <1>a, <3>1 DEF Thinking, ThinkerStays
    <3> QED BY <2>5, <3>2 DEF CoreInv, Attended
  <2>6. CASE core' = "SPEAKING"
    <3>1. Speaking /\ at[t] # "playing" /\ (ttsLock' = ttsLock \/ ttsLock \in {NoTask, t})
      BY <1>2, <2>1, <2>6 DEF Attended, Spared
    <3>2. Speaking'
      BY <1>a, <3>1 DEF Speaking, SpeechInv, SpeechTypes
    <3> QED BY <2>6, <3>2 DEF CoreInv, Attended
  <2>7. core' \in {"DORMANT", "LISTENING", "TRANSCRIBING", "THINKING", "SPEAKING"}
    BY <1>2, <2>1 DEF Attended, Spared
  <2> QED BY <2>2, <2>3, <2>4, <2>5, <2>6, <2>7
<1> QED BY <1>1, <1>2 DEF CoreStep

\* The end of a capture goes on with its transcription, or the core comes to rest.
LEMMA Collected ==
  ASSUME NEW t \in Tasks, Collect(t), at \in [Tasks -> Places], t # supervisor => t \in Answerers,
         t # NoTask, at[t] \in {"closing", "emptying"}, at[t] \notin SpokenPlaces, stopLock \in {NoTask, t},
         NoTask \notin Answerers, UNCHANGED <<late, untouched, interactive, ttsLock>>
  PROVE  CoreStep(t)
<1>1. \/ core' \in {core, "DORMANT"}
      \/ core' = "TRANSCRIBING" /\ stopLock' = t /\ at'[t] = "transcribing" /\ t # supervisor
  BY DEF Collect, DormantFrom, Goto
<1>2. core' = "LISTENING" => core # "LISTENING"
  BY DEF Collect, DormantFrom, CanMove, AllowedTransitions
<1>3. core' = "TRANSCRIBING" /\ stopLock' = t /\ at'[t] = "transcribing" /\ t # supervisor => Attended'
  BY DEF Attended, Transcribing, SpokenPlaces
<1> QED BY <1>1, <1>2, <1>3 DEF CoreStep, Spared

\* Every step of a task is one, but the end of a recording.
LEMMA CoreTurn ==
  ASSUME TaskInv, SpeechInv, MicrophoneInv, PrivacyInv, CoreInv, NEW t \in Tasks, Turn(t),
         ~(SpeechHeard(t) \/ StreamFails(t))
  PROVE  CoreStep(t)
<1> USE DEF Goto, Done, Comes, captureVars, ghostVars, speechVars, requestVars, modeVars, CoreStep, Spared
<1>a. /\ at \in [Tasks -> Places] /\ TaskOK(t) /\ Alone(t) /\ capture \in CaptureRecord /\ SpeechOK(t)
      /\ stopLock \in Tasks \cup {NoTask} /\ NoTask \notin Tasks /\ NoTask \notin Answerers
  BY Apart, VoiceAssumption DEF TaskInv, MicrophoneInv, SpeechInv, Tasks, Enders, Answerers
<1>b. supervisor \in Tasks /\ Alone(supervisor)
  BY Apart DEF Tasks, Enders
<1>1. Listen(t) => CoreStep(t)
  BY <1>a DEF Listen, StartCapture, StarterDone, TaskOK, Holds, SpokenPlaces, SpeechOK, Alone
<1>2. Close(t) => CoreStep(t)
  BY <1>a DEF Close, TaskOK, Holds, SpokenPlaces, SpeechOK, Alone
<1>3. Say(t) => CoreStep(t)
  BY <1>a DEF Say, TaskOK, Holds, SpokenPlaces, SpeechOK, Alone
<1>4. ClaimReminder(t) => CoreStep(t)
  BY <1>a DEF ClaimReminder, TaskOK, Holds, SpokenPlaces, SpeechOK, Alone
<1>5. Type(t) => CoreStep(t)
  BY <1>a DEF Type, AskTyped, Silence, Ask, FinishRequest, EnderDone, TaskOK, Holds, SpokenPlaces, SpeechOK,
     Alone
<1>6. Pause(t) => CoreStep(t)
  BY <1>a DEF Pause, TaskOK, Holds, SpokenPlaces, SpeechOK, Alone
<1>7. Wake(t) => CoreStep(t)
  BY <1>a DEF Wake, TaskOK, Holds, SpokenPlaces, SpeechOK, Alone
<1>8. FollowUp(t) => CoreStep(t)
  BY <1>a DEF FollowUp, StartCapture, StarterDone, TaskOK, Holds, SpokenPlaces, SpeechOK, Alone
<1>9. ASSUME Transcribed(t) PROVE CoreStep(t)
  <2>1. late' = late /\ untouched' = untouched /\ core' \in {core, "DORMANT"}
    BY <1>9 DEF Transcribed, Dormant, EnderDone
  <2>2. core' = "LISTENING" => capture'.on = capture.on /\ at[t] \notin {"dropping", "draining"}
    BY <1>9 DEF Transcribed, Dormant, EnderDone
  <2>3. core' = "TRANSCRIBING" =>
          /\ at[t] # "cutting"
          /\ stopLock \in Answerers /\ at[stopLock] \in SpokenPlaces => stopLock' = stopLock
          /\ t \in Answerers /\ at[t] \in SpokenPlaces => at'[t] \in SpokenPlaces
    BY <1>a, <1>9 DEF Transcribed, Dormant, EnderDone, TaskOK, Holds, SpokenPlaces, Alone
  <2>4. core' = "THINKING" => at[t] # "thinking" /\ (interactive' = interactive \/ interactive \in {NoTask, t})
    BY <1>a, <1>9 DEF Transcribed, Dormant, EnderDone
  <2>5. core' = "SPEAKING" => at[t] # "playing" /\ (ttsLock' = ttsLock \/ ttsLock \in {NoTask, t})
    BY <1>a, <1>9 DEF Transcribed, Dormant, EnderDone
  <2> QED BY <2>1, <2>2, <2>3, <2>4, <2>5
<1>10. ASSUME Verified(t) PROVE CoreStep(t)
  <2>1. late' = late /\ untouched' = untouched /\ core' \in {core, "DORMANT"}
    BY <1>10 DEF Verified, Dormant, EnderDone
  <2>2. core' = "LISTENING" => capture'.on = capture.on /\ at[t] \notin {"dropping", "draining"}
    BY <1>10 DEF Verified, Dormant, EnderDone
  <2>3. core' = "TRANSCRIBING" =>
          /\ at[t] # "cutting"
          /\ stopLock \in Answerers /\ at[stopLock] \in SpokenPlaces => stopLock' = stopLock
          /\ t \in Answerers /\ at[t] \in SpokenPlaces => at'[t] \in SpokenPlaces
    BY <1>a, <1>10 DEF Verified, Dormant, EnderDone, TaskOK, Holds, SpokenPlaces, Alone
  <2>4. core' = "THINKING" => at[t] # "thinking" /\ (interactive' = interactive \/ interactive \in {NoTask, t})
    BY <1>a, <1>10 DEF Verified, Dormant, EnderDone
  <2>5. core' = "SPEAKING" => at[t] # "playing" /\ (ttsLock' = ttsLock \/ ttsLock \in {NoTask, t})
    BY <1>a, <1>10 DEF Verified, Dormant, EnderDone
  <2> QED BY <2>1, <2>2, <2>3, <2>4, <2>5
<1>11. SpeakReminder(t) => CoreStep(t)
  BY <1>a DEF SpeakReminder, Begin, TaskOK, Holds, SpokenPlaces, SpeechOK, Alone
<1>12. BeginSpeech(t) => CoreStep(t)
  BY <1>a DEF BeginSpeech, Begin, TaskOK, Holds, SpokenPlaces, SpeechOK, Alone
<1>13. ASSUME Synthesised(t) PROVE CoreStep(t)
  <2>1. late' = late /\ untouched' = untouched /\ core' \in {core, "DORMANT"}
    BY <1>13 DEF Synthesised, SpeechOver
  <2>2. core' = "LISTENING" => capture'.on = capture.on /\ at[t] \notin {"dropping", "draining"}
    BY <1>13 DEF Synthesised, SpeechOver
  <2>3. core' = "TRANSCRIBING" =>
          /\ at[t] # "cutting"
          /\ stopLock \in Answerers /\ at[stopLock] \in SpokenPlaces => stopLock' = stopLock
          /\ t \in Answerers /\ at[t] \in SpokenPlaces => at'[t] \in SpokenPlaces
    BY <1>a, <1>13 DEF Synthesised, SpeechOver, TaskOK, Holds, SpokenPlaces, Alone, OnRoute, AnswererPlaces
  <2>4. core' = "THINKING" => at[t] # "thinking" /\ (interactive' = interactive \/ interactive \in {NoTask, t})
    BY <1>a, <1>13 DEF Synthesised, SpeechOver
  <2>5. core' = "SPEAKING" => at[t] # "playing" /\ (ttsLock' = ttsLock \/ ttsLock \in {NoTask, t})
    BY <1>a, <1>13 DEF Synthesised, SpeechOver, SpeechOK, Tasks, Starters, Enders, Answerers, OnRoute,
       ListenPlaces, WakePlaces, SupervisorPlaces, StopPlaces, SwitchPlaces, TypedPlaces, PausePlaces,
          AnswererPlaces, SpokenPlaces, TaskOK
  <2> QED BY <2>1, <2>2, <2>3, <2>4, <2>5
<1>14. ASSUME Played(t) PROVE CoreStep(t)
  <2>1. late' = late /\ untouched' = untouched /\ core' \in {core, "DORMANT"}
    BY <1>14 DEF Played, DormantFrom, SpeechOver
  <2>2. core' = "LISTENING" => capture'.on = capture.on /\ at[t] \notin {"dropping", "draining"}
    BY <1>14 DEF Played, DormantFrom, SpeechOver
  <2>3. core' = "TRANSCRIBING" =>
          /\ at[t] # "cutting"
          /\ stopLock \in Answerers /\ at[stopLock] \in SpokenPlaces => stopLock' = stopLock
          /\ t \in Answerers /\ at[t] \in SpokenPlaces => at'[t] \in SpokenPlaces
    BY <1>a, <1>14 DEF Played, DormantFrom, SpeechOver, TaskOK, Holds, SpokenPlaces, Alone, OnRoute,
       AnswererPlaces
  <2>4. core' = "THINKING" => at[t] # "thinking" /\ (interactive' = interactive \/ interactive \in {NoTask, t})
    BY <1>a, <1>14 DEF Played, DormantFrom, SpeechOver
  <2>5. core' = "SPEAKING" => at[t] # "playing" /\ (ttsLock' = ttsLock \/ ttsLock \in {NoTask, t})
    BY <1>a, <1>14 DEF Played, DormantFrom, SpeechOver, SpeechOK, Tasks, Starters, Enders, Answerers, OnRoute,
       ListenPlaces, WakePlaces, SupervisorPlaces, StopPlaces, SwitchPlaces, TypedPlaces, PausePlaces,
          AnswererPlaces, SpokenPlaces, TaskOK
  <2> QED BY <2>1, <2>2, <2>3, <2>4, <2>5
<1>15. AskSpoken(t) => CoreStep(t)
  BY <1>a DEF AskSpoken, Ask, FinishRequest, EnderDone, TaskOK, Holds, SpokenPlaces, SpeechOK, Alone
<1>16. AnswerRequest(t) => CoreStep(t)
  BY <1>a DEF AnswerRequest, FinishRequest, EnderDone, TaskOK, Holds, SpokenPlaces, SpeechOK, Alone
<1>17. BeginStop(t) => CoreStep(t)
  BY <1>a DEF BeginStop, TaskOK, Holds, SpokenPlaces, SpeechOK, Alone
<1>18. ASSUME StopReasoning(t) PROVE CoreStep(t)
  <2>1. late' = late /\ untouched' = untouched /\ core' \in {core, "DORMANT"}
    BY <1>18 DEF StopReasoning, InterruptReasoning, Dormant, Released
  <2>2. core' = "LISTENING" => capture'.on = capture.on /\ at[t] \notin {"dropping", "draining"}
    BY <1>18 DEF StopReasoning, InterruptReasoning, Dormant, Released
  <2>3. core' = "TRANSCRIBING" =>
          /\ at[t] # "cutting"
          /\ stopLock \in Answerers /\ at[stopLock] \in SpokenPlaces => stopLock' = stopLock
          /\ t \in Answerers /\ at[t] \in SpokenPlaces => at'[t] \in SpokenPlaces
    BY <1>a, <1>18 DEF StopReasoning, InterruptReasoning, Dormant, Released, TaskOK, Holds, SpokenPlaces, Alone
  <2>4. core' = "THINKING" => at[t] # "thinking" /\ (interactive' = interactive \/ interactive \in {NoTask, t})
    BY <1>a, <1>18 DEF StopReasoning, InterruptReasoning, Dormant, Released
  <2>5. core' = "SPEAKING" => at[t] # "playing" /\ (ttsLock' = ttsLock \/ ttsLock \in {NoTask, t})
    BY <1>a, <1>18 DEF StopReasoning, InterruptReasoning, Dormant, Released
  <2> QED BY <2>1, <2>2, <2>3, <2>4, <2>5
<1>19. ASSUME Settled(t) PROVE CoreStep(t)
  <2>1. late' = late /\ untouched' = untouched /\ core' \in {core, "DORMANT"}
    BY <1>19 DEF Settled, Dormant, EnderDone
  <2>2. core' = "LISTENING" => capture'.on = capture.on /\ at[t] \notin {"dropping", "draining"}
    BY <1>19 DEF Settled, Dormant, EnderDone
  <2>3. core' = "TRANSCRIBING" =>
          /\ at[t] # "cutting"
          /\ stopLock \in Answerers /\ at[stopLock] \in SpokenPlaces => stopLock' = stopLock
          /\ t \in Answerers /\ at[t] \in SpokenPlaces => at'[t] \in SpokenPlaces
    BY <1>a, <1>19 DEF Settled, Dormant, EnderDone, TaskOK, Holds, SpokenPlaces, Alone
  <2>4. core' = "THINKING" => at[t] # "thinking" /\ (interactive' = interactive \/ interactive \in {NoTask, t})
    BY <1>a, <1>19 DEF Settled, Dormant, EnderDone
  <2>5. core' = "SPEAKING" => at[t] # "playing" /\ (ttsLock' = ttsLock \/ ttsLock \in {NoTask, t})
    BY <1>a, <1>19 DEF Settled, Dormant, EnderDone
  <2> QED BY <2>1, <2>2, <2>3, <2>4, <2>5
<1>20. Quieten(t) => CoreStep(t)
  BY <1>a DEF Quieten, Silence, TaskOK, Holds, SpokenPlaces, SpeechOK, Alone
<1>21. ASSUME Silenced(t) PROVE CoreStep(t)
  <2>1. late' = late /\ untouched' = untouched /\ core' \in {core, "DORMANT"}
    BY <1>21 DEF Silenced, DormantFrom, Ask, FinishRequest, EnderDone
  <2>2. core' = "LISTENING" => capture'.on = capture.on /\ at[t] \notin {"dropping", "draining"}
    BY <1>21 DEF Silenced, DormantFrom, Ask, FinishRequest, EnderDone
  <2>3. core' = "TRANSCRIBING" =>
          /\ at[t] # "cutting"
          /\ stopLock \in Answerers /\ at[stopLock] \in SpokenPlaces => stopLock' = stopLock
          /\ t \in Answerers /\ at[t] \in SpokenPlaces => at'[t] \in SpokenPlaces
    BY <1>a, <1>21 DEF Silenced, DormantFrom, Ask, FinishRequest, EnderDone, TaskOK, Holds, SpokenPlaces, Alone
  <2>4. core' = "THINKING" => at[t] # "thinking" /\ (interactive' = interactive \/ interactive \in {NoTask, t})
    BY <1>a, <1>21 DEF Silenced, DormantFrom, Ask, FinishRequest, EnderDone
  <2>5. core' = "SPEAKING" => at[t] # "playing" /\ (ttsLock' = ttsLock \/ ttsLock \in {NoTask, t})
    BY <1>a, <1>21 DEF Silenced, DormantFrom, Ask, FinishRequest, EnderDone
  <2> QED BY <2>1, <2>2, <2>3, <2>4, <2>5
<1>22. Dropped(t) => CoreStep(t)
  BY <1>a DEF Dropped, AfterAbort, Silence, TaskOK, Holds, SpokenPlaces, SpeechOK, Alone, Aborted
<1>23. SetPrivacy(t) => CoreStep(t)
  BY <1>a DEF SetPrivacy, AfterMode, TaskOK, Holds, SpokenPlaces, SpeechOK, Alone
<1>24. ASSUME Refreshed(t) PROVE CoreStep(t)
  <2>1. late' = late /\ untouched' = untouched /\ core' \in {core, "DORMANT"}
    BY <1>24 DEF Refreshed, Refresh, Released
  <2>2. core' = "LISTENING" => capture'.on = capture.on /\ at[t] \notin {"dropping", "draining"}
    BY <1>24 DEF Refreshed, Refresh, Released
  <2>3. core' = "TRANSCRIBING" =>
          /\ at[t] # "cutting"
          /\ stopLock \in Answerers /\ at[stopLock] \in SpokenPlaces => stopLock' = stopLock
          /\ t \in Answerers /\ at[t] \in SpokenPlaces => at'[t] \in SpokenPlaces
    BY <1>a, <1>24, <1>b DEF Refreshed, Refresh, Released, TaskOK, Holds, SpokenPlaces, Alone, Answerers
  <2>4. core' = "THINKING" => at[t] # "thinking" /\ (interactive' = interactive \/ interactive \in {NoTask, t})
    BY <1>a, <1>24 DEF Refreshed, Refresh, Released
  <2>5. core' = "SPEAKING" => at[t] # "playing" /\ (ttsLock' = ttsLock \/ ttsLock \in {NoTask, t})
    BY <1>a, <1>24 DEF Refreshed, Refresh, Released
  <2> QED BY <2>1, <2>2, <2>3, <2>4, <2>5
<1>25. ASSUME ReasoningCut(t) PROVE CoreStep(t)
  <2>1. late' = late /\ untouched' = untouched /\ core' \in {core, "DORMANT"}
    BY <1>25 DEF ReasoningCut, InterruptReasoning, Dormant, Released
  <2>2. core' = "LISTENING" => capture'.on = capture.on /\ at[t] \notin {"dropping", "draining"}
    BY <1>25 DEF ReasoningCut, InterruptReasoning, Dormant, Released
  <2>3. core' = "TRANSCRIBING" =>
          /\ at[t] # "cutting"
          /\ stopLock \in Answerers /\ at[stopLock] \in SpokenPlaces => stopLock' = stopLock
          /\ t \in Answerers /\ at[t] \in SpokenPlaces => at'[t] \in SpokenPlaces
    BY <1>a, <1>25 DEF ReasoningCut, InterruptReasoning, Dormant, Released, TaskOK, Holds, SpokenPlaces, Alone,
       OnRoute, AnswererPlaces
  <2>4. core' = "THINKING" => at[t] # "thinking" /\ (interactive' = interactive \/ interactive \in {NoTask, t})
    BY <1>a, <1>25 DEF ReasoningCut, InterruptReasoning, Dormant, Released
  <2>5. core' = "SPEAKING" => at[t] # "playing" /\ (ttsLock' = ttsLock \/ ttsLock \in {NoTask, t})
    BY <1>a, <1>25 DEF ReasoningCut, InterruptReasoning, Dormant, Released
  <2> QED BY <2>1, <2>2, <2>3, <2>4, <2>5
<1>26. ASSUME SourceFound(t) PROVE CoreStep(t)
  <2>1. late \subseteq late' /\ untouched' = untouched
    BY <1>26 DEF SourceFound, Activate
  <2>2. \/ core' \in {core, "DORMANT"} /\ capture' = capture
        \/ core' \in {core, "LISTENING"} /\ capture'.on
    BY <1>a, <1>26, CaptureActive DEF SourceFound, Activate
  <2>3. core' = "TRANSCRIBING" =>
          /\ at[t] # "cutting"
          /\ stopLock \in Answerers /\ at[stopLock] \in SpokenPlaces => stopLock' = stopLock
          /\ t \in Answerers /\ at[t] \in SpokenPlaces => at'[t] \in SpokenPlaces
    BY <1>a, <1>26 DEF SourceFound, StarterDone, Activate, TaskOK, Holds, SpokenPlaces, Alone, OnRoute,
       AnswererPlaces
  <2>4. core' = "THINKING" => at[t] # "thinking" /\ (interactive' = interactive \/ interactive \in {NoTask, t})
    BY <1>a, <1>26 DEF SourceFound, StarterDone, Activate
  <2>5. core' = "SPEAKING" => at[t] # "playing" /\ (ttsLock' = ttsLock \/ ttsLock \in {NoTask, t})
    BY <1>a, <1>26 DEF SourceFound, StarterDone, Activate, SpeechOK, OnRoute, ListenPlaces, WakePlaces,
       SpeechPlaces, SupervisorPlaces, StopPlaces, SwitchPlaces, TypedPlaces, PausePlaces, AnswererPlaces,
          Tasks, Starters, Enders, Answerers, SpokenPlaces, TaskOK
  <2>6. core' = "LISTENING" /\ capture'.on => Attended'
    BY DEF Attended, Listening
  <2>7. at[t] \notin {"dropping", "draining"}
    BY <1>26 DEF SourceFound
  <2> QED BY <2>1, <2>2, <2>3, <2>4, <2>5, <2>6, <2>7
<1>27. ASSUME Opened(t) PROVE CoreStep(t)
  <2>1. late \subseteq late' /\ untouched' = untouched
    BY <1>27 DEF Opened, Activate
  <2>2. \/ core' \in {core, "DORMANT"} /\ capture' = capture
        \/ core' \in {core, "LISTENING"} /\ capture'.on
    BY <1>a, <1>27, CaptureActive DEF Opened, Activate
  <2>3. core' = "TRANSCRIBING" =>
          /\ at[t] # "cutting"
          /\ stopLock \in Answerers /\ at[stopLock] \in SpokenPlaces => stopLock' = stopLock
          /\ t \in Answerers /\ at[t] \in SpokenPlaces => at'[t] \in SpokenPlaces
    BY <1>a, <1>27 DEF Opened, StarterDone, Activate, TaskOK, Holds, SpokenPlaces, Alone, OnRoute,
       AnswererPlaces
  <2>4. core' = "THINKING" => at[t] # "thinking" /\ (interactive' = interactive \/ interactive \in {NoTask, t})
    BY <1>a, <1>27 DEF Opened, StarterDone, Activate
  <2>5. core' = "SPEAKING" => at[t] # "playing" /\ (ttsLock' = ttsLock \/ ttsLock \in {NoTask, t})
    BY <1>a, <1>27 DEF Opened, StarterDone, Activate, SpeechOK, OnRoute, ListenPlaces, WakePlaces,
       SpeechPlaces, SupervisorPlaces, StopPlaces, SwitchPlaces, TypedPlaces, PausePlaces, AnswererPlaces,
          Tasks, Starters, Enders, Answerers, SpokenPlaces, TaskOK
  <2>6. core' = "LISTENING" /\ capture'.on => Attended'
    BY DEF Attended, Listening
  <2>7. at[t] \notin {"dropping", "draining"}
    BY <1>27 DEF Opened
  <2> QED BY <2>1, <2>2, <2>3, <2>4, <2>5, <2>6, <2>7
<1>28. ASSUME TakeCapture(t) PROVE CoreStep(t)
  <2>1. /\ UNCHANGED <<late, untouched, interactive, ttsLock>> /\ at[t] = "closing" /\ stopLock = NoTask
    BY <1>28 DEF TakeCapture
  <2>2. NoTask \notin Answerers /\ at[t] \notin SpokenPlaces
    BY <1>a, <2>1, VoiceAssumption DEF SpokenPlaces, Answerers, Tasks, Enders
  <2>3. t # supervisor => t \in Answerers
    BY <1>a, <2>1 DEF TaskOK, Tasks, Starters, Enders, Answerers, OnRoute, ListenPlaces, WakePlaces,
       SpeechPlaces,
       StopPlaces, SwitchPlaces, TypedPlaces, PausePlaces
  <2>4. Collect(t) => CoreStep(t)
    BY <1>a, <2>1, <2>2, <2>3, Collected
  <2>5. ~Collect(t) => core' = core /\ capture'.on = capture.on
    BY <1>a, <1>28 DEF TakeCapture, CaptureRecord
  <2>6. ~Collect(t) => CoreStep(t)
    BY <2>1, <2>2, <2>5
  <2> QED BY <2>4, <2>6
<1>29. ASSUME Emptied(t) PROVE CoreStep(t)
  <2>1. /\ UNCHANGED <<late, untouched, interactive, ttsLock>> /\ at[t] = "emptying" /\ Collect(t)
    BY <1>29 DEF Emptied
  <2>2. at[t] \notin SpokenPlaces /\ stopLock = t
    BY <1>a, <2>1 DEF SpokenPlaces, TaskOK, Holds
  <2>3. t # supervisor => t \in Answerers
    BY <1>a, <2>1 DEF TaskOK, Tasks, Starters, Enders, Answerers, OnRoute, ListenPlaces, WakePlaces,
       SpeechPlaces,
       StopPlaces, SwitchPlaces, TypedPlaces, PausePlaces
  <2> QED BY <1>a, <2>1, <2>2, <2>3, Collected
<1>30. ASSUME PlayerStarted(t) PROVE CoreStep(t)
  <2>1. /\ UNCHANGED <<late, untouched, stopLock, interactive, capture>> /\ at[t] = "starting"
        /\ \/ core' = "SPEAKING" /\ at'[t] = "playing" /\ ttsLock' = ttsLock
           \/ core' = core /\ ttsLock' \in {NoTask, t}
    BY <1>a, <1>30 DEF PlayerStarted, SpeechOver
  <2>2. t \in Speeches /\ ttsLock = t /\ t \notin Answerers
    BY <1>a, <2>1 DEF SpeechOK, TaskOK, Tasks, Starters, Enders, Answerers, OnRoute, ListenPlaces, WakePlaces,
       SupervisorPlaces, StopPlaces, SwitchPlaces, TypedPlaces, PausePlaces, AnswererPlaces, SpokenPlaces
  <2>3. core' = "SPEAKING" /\ at'[t] = "playing" /\ ttsLock' = ttsLock => Attended'
    BY <1>a, <2>2 DEF Attended, Speaking
  <2> QED BY <2>1, <2>2, <2>3
<1>31. ASSUME Think(t) PROVE CoreStep(t)
  <2>1. /\ UNCHANGED <<late, ttsLock, capture>> /\ at[t] = "asked" /\ interactive = t /\ t # NoTask
    BY <1>a, <1>31 DEF Think, TaskOK
  <2>2. \/ core' = core /\ t \in Typed /\ stopLock' = stopLock /\ (untouched => untouched')
        \/ untouched'
        \/ core' = "THINKING" /\ at'[t] = "thinking" /\ interactive' = interactive /\ (untouched => untouched')
        \/ core' = "DORMANT" /\ (untouched => untouched')
    BY <1>a, <1>31 DEF Think, FinishRequest, Dormant
  <2>3. core' = "THINKING" /\ at'[t] = "thinking" /\ interactive' = interactive => Attended'
    BY <2>1 DEF Attended, Thinking
  <2>4. t \in Typed => t \notin Answerers
    BY <1>a DEF Alone
  <2> QED BY <2>1, <2>2, <2>3, <2>4
<1>32. ASSUME Abort(t) PROVE CoreStep(t)
  <2>1. /\ UNCHANGED <<late, untouched, ttsLock>> /\ at[t] \in {"aborting", "purging"} /\ stopLock = NoTask
    BY <1>32 DEF Abort
  <2>2. NoTask \notin Answerers /\ ~(t \in Answerers /\ at[t] \in SpokenPlaces)
    BY <1>a, <2>1, VoiceAssumption DEF TaskOK, Holds, Answerers, Tasks, Enders
  <2>3. core' \in {core, "DORMANT"} /\ (interactive' = interactive \/ interactive = NoTask)
    BY <1>32 DEF Abort, AfterAbort, Aborted, Silence
  <2>4. core' = "LISTENING" => capture' = capture \/ Inactive(stopLock)'
    BY <1>a, <1>32 DEF Abort, AfterAbort, Aborted, Silence, Inactive
  <2>5. core' = "LISTENING" /\ Inactive(stopLock)' => Attended'
    BY DEF Attended, Listening
  <2> QED BY <2>1, <2>2, <2>3, <2>4, <2>5
<1>33. ASSUME CancelFinisher(t) PROVE CoreStep(t)
  <2>1. /\ UNCHANGED <<core, late, untouched, ttsLock, capture>> /\ at[t] = "leaving"
        /\ UNCHANGED <<stopLock, interactive>> \/ (Released(autoStop) /\ Disowned(autoStop) /\ Finishing)
    BY <1>33 DEF CancelFinisher
  <2>2. t \in Switches /\ t \notin Answerers
    BY <1>a, <2>1 DEF TaskOK, Tasks, Starters, Enders, Answerers, OnRoute, ListenPlaces, WakePlaces,
       SpeechPlaces,
       SupervisorPlaces, StopPlaces, TypedPlaces, PausePlaces, AnswererPlaces, SpokenPlaces
  <2>3. private /\ ~Purging
    BY <2>1, <2>2 DEF PrivacyInv, Purging, TaskInv, Busy
  <2>4. late # {} \/ (stopLock # NoTask => at[stopLock] = "draining")
    BY <2>3 DEF PrivacyInv, NothingHeard
  <2>5. Finishing => autoStop \in Finishers /\ autoStop # NoTask /\ TaskOK(autoStop)
    BY FinisherKind DEF Finishing, TaskInv
  <2>6. late # {} \/ ~Finishing \/ (stopLock # autoStop /\ interactive # autoStop)
    BY <2>4, <2>5 DEF TaskOK, Holds, OnRoute, Answerers, AnswererPlaces, SpokenPlaces
  <2>7. late # {} \/ UNCHANGED <<stopLock, interactive>>
    BY <2>1, <2>6 DEF Released, Disowned
  <2> QED BY <2>1, <2>2, <2>7
<1>34. ASSUME Noticed(t) PROVE CoreStep(t)
  <2>1. /\ late \subseteq late' /\ UNCHANGED <<untouched, ttsLock>> /\ at[t] = "noticed"
    BY <1>34 DEF Noticed, Silence, Alert, Answer
  <2>2. t \in Wakes /\ t \notin Answerers
    BY <1>a, <2>1 DEF TaskOK, Tasks, Starters, Enders, Answerers, OnRoute, ListenPlaces, SpeechPlaces,
       StopPlaces,
       SupervisorPlaces, SwitchPlaces, TypedPlaces, PausePlaces, AnswererPlaces, SpokenPlaces
  <2>3. \/ core' \in {core, "DORMANT"} /\ UNCHANGED <<capture, stopLock, interactive>>
        \/ \E now : Alert(t, now) /\ now \in {core, "DORMANT"}
    BY <1>34 DEF Noticed, Silence
  <2>4. ASSUME NEW now, Alert(t, now), now \in {core, "DORMANT"}
        PROVE  \/ core' \in {core, "DORMANT"} /\ UNCHANGED <<capture, stopLock, interactive>>
               \/ core' = "TRANSCRIBING" /\ at'[t] = "cutting"
               \/ core' = "LISTENING" /\ capture'.on
    <3>1. Answer(t, now) => \/ core' \in {core, "DORMANT"} /\ UNCHANGED capture
                            \/ core' = "LISTENING" /\ capture'.on
      BY <1>a, <2>4, Answered
    <3>2. Finishing => autoStop \in Finishers /\ autoStop # t
      BY <1>a, <2>2 DEF Finishing, TaskInv, Answerers
    <3> QED BY <1>a, <2>4, <3>1, <3>2 DEF Alert
  <2>5. core' = "TRANSCRIBING" /\ at'[t] = "cutting" => Attended'
    BY <2>2 DEF Attended, Transcribing, Cutting
  <2>6. core' = "LISTENING" /\ capture'.on => Attended'
    BY DEF Attended, Listening
  <2> QED BY <2>1, <2>2, <2>3, <2>4, <2>5, <2>6
<1>35. ASSUME Barged(t) PROVE CoreStep(t)
  <2>1. /\ late \subseteq late' /\ UNCHANGED <<untouched, ttsLock>> /\ at[t] = "barging"
    BY <1>35 DEF Barged, Alert, Answer
  <2>2. t \in Wakes /\ t \notin Answerers
    BY <1>a, <2>1 DEF TaskOK, Tasks, Starters, Enders, Answerers, OnRoute, ListenPlaces, SpeechPlaces,
       StopPlaces,
       SupervisorPlaces, SwitchPlaces, TypedPlaces, PausePlaces, AnswererPlaces, SpokenPlaces
  <2>3. \/ core' \in {core, "DORMANT"} /\ UNCHANGED <<capture, stopLock, interactive>>
        \/ \E now : Alert(t, now) /\ now \in {core, "DORMANT"}
    BY <1>35 DEF Barged
  <2>4. ASSUME NEW now, Alert(t, now), now \in {core, "DORMANT"}
        PROVE  \/ core' \in {core, "DORMANT"} /\ UNCHANGED <<capture, stopLock, interactive>>
               \/ core' = "TRANSCRIBING" /\ at'[t] = "cutting"
               \/ core' = "LISTENING" /\ capture'.on
    <3>1. Answer(t, now) => \/ core' \in {core, "DORMANT"} /\ UNCHANGED capture
                            \/ core' = "LISTENING" /\ capture'.on
      BY <1>a, <2>4, Answered
    <3>2. Finishing => autoStop \in Finishers /\ autoStop # t
      BY <1>a, <2>2 DEF Finishing, TaskInv, Answerers
    <3> QED BY <1>a, <2>4, <3>1, <3>2 DEF Alert
  <2>5. core' = "TRANSCRIBING" /\ at'[t] = "cutting" => Attended'
    BY <2>2 DEF Attended, Transcribing, Cutting
  <2>6. core' = "LISTENING" /\ capture'.on => Attended'
    BY DEF Attended, Listening
  <2> QED BY <2>1, <2>2, <2>3, <2>4, <2>5, <2>6
<1>36. ASSUME Cut(t) PROVE CoreStep(t)
  <2>1. late \subseteq late' /\ untouched' = untouched
    BY <1>36 DEF Cut, Answer
  <2>2. \/ core' \in {core, "DORMANT"} /\ capture' = capture
        \/ core' \in {core, "LISTENING"} /\ capture'.on
    BY <1>a, <1>36, Answered DEF Cut
  <2>3. core' = "TRANSCRIBING" =>
          /\ at[t] # "cutting"
          /\ stopLock \in Answerers /\ at[stopLock] \in SpokenPlaces => stopLock' = stopLock
          /\ t \in Answerers /\ at[t] \in SpokenPlaces => at'[t] \in SpokenPlaces
    BY <1>a, <1>36 DEF Cut, Answer, TaskOK, Holds, SpokenPlaces, Alone, OnRoute, AnswererPlaces
  <2>4. core' = "THINKING" => at[t] # "thinking" /\ (interactive' = interactive \/ interactive \in {NoTask, t})
    BY <1>a, <1>36 DEF Cut, Answer
  <2>5. core' = "SPEAKING" => at[t] # "playing" /\ (ttsLock' = ttsLock \/ ttsLock \in {NoTask, t})
    BY <1>a, <1>36 DEF Cut, Answer, SpeechOK, OnRoute, ListenPlaces, WakePlaces, SpeechPlaces,
       SupervisorPlaces, StopPlaces, SwitchPlaces, TypedPlaces, PausePlaces, AnswererPlaces, Tasks, Starters,
          Enders, Answerers, SpokenPlaces, TaskOK
  <2>6. core' = "LISTENING" /\ capture'.on => Attended'
    BY DEF Attended, Listening
  <2>7. at[t] \notin {"dropping", "draining"}
    BY <1>36 DEF Cut
  <2> QED BY <2>1, <2>2, <2>3, <2>4, <2>5, <2>6, <2>7
<1>37. ASSUME Answering(t) PROVE CoreStep(t)
  <2>1. late \subseteq late' /\ untouched' = untouched
    BY <1>37 DEF Answering, Answer
  <2>2. \/ core' \in {core, "DORMANT"} /\ capture' = capture
        \/ core' \in {core, "LISTENING"} /\ capture'.on
    BY <1>a, <1>37, Answered DEF Answering
  <2>3. core' = "TRANSCRIBING" =>
          /\ at[t] # "cutting"
          /\ stopLock \in Answerers /\ at[stopLock] \in SpokenPlaces => stopLock' = stopLock
          /\ t \in Answerers /\ at[t] \in SpokenPlaces => at'[t] \in SpokenPlaces
    BY <1>a, <1>37 DEF Answering, Answer, TaskOK, Holds, SpokenPlaces, Alone, OnRoute, AnswererPlaces
  <2>4. core' = "THINKING" => at[t] # "thinking" /\ (interactive' = interactive \/ interactive \in {NoTask, t})
    BY <1>a, <1>37 DEF Answering, Answer
  <2>5. core' = "SPEAKING" => at[t] # "playing" /\ (ttsLock' = ttsLock \/ ttsLock \in {NoTask, t})
    BY <1>a, <1>37 DEF Answering, Answer, SpeechOK, OnRoute, ListenPlaces, WakePlaces, SpeechPlaces,
       SupervisorPlaces, StopPlaces, SwitchPlaces, TypedPlaces, PausePlaces, AnswererPlaces, Tasks, Starters,
          Enders, Answerers, SpokenPlaces, TaskOK
  <2>6. core' = "LISTENING" /\ capture'.on => Attended'
    BY DEF Attended, Listening
  <2>7. at[t] \notin {"dropping", "draining"}
    BY <1>37 DEF Answering
  <2> QED BY <2>1, <2>2, <2>3, <2>4, <2>5, <2>6, <2>7
<1>38. ASSUME Focused(t) PROVE CoreStep(t)
  <2>1. /\ UNCHANGED <<late, untouched, stopLock, interactive, ttsLock>> /\ at[t] = "focusing"
        /\ core' = "DORMANT" \/ UNCHANGED <<core, capture>>
    BY <1>38 DEF Focused, Dormant
  <2>2. t \notin Answerers
    BY <1>a, <2>1 DEF TaskOK, OnRoute, AnswererPlaces, SpokenPlaces
  <2> QED BY <2>1, <2>2
<1> QED
  BY <1>1, <1>2, <1>3, <1>4, <1>5, <1>6, <1>7, <1>8, <1>9, <1>10, <1>11, <1>12, <1>13, <1>14, <1>15, <1>16,
     <1>17, <1>18, <1>19, <1>20, <1>21, <1>22, <1>23, <1>24, <1>25, <1>26, <1>27, <1>28, <1>29, <1>30, <1>31,
        <1>32, <1>33, <1>34, <1>35, <1>36, <1>37, <1>38
   DEF Turn, Arrive, CaptureStep, SpeechStep, RequestStep, StopStep, ModeStep, WakeStep

\* A step that leaves the core and the capture alone keeps CoreInv.
LEMMA CoreStands ==
  ASSUME TaskInv, CoreInv, UNCHANGED <<core, late, untouched, stopLock, interactive, ttsLock>>,
         capture'.on = capture.on, HolderStays(NoTask), ThinkerStays(NoTask), Stay(Tasks \ Interruptible),
         ttsLock \in Speeches \cup {NoTask}
  PROVE  CoreInv'
<1>1. Listening => Listening'
  BY DEF Listening, Inactive, HolderStays
<1>2. Transcribing => Transcribing'
  <2>1. Cutting => Cutting'
    BY Uninterrupted DEF Cutting, Stay
  <2>2. NoTask \notin Answerers
    BY VoiceAssumption DEF Answerers, Tasks, Enders
  <2> QED BY <2>1, <2>2 DEF Transcribing, HolderStays
<1>3. Thinking => Thinking'
  BY DEF Thinking, ThinkerStays
<1>4. Speaking => Speaking'
  BY Uninterrupted DEF Speaking, Stay
<1> QED BY <1>1, <1>2, <1>3, <1>4 DEF CoreInv, Attended

\* Every step keeps CoreInv.
LEMMA CoreKept ==
  ASSUME TaskInv, SpeechInv, MicrophoneInv, PrivacyInv, CoreInv, [Next]_vars
  PROVE  CoreInv'
<1>a. ttsLock \in Speeches \cup {NoTask} /\ capture \in CaptureRecord
  BY DEF SpeechInv, SpeechTypes, MicrophoneInv
<1>1. ASSUME NEW t \in Tasks, Turn(t), ~(SpeechHeard(t) \/ StreamFails(t)) PROVE CoreInv'
  BY <1>1, CoreTurn, CoreStepKeeps
<1>2. ASSUME NEW t \in Tasks, SpeechHeard(t) \/ StreamFails(t) PROVE CoreInv'
  <2>1. UNCHANGED <<core, late, untouched, stopLock, interactive, ttsLock>>
    BY <1>2 DEF SpeechHeard, StreamFails, LoopEnds, speechVars, requestVars, ghostVars
  <2>2. PICK b \in BOOLEAN : capture' = [capture EXCEPT !.finishing = b]
    BY <1>a, <1>2 DEF SpeechHeard, StreamFails, LoopEnds, CaptureRecord
  <2>3. capture'.on = capture.on
    BY <1>a, <2>2 DEF CaptureRecord
  <2> QED BY <1>a, <1>2, <2>1, <2>3, HeardStays, CoreStands
<1>3. CASE Environs
  <2>1. UNCHANGED <<core, late, untouched, stopLock, interactive, ttsLock>>
    BY <1>3 DEF Environs, AmbientHeard, AmbientStarts, AmbientFails, speechVars, requestVars, ghostVars
  <2>2. capture'.on = capture.on
    BY <1>a, <1>3 DEF Environs, AmbientHeard, AmbientStarts, AmbientFails, CaptureRecord
  <2> QED BY <1>a, <1>3, <2>1, <2>2, EnvironsStay, CoreStands
<1>4. CASE UNCHANGED vars
  <2>1. UNCHANGED <<core, late, untouched, stopLock, interactive, ttsLock, capture, at>>
    BY <1>4 DEF vars, captureVars, speechVars, requestVars, ghostVars
  <2>2. HolderStays(NoTask) /\ ThinkerStays(NoTask) /\ Stay(Tasks \ Interruptible)
    BY <2>1 DEF HolderStays, ThinkerStays, Stay
  <2> QED BY <1>a, <2>1, <2>2, CoreStands
<1> QED BY <1>1, <1>2, <1>3, <1>4 DEF Next, Turn, Environs

\* At the start the core rests.
LEMMA CoreInit ==
  Init => CoreInv
BY DEF Init, CoreInv, Attended

\* Whoever the core waits for is still busy.
LEMMA CoreRests ==
  TaskInv /\ SpeechInv /\ CoreInv => CoreAtRest
<1> SUFFICES ASSUME TaskInv, SpeechInv, CoreInv, \A t \in Tasks \ {supervisor} : ~Busy(t), ~capture.on,
                    ~untouched, late = {}
             PROVE  core = "DORMANT"
  BY DEF CoreAtRest
<1>1. ASSUME NEW t \in Tasks PROVE at[t] \in {"new", "done"} \cup SupervisorPlaces
  BY <1>1 DEF Busy, TaskInv, TaskOK, OnRoute
<1>2. ~Listening
  BY <1>1 DEF Listening, Inactive, SupervisorPlaces, TaskInv
<1>3. ~Transcribing
  <2>1. Wakes \subseteq Tasks /\ Answerers \subseteq Tasks
    BY DEF Tasks, Starters, Enders, Answerers
  <2> QED BY <1>1, <2>1 DEF Transcribing, Cutting, SpokenPlaces, SupervisorPlaces
<1>4. ~Thinking
  BY <1>1 DEF Thinking, SupervisorPlaces, TaskInv
<1>5. ~Speaking
  <2>1. Speeches \subseteq Tasks /\ ttsLock \in Speeches \cup {NoTask}
    BY DEF Tasks, Starters, SpeechInv, SpeechTypes
  <2> QED BY <1>1, <2>1 DEF Speaking, SupervisorPlaces
<1> QED BY <1>2, <1>3, <1>4, <1>5 DEF CoreInv, Attended

--------------------------------------------------------------------------------
(* The theorems                                                               *)

Inv == TaskInv /\ SpeechInv /\ MicrophoneInv /\ PrivacyInv /\ CoreInv

LEMMA AlwaysInv == Spec => []Inv
<1>1. Init => Inv
  BY TaskInit, SpeechInit, MicrophoneInit, PrivacyInit, CoreInit DEF Inv
<1>2. Inv /\ [Next]_vars => Inv'
  BY TaskStep, SpeechKept, MicrophoneKept, PrivacyKept, CoreKept DEF Inv
<1> QED BY <1>1, <1>2, PTL DEF Spec

(* Once a change to DO NOT LISTEN is over, nothing records, whatever was      *)
(* started, ended or spoken meanwhile (set_mode, set_privacy_mode), but for   *)
(* the exceptions DeafWhenPrivate names.                                      *)
THEOREM PrivateIsDeaf == Spec => []DeafWhenPrivate
<1>1. Inv => DeafWhenPrivate
  BY PrivacyDeaf DEF Inv
<1> QED BY <1>1, AlwaysInv, PTL

(* No recording process is lost by the manager while captures do not overlap  *)
(* (start_capture, stop_capture, abort_capture).                              *)
THEOREM MicrophonesBelong == Spec => []NoStrayMicrophone
<1>1. Inv => NoStrayMicrophone
  BY MicrophonesKnown DEF Inv
<1> QED BY <1>1, AlwaysInv, PTL

(* When every task is over, whichever cut across which, the core is at rest   *)
(* (stop_capture, abort_capture, speak, _on_wake_detected).                   *)
THEOREM CoreComesToRest == Spec => []CoreAtRest
<1>1. Inv => CoreAtRest
  BY CoreRests DEF Inv
<1> QED BY <1>1, AlwaysInv, PTL

(* No speech that a stop, a wake word or a request found in progress begins   *)
(* to sound afterwards (stop_speaking, speak).                                *)
THEOREM SilencedStaySilent == Spec => StoppedStaysSilent
<1>1. Inv /\ [Next]_vars => [\A s \in silenced : ~Begins(s)]_vars
  <2> SUFFICES ASSUME Inv, [Next]_vars, NEW s \in silenced, at'[s] = "playing" PROVE at[s] = "playing"
    BY DEF Begins
  <2>1. s \in Speeches
    BY DEF Inv, SpeechInv, SpeechTypes
  <2> QED BY <2>1, SpeechKept DEF Inv, StaysSilent
<1> QED BY <1>1, AlwaysInv, PTL DEF Spec, StoppedStaysSilent

================================================================================
