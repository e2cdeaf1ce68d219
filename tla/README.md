# A TLA+ model of the C.A.R.L.O.S. core

C.A.R.L.O.S. is a desktop assistant. Its core (`carlos/core/ev`, one Python
process on one asyncio event loop with worker threads) listens to clients over a
local socket and to a microphone, turns requests into tool calls, asks for consent
where a tool needs it, runs plans of several tools and answers by voice. It owns
other processes: a model server, a speech server, recorders, coding agents. The user
can stop everything at any time, and the core may be killed. What is hard about it
is not any single handler but what the handlers do to each other between two
`await`s: almost every decision of the core is taken, then recorded in a thread,
then acted on.

This directory models those parts: who may execute an action, when, how often, and
what a stop, a cancellation, a privacy change, an expiry, a crash or a second client
may do in between. All paths below are relative to `src/carlos/core/ev` of the
repository unless they say otherwise.

## 1. Inventory

| Component | State it keeps | Operations | Talks to | What is hard; what makes it correct | Module |
| --- | --- | --- | --- | --- | --- |
| Core state machine (`state.py`) | `current` | `transition` (raises on an illegal one) | everyone writes it | one variable, many owners: whoever takes it to USING_TOOL must bring it back | `CoreState` |
| Permission broker (`permissions.py`) | `_pending` by id, expiry times | `create`, `resolve`, `cancel`, `prune`, `list_public` | service, planner | five coroutines race for one confirmation; one verdict, one execution | `ActionGateway` |
| Action gateway (`service.py`: `request_tool`, `resolve_confirmation`, `execute_tool`, `_execute_tool`, `_stop_all_actions`, `_cancel_active_plan`, expiry loop) | `_action_generation`, `_stopping_tools`, `_stop_requests`, `_running_tool_tasks`, `_tool_state_owner` | one coroutine per request, decision, stop | broker, privacy, journal, memory, tools, planner, core state | every check is an await older than the act; a stop must void whatever was accepted before it | `ActionGateway` |
| Privacy policy (`privacy.py`) | mode, `changing` | `tool_error`, `set_mode` | stops everything, then switches storage and voice | no tool runs against the mode, no approval migrates | `ActionGateway`, `VoiceManager`, `TaskJournal` |
| Task planner (`planner.py`, `goals.py`) | `_lock`, `active`, `pending`, `external_pending`, a plan's status, step, cancellation reason | `execute`, `resume_confirmation`, `reject_confirmation`, `record_external_confirmation`, `cancel` | `request_tool`, decisions | plans suspended and resumed in other coroutines; one at a time, in order, retried only if idempotent | `TaskPlanner` |
| Tool registry and tools (`tools/`) | none of the core's | `validate`, `execute` with a timeout | desktop, files, network | may finish after their cancellation | (an external action) |
| Task journal (`task_journal.py`) | tasks and steps in SQLite, a private copy in memory | `begin`, `start_step`, `finish_step`, `finish`, `recover_interrupted`, `set_private` | gateway, command engine | crash between dispatch and record; late records; the swap of the table under a running step | `TaskJournal` |
| Event bus (`events.py`, `timeline.py`, `notices.py`) | history, dispatch queue, subscriber queues, drop counters | `publish`, `_flush_pending`, `_deliver`, `subscribe`, `set_private` | everyone publishes; UI, IPC and the persistence task subscribe | bounded, several threads, priorities; order and accounting | `EventBus`, `EventLog` |
| IPC server (`ipc/server.py`) | clients, one request queue and one worker per connection | accept, enqueue, answer, stop | service handler, bus | responsive requests overtake; a stop empties other clients' queues | `IpcServer` |
| Command engine (`commands.py`, `brain.py`) | `_command_lock`, sessions in `pending`, tool history | `submit`, `resume_confirmation`, withdrawal | providers, planner, gateway | a command suspended and continued in other coroutines; a budget that survives it | `CommandEngine` |
| Voice manager (`voice/manager.py`, `voice/reply_stream.py`, `voice/media_focus.py`) | capture and speech fields, two locks, privacy mode | capture, transcribe, speak, stop, wake | core state, service, workers | interruptions, the microphone and the core state as shared resources | `VoiceManager` |
| Speech workers (`voice/stt.py`, `tts.py`, `wake.py`) | a server process and its ownership record | start, transcribe, stop, reclaim | voice manager, OS | the server of a killed core; a cancelled stop | `WhisperServer` |
| AI providers (`ai/`) | a local model server and its ownership record, conversations | complete, idle unload, close | command engine, OS | many requests, a watch, the idle loop and the shutdown share one process | `LocalServer` |
| Memory, daily records (`memory/store.py`, `daily.py`) | SQLite tables | reads and writes | everyone | the permission audit | (`audit` of `ActionGateway`) |
| Reminders, watches, waits (`service.py` reminder loop, `process_watches.py`, `task_wait.py`) | due items, watches | poll, notify, cancel | voice, bus | scope captured before an await | `VoiceManager` (reminders) |
| Recording (`recording.py`, `recording_worker.py`, `process_runner.py`) | pending files and clips, a worker process | capture, verify, delete | OS, portal | cancellation at every await, a crash; nothing left behind | `Recording` |
| Desktop control (`desktop/input.py`) | a portal session, held inputs, `_cancelled` | key, click, type, gesture, cancel, close | compositor | a thread that still sends what its caller has given up | `DesktopInput` |
| Engineering agent (`coding_agent.py`) | proposals in memory and in files, jobs | propose, execute, cancel | Codex, Git, validations | one agent per proposal, only validated work committed | `CodingAgent` |
| Startup, shutdown, session lock (`lifecycle.py`, `session_lock.py`, `service.run`) | stages, lock file | ordered shutdown with time limits | everyone | a stage that ignores its cancellation | `TaskJournal` (the lock) |
| Scenes, settings, security centre, health, configuration | files, reports | read, build, apply | tools | catalogues, no concurrency of their own | |
| Qt UI (`src/carlos/ui/src/EvClient.cpp`) | a socket, timers, pending requests, the lists on display | connect, activate, poll, request, receive | IPC server | answers, history and events in any order around a reconnect | `EvClient` |

`PROJECT.json` lists the same components with their status, and under `hazards`
every place where this code can go wrong in a way a test would hardly reach.

## 2. Modules

```
CoreState           transition table
  |-- ActionGateway   requests, decisions, tool tasks, stops, privacy
  |     |-- GatewayContract -- refinement mapping to -- ActionContract
  |     `-- TaskPlanner    plans on top of the gateway (and GatewayContract)
  |           `-- ActionGatewayProofs    of the gateway and of the planner
  `-- VoiceManager    captures, speeches, wake words, stops
        `-- VoiceManagerProofs

EventBus -- EventLog -- IpcServer    events, what the core does with them, clients
                          `-- IpcServerProofs    of all three
TaskJournal -- TaskJournalProofs     receipts, crash, recovery, private mode

CodingAgent, LocalServer, WhisperServer, CommandEngine, Recording,
DesktopInput, EvClient               components on their own, each with ...Proofs
                                     (those of CodingAgent and WhisperServer are
                                     in LocalServerProofs, Recording's in
                                     DesktopInputProofs)
```

`MCActionGateway`, `MCTaskPlanner`, `MCIpcServer`, `MCVoice` and `MCTaskJournal`
instantiate the modules of the upper three groups for TLC. The seven components of
the last group are the subject of theorems and have no run of their own: what is
claimed of them is proved for every value of their constants (section 4).

Everywhere, what the code does between two awaits, or under one lock, is one action;
a coroutine that awaits a thread, a process or a reply is two actions. Where the code
is known not to keep a promise in some circumstance, a ghost variable named for the
circumstance remembers it, the property names it as its exception, and `PROJECT.json`
lists it as a hazard: no property is weakened silently.

### ActionGateway

One variable per piece of state in the inventory, and `pc[h]`, the await at which
a coroutine is suspended. What the code does between two awaits is one action; a
coroutine that awaits a thread (`asyncio.to_thread`) is two actions, before and
after. A *handler* is a tool request (`Calls`) or a client's decision
(`Decisions`); both end in the task that `execute_tool` creates. Stops are
coroutines of their own (`Stops`), of four kinds: a stop-all of a client, a spoken one
(`Spoken`), the stop inside a privacy change, and the cancellation of the active plan
alone. A spoken stop runs in the task that ends its capture, which holds
`_capture_stop_lock` (`LockHeld`) until the command is answered; the stop's own
`end_conversation` waits for that lock, so it never ends by itself (`SelfBlocked`), and
no other stop or change into DO NOT LISTEN gets past its own `end_conversation`. A wake
word during the transcription cancels the task (`CutStop`): the lock is free again, and
what the stop had still to revoke stays (`"cut"`).

| pc | suspended in |
| --- | --- |
| `lookup`, `authorising`, `review`, `proposing` | `request_tool`: the alias lookup, the record of the automatic approval, the visual review, the record of the proposal |
| `approving`, `denying` | `resolve_confirmation`: the record of the decision |
| `spawned`, `starting`, `running`, `saving`, `failing` | `_execute_tool`: before its first step, the journal row, the tool, the receipt of a result, of a failure |
| `cleanup` | `record_cancellation` |
| answers | `done`, `failed`, `raised`, `busy`, `denied`, `waiting`, `cancelled` (nothing was dispatched), `interrupted` (dispatched, effects unknown or finished), `abandoned` (the answer `execute_tool` gives for a task whose CancelledError escaped) |

`dispatched` is the set of handlers that reached `ExecutionController.execute`.
`audit` is what `memory.record_permission` has stored; nobody in the core reads
it, so a record made by a coroutine that awaits nothing else about the
confirmation is written in the step that takes the confirmation away.

Abstractions. A confirmation is known by its call; tokens and argument hashes,
which the broker compares, are left out. Whether another client's command owns
the dormant core (`_interactive_task`) is a free choice in `Admit`. The exemptions
of read-only engineering status tools and of the emergency input disconnect from
the busy check are left out. The voice manager and the command engine move the
core between the states of `Ambient` (`OthersMoveCore`). Only `_execute_tool` and
the planner ever move it to USING_TOOL, hence the assumption
`Ambient \subseteq CoreStates \ {"USING_TOOL"}`. A spoken stop may come when the core is
TRANSCRIBING, which only the voice manager makes it.

### ActionContract and GatewayContract

`ActionContract` says in six actions what a user may rely on: each action holds a
ticket; consent grants it, once; it is executed at most once and only when granted;
a stop voids every granted ticket. `GatewayContract` reads the ticket off the
gateway's state. A ticket is `granted` while some handler that no stop has
overtaken carries the consent (`HoldsGrant`), so a handler that a stop has made
stale, or whose task is being cancelled, holds nothing, although it may still sit
at an await in front of its dispatch. That none of them gets through is what the
refinement says. `KeepsContract` is checked under the planner too.

### TaskPlanner

The planner on top of the gateway: its actions conjoin those of `ActionGateway`
with what the planner does in the same step. `position[p]` is where the coroutine
that runs a plan is suspended. `lock` and `queue` are the asyncio lock with its
first-come-first-served waiters. A call `<<p, i, n>>` is the n-th attempt of step i;
the step after the last is the observation of the declared goal. `waiting` and
`handedOver` are the keys of `pending` and `external_pending`. `settled` and
`withdrew` remember which decisions have been told to the planner and which
cancellation ended a waiting plan (a local variable in the code).

`Proceed` is the body of the loop in `execute` from the check of the
cancellation to the next `request_tool`; it is used by a first execution, by an
`Acquire` after waiting for the lock and after a verified step. The continuation
of `execute` after a call has answered is a step of its own, later than the
answer: a coroutine awaiting a task is resumed by the loop after it.

Abstractions. Which steps a phrase becomes, argument references and the wording of
answers are left out: a plan is its number of steps, which of them are idempotent
(`Retryable`), confirmed, or owned by a provider (`External`), and whether it
declares goal conditions. The stops of the planner's instances are those of clients and
privacy changes (`Spoken = {}`): what a wake word leaves of a spoken one is
`ActionGateway`'s subject. A verified result is a nondeterministic part of the
results that completed. A goal is one observation, not up to eight. A resolved
argument may be unavailable at any step after the first.

### EventBus, EventLog, IpcServer

`EventBus` is `PhaxEventBus`: a publication from the loop or from a thread, the
bounded dispatch queue between threads and the loop (`ingress`), a bounded queue for
every subscriber, eviction of the least important event, the history with its private
and cleared parts, and a loop that ends while threads still publish. `EventLog` adds
the core's own subscribers: the task that persists events, the timeline on disk and
the queue of desktop notices. `IpcServer` composes both with the connections: a reader
(`conn`), a worker that serves ordinary requests in order (`worker`), a task for every
responsive request and stop, a sender for the subscription, teardown and shutdown.
`place[r]` says where a request is, `conn[c]` where the reader is: after the client has
closed its end it joins the queue (`eof`), gathers the tasks it has started
(`gathering`) and tears the connection down. A reply succeeds or, when the client has
gone or does not read, raises.

Two exceptions: `early`, a reader whose join a stop of another connection has released
before the worker took the first request; `orphaned`, requests withdrawn by a stop
that could not answer its own client and ended there.

Abstractions: an event is its rank and whether it is transient, notable or an activity;
framing, authentication and the contents of requests are left out, as are a greeting that
cannot be written and the panel's subscription, which sends summaries of the same events;
the second try of a busy answer is part of the first.

### VoiceManager

The tasks of the voice manager over its shared fields: starts of a capture (`Listens`,
`Wakes`, follow-ups of a speech), tasks that end one (`Closers`, `Finishers`),
`Speeches`, among them reminders claimed from memory, typed requests, stops, changes of
the privacy mode, pauses, and the supervisor that keeps the ambient stream of the wake
word. `at[t]` is the await of a task; `stopLock` and `ttsLock` are the two asyncio
locks; `capture`, `open` and `loops` tell the fields apart from the processes and
loops that really run, which is where they may diverge. `interactive` is the request in
progress; `revoked` are the requests, and the speeches waiting for `_tts_lock`, of an
earlier action generation of the service; `silenced` are the speeches that were cut short
while they held the lock, and the reminders a stop found claimed. Nothing in the code
cancels a speech that waits: `StoppedStaysSilent` is about `silenced` alone, and
`StopSilencesQueue`, about those of `revoked`, fails (section 5).

Exceptions: `late`, a capture whose start was past its check of the mode when it
changed; `overlapped`, two starts at once; `orphaned`, a wake word whose set-up fails as
it waits for the pause of the media, and which gives up the capture that another task
has started meanwhile, whose recording process goes on (`_on_wake_detected`, the
`except`); `deserted`, a task cancelled while it ends a capture; `untouched`, a spoken request answered without leaving TRANSCRIBING;
`SelfBlocked`, a spoken "stop everything", dispatched under the lock its own abort
needs; `Unread`, a capture whose reader has been paused away or never started.

Abstractions: audio, silence detection and transcripts are a free choice among
`Transcripts`; streamed replies, the timer of the wake test, the watcher of media focus,
`close` and the diagnostics are left out.

### TaskJournal

Two tables, `disk` and `ram`, and the writes of worker threads (`writes`) that are on
their way to whichever is in use when the thread runs, also after their caller was
cancelled. Around them: the request (`at`), its tool (`tool`), its confirmation and the
decision about it (`by`), a stop, a change of the privacy mode with its save to the
configuration, the session lock, recovery, shutdown and a crash at any moment, which
loses the writes under way. A tool returns a result or raises (`Return`, `Raise`), before,
in or after its execution, and a cancellation finds it at any of its awaits. One that is
recording its start or its result, or executing, waits for that write and records its
cancellation, protected (`Settle`). One that is recording that it raised awaits the write
bare, in the `except` block: it ends at once (`"cut"`), its write withdrawn if no thread
has taken it, and the step stays RUNNING or becomes uncertain without a crash.
Exceptions: `strayed`, requests whose rows a change of the table has split or lost;
`crossed`, requests decided or cancelled while their own write was pending, or whose
approved tool raised, which leaves `resolve_confirmation` before it writes; `cut`, in
`HonestReceipts`. A task has at most one step; pruning and the reading queries are left out.

### CodingAgent

A job of `CodingAgentGateway` as a worker thread (`pc`), what it keeps in memory
(`status`, `executed`, `running`, `cancel`) and in the task file (`saved`), and the
process it waits for (`child`): Codex, a validation or the commit. A cancellation may
come at any moment; a crash ends the threads and lets the processes live on
(`orphaned`), a restart reads the files.

### LocalServer and WhisperServer

The two servers that outlive a killed core: the ownership record (`file`), what the
provider knows (`process`, `recorded`), the operating system (`alive`, `home`,
`foreign`: a pid is given to another process when its owner has ended), and who is
where in starting, probing, reclaiming, stopping. A signal goes to a pid, or through a
pidfd to the process it was opened for; `strayed` remembers one that reached another
process than the recorded server. `LocalServer` has many tasks and a lock that `close`
does not take; every operation of `WhisperServer` holds its lock, so that module follows
the holder. Exceptions: `lost`, a server let go before its record was written;
`stranded`, a record nobody will remove after a cancelled or early close; `told`,
servers that were sent their signal and may take seconds to end. Systems without pidfd,
a record that cannot be written and the command-line fallback of the transcription are
left out.

### CommandEngine

A command as it asks the model, makes the calls of a turn, is suspended by a
confirmation and continued in the coroutine of the decision (`resolver`), with the
session in `pending`, the history that carries its budget, and the stops and expiries
that withdraw the confirmation. `overtaken` are the calls and decisions of before the
last stop. Exception: `abandoned`, a command cancelled as it waited for the lock to be
continued. That time, rounds or repetition run out is a free choice at each place where
the code looks; the core state is left out, a failed transition being one way to fail.

### Recording

The capture in the core (`at`), the owned subprocess and its worker (`worker`), the
pending file and the clip. The worker binds its life to the core's by
`prctl` after it has read its parent; the kernel kills a bound worker with
the core. Exceptions: `crashed`, captures whose core died (their pending file stays),
and `unbound`, workers that bound themselves to another process after that.

### DesktopInput

The operation that holds `_lock`, the inputs it has to release, the call a thread makes
for it, and the compositor (`down`). A cancelled operation leaves its thread behind
(`strays`); a call may fail before or after the compositor took it, and closes the
session if it fails. `strayed` are the inputs whose press a second cancellation has
abandoned; `late` counts the presses begun after `_cancelled` was set.

### EvClient

The window's client as Qt's event loop runs it: socket, timers, the activation process
with its budget of attempts, pending requests by number, and what is shown. The core is
an environment that answers in any order, publishes numbered events, subscribes the
connection when it is asked to, and may end and return. `start` and `live` tell what
lies between the history and the events delivered after it; `removed` are the events
that were listed on this connection and then discarded, by the bound of the list or by
a privacy change. `talkSince` and `notesSince` are the request numbers at which the
conversation and the notes were last discarded.

### Mutations

A definition named `X_Y` just before a definition `X` is a plausible bug of `X`, with
the same parameters (`Pop_Nothing` for `Pop`, `Execute_AtOnce` for `Execute`). It is
never used by the specification. `PROJECT.json` pairs each property with the
mutation that must break it, which shows that the property depends on the code.

## 3. What is checked

| Run | Instance | Distinct states | Shows |
| --- | --- | --- | --- |
| `GatewaySafety` | a plan-owned call with an alias lookup, a confirmed and reviewed call that the restrictive modes deny, two decisions, a spoken stop that a wake word may cut and a privacy change, a voice manager that listens | 1,436,561 | the type invariant, `DecidedOnce`, `ConsentBeforeDispatch`, `DispatchedOnce`, `NoStaleConfirmation`, `CoreHasOwner`, `NoDispatchAcrossStop`, `PolicyAtDispatch`, refinement of `ActionContract` |
| `GatewayLiveness` | one confirmed call that is looked up and reviewed, a decision, a privacy change, a plan cancellation, a spoken stop | 90,243 | `StopsEnd`, `EveryHandlerAnswers` |
| `PlannerRetry` | a plan of three steps (retryable, ordinary, confirmed) with a goal and one of a single step that contends with it; a decision, a cancellation of the active plan, a voice manager that listens; fair scheduling | 58,889 | `StepsInOrder`, `ReplayOnlyRetryable`, `SuccessIsComplete`, `PlansSettle`, `CancelledPlanStays`, `EndIsFinal` |
| `PlannerTwo` | a plan with a goal whose first step is confirmed and whose second may be retried, and a provider plan whose step is confirmed; two decisions and a stop | 422,768 | `OnePlanExecutes`, `StepsInOrder`, `SuccessIsComplete`, `EndIsFinal`, `KeepsContract` under the planner |
| `Ipc` | seven workloads (`MCIpcServer`): two clients whose queues a stop of either withdraws; one client that overruns every limit; two clients that stop at once during a shutdown; publications of different importance from the loop and from threads, with a cleared history, a privacy change, a loop that ends | 268,837 | `AnsweredOnce`, `InOrder`, `AcceptedFinishes`, `EveryRequestAnswered` of the server; `OrderedDelivery`, `DropsCounted`, `UrgentKept`, `HistoriesHonest` of the bus and its readers |
| `Voice` | eleven workloads (`MCVoice`): starts, wake words, typed requests, closers, speeches, reminders, pauses, stops and mode changes, four or fewer of them at a time, with a failing microphone or synthesis, a failing pause of the media and the ambient stream | 120,946 | `DeafWhenPrivate`, `CoreAtRest`, `NoStrayMicrophone`, `StoppedStaysSilent`, `EverythingEnds`, `CaptureEnds` |
| `Journal` | a request that calls its tool at once and one whose tool is confirmed; any two of a crash with restart, a shutdown, a stop, a mode change, a cancellation and a tool that raises | 2,877,279 | `HonestReceipts`, `NoZombies`, `AnswerStands` |
| `GatewayHonestCancel`, `GatewayMigratedApproval`, `PlannerStopQueued`, `PlannerStopRetry`, `VoiceQueuedSpeech` | small instances | | disagreements between the code and what its documents and comments say (section 5) |

Bounds of the gateway and the planner. The only unbounded variable is `generation`;
each stop request of `Stops` happens once, so their number bounds it. Two stops are the
least with which a stop can begin, end and be followed by another, or overlap it; one
call of each kind and a second client are what a race for a confirmation needs, since a
call's handler shares state with the others only through the broker, the core state and
the gate. The theorems of section 4 do not depend on any of these numbers. The second
attempt of a step bounds the planner's retries in the code itself (`attempts < 2`).

Bounds of the other runs. `QueueSize = 2` with three or four publications fills every
queue of the bus and makes it evict; `QueueLimit = 2`, `ResponsiveLimit = 1` and
`InterruptLimit = 1` with four requests of one client reach each limit of the server.
Two connections suffice for a stop of one to withdraw the requests of the other. The
workloads of `MCVoice` put every pair of kinds of tasks of which one can interrupt the
other into some workload, with a third that can come between them. The journal's
requests share only the table and the mode, so one of each kind shows the races; two
incidents (`MaxEvents`) are a stop that a crash interrupts, or a mode change after a
cancellation, the shortest histories in which one incident hides another.

Deadlock is not checked: each request, task and workload of an instance happens once,
and when all are answered the model stops, as the service does when nobody asks it
anything. What must not get stuck is stated by the liveness properties instead. Symmetry
is used for the decisions only, in runs without liveness properties: decisions are
values nothing compares with an order.

Fairness. `WF` of every handler's next step: the event loop resumes a coroutine
whose await has completed, a worker thread's database call returns, a tool has a
timeout in `ToolRegistry.execute` (`ToolReturns` is its return or its timeout), and
`asyncio.Lock` wakes its waiters in order. `WF` of a stop's next step: it awaits
database calls, at most two seconds for the cancelled tasks, and the capture lock, which
is the guard of `EndStop` and of the end of a change of the mode. While a spoken stop
holds that lock the step is not enabled and fairness promises nothing: `StopsEnd` says
that every stop ends unless some spoken stop waits for its own lock for ever. The wake
word that would cut it has no fairness. In `Ipc`, `WF` of each
worker, of the end of each reader whose client has gone, and of the tasks of responsive
requests and stops: their handlers have timeouts, a client that does not read raises by
the write timeout. In `Voice`, `WF` of each task's step, since every wait for a process
there has a timeout, of the stream's audio and of the supervisor's restart. No fairness
is assumed of clients, of the user, of the expiry of a confirmation, of incidents, nor,
in the runs of the gateway, of the voice manager.

## 4. What is proved

Eight modules hold proofs checked by TLAPS, for every value of the constants. They assume
no more of the constants than the modules themselves, whose assumptions TLC evaluates on
the runs:

* `ActionGatewayProofs`: `GatewayAssumption` (the kinds of calls are subsets of the calls;
  calls and decisions are different; nobody else uses USING_TOOL; a spoken stop is a
  stop-all) and `PlannerAssumption`
  (a plan has a positive number of steps, its calls are the plan-owned ones, the kinds of
  plans and steps are sets of them; no spoken stop). Any number of calls, decisions, stops and plans.
* `TaskJournalProofs`: `JournalAssumption` (the kinds of requests are subsets of the
  requests, the bounds of the incidents are numbers).
* `IpcServerProofs`: `BusAssumption` (a rank of 0 to 3 for every event, queues of at
  least one place) and `IpcAssumption` (the subscribers are the connections and the
  persistence task, every request has a connection, the limits are positive, and the names
  of no request and of a dead worker are no requests). Any number of events, subscribers,
  connections and requests.
* The other five assume nothing.

### The action gateway

| Theorem | Property | Argument |
| --- | --- | --- |
| `TypeCorrect` | `TypeOK` | inductive as it stands |
| `StopHolds` | `NoDispatchAcrossStop` | `FreshTasks`: a task that a stop has overtaken and that has not been dispatched has its cancellation to deliver; so a task free of it is of the current generation |
| `PolicyHolds` | `PolicyAtDispatch` | `PolicyInv`: a task waiting for its journal row, with no cancellation to deliver, was started under a settled policy that allows its tool; a change of the policy cancels all of these first, and only one change is under way |
| `ConfirmationsFresh` | `NoStaleConfirmation` | `StaleRevoked`: a live confirmation older than the last stop is one that a stop in progress has still to list or still to revoke, unless a wake word cut a spoken stop, which the property names |
| `ConsentHolds`, `AtMostOnce`, `OneDecision` | `ConsentBeforeDispatch`, `DispatchedOnce`, `DecidedOnce` | `DecisionInv`: a confirmation that can still come, is pending or is popped and unrecorded has no verdict; two decisions are never about the same call, because `resolve` takes it away; what executes was approved |
| `CoreOwned` | `CoreHasOwner` | `CoreInv`: the owner of the core is a handler in its task, or nobody is and the core is not USING_TOOL |
| `ContractKept` | `KeepsContract` | the refinement: `GatewayInv` (the invariants above and `TicketInv`, that no handler comes from the future and what was dispatched is past its dispatch) makes every step a step of the contract or a stutter; one lemma per kind of step (`RequestMoves`, `ResolveMoves`, `DecisionMoves`, `TaskMoves`, `StopMoves`), and `OneCarrier`: at most one handler carries the consent to a call |

None of the stated invariants but the type is inductive alone: that a handler is not
stale when it dispatches, say, follows only from what a stop did to it when it began.

The lemmas behind these theorems are stated for `PlannedStep`, a step of the gateway on
its own or one in which the planner requests a call, so that they hold under `Spec` and
under `PlannerSpec` alike.

### The task planner

| Theorem | Property | Argument |
| --- | --- | --- |
| `PlannerTypes` | `PlannerTypeOK` | inductive with the type of the gateway |
| `OneAtATime` | `OnePlanExecutes` | `PlaceInv`: it is inductive together with where the active plan may be (`ActiveInv`), where a confirmation's plan is (`ConfirmInv`) and `QueueInv`: whoever is queued is in `queue`, so the lock is passed to one plan only |
| `OrderKept` | `StepsInOrder` | `ProgressInv`: every step below `index[p]` took effect (`OrderInv`), and a call that was made belongs to a step up to `index[p]` (`MadeInv`) |
| `ReplaySafe` | `ReplayOnlyRetryable` | `MadeInv`: a second attempt was made of a retryable step only, which holds because `IndexInv` lets only such a step be retried; and `OneCarrier` of the gateway: each attempt is dispatched once |
| `SuccessHonest` | `SuccessIsComplete` | `ProgressInv` at the end of `Proceed` |
| `CancellationHolds`, `EndHolds` | `CancelledPlanStays`, `EndIsFinal` | action properties, from `Reaches`: a plan makes a call only if it has not ended, of the step it has reached, and a first attempt only if nobody cancelled it |
| `PlannerConsent`, `PlannerDispatch` | the invariants of the gateway, under plans | `GatewayInv`, `StaleRevoked` and `PolicyInv` over `PlannedStep` |
| `PlannerKeepsContract` | `KeepsContract` | the same lemmas: what the planner adds to a step of the gateway does not touch a ticket |

`PlannerInv` is the conjunction of all of these (and `RanInv`: what ran was dispatched);
its proof has a lemma for each kind of step of the planner and each part of the invariant
that such a step can disturb.

### The task journal

| Theorem | Property | Argument |
| --- | --- | --- |
| `JournalHolds` | | `JournalInv` is inductive: the type, `AtRest` (what is true between two lives of the core) and `Good(r)` of each request |
| `Receipts` | `HonestReceipts` | `Rows(r)`, unless a change of the table strayed the request: the receipt of its step, or the write that is on its way, says what became of the tool; `CutRows`: withdrawing the unprotected write of a tool that raised, as its cancellation does, leaves `Rows(r)` with the tool cut |
| `NoTaskLeftOver` | `NoZombies` | the last part of `Answering(r)`: when neither the request nor its decision is at work, no row of it is open; recovery establishes it for the next core, and every end of a request keeps it |
| `AnswersLast` | `AnswerStands` | `Answering(r)`, unless strayed or crossed: after its answer nothing that could change the row of a request is on its way |

`Good(r)` is `Position(r)` (where the request, its tool and its decision are, and which
writes each may have pending), `Rows(r)` and `Answering(r)`. A write that ran after its
caller was cancelled, or two writes of one request at once, are what makes it long. A
tool that was cut off while it recorded its failure is in it too: its step may be RUNNING,
FAILED or uncertain, and its failure may still be on its way.

### The events and the server

| Theorem | Property | Argument |
| --- | --- | --- |
| `EventInvariant` | | `BusInv` and `LogInv` are inductive under every step of the composition |
| `DeliveryOrdered` | `OrderedDelivery` | `LineInv`: for a subscriber, what it took, what is queued for it and what waits for the loop come in this order, each part in the order of publication. An eviction takes from the middle, a flush moves from the front of one part to the end of the other |
| `DropsAreCounted` | `DropsCounted` | `CountInv`: `dropped` is the number of the deliveries that were due and are nowhere. A delivery is in one place only (`LineInv`: the parts are disjoint), so whatever leaves its place unreceived is one new loss; an eviction from a subscriber's queue loses one, one from the dispatch queue as many as the entry had recipients |
| `UrgentStays` | `UrgentKept` (an action property) | `Guarded`: whatever the fold has given up of a queue is outranked by the queue (`Outranks`: it is full and holds nothing less important), and a queue that outranks an event goes on doing so, since every later admission replaces its least important event by one at least as important. `OfferRefuses` says the same of the notices |
| `HistoriesStayHonest` | `HistoriesHonest` | `LogInv`: what the timeline holds was published, is not private and is later than the last clearing; a new publication is later than all of them |
| `ServerInvariant` | | `ServerInv` is inductive |
| `OneAnswer` | `AnsweredOnce` | `AnswerInv` (what is unanswered has no answer) with `Line` and `OwedInv`: a request is in its queue, with its worker, or owed by one stop, never in two of them |
| `ServedInOrder` | `InOrder` | `Line`: the queue of a connection holds exactly its queued requests in the order they were sent, behind the one its worker serves; a stop that withdraws some leaves the order of the others |
| `AcceptedWorkFinishes` | `AcceptedFinishes` (an action property) | `JoinInv`: a reader that has only its responsive tasks to wait for has nothing queued and a worker at rest, unless a stop released its join early |

`Publish`, `Flush` and `_cancel_queued_actions` walk a queue of any length with a
fold. What the fold computes is proved by induction over the beginnings of the sequence:
an invariant of the fold is a set of naturals, and a set that holds 0 and the successor of
each of its members is all of them, because its complement has no least member (`Least`,
`Induction`, `UpTo`, from `WFMin` of the library).

### The voice manager

| Theorem | Property | Argument |
| --- | --- | --- |
| `PrivateIsDeaf` | `DeafWhenPrivate` | `PrivacyInv`: in DO NOT LISTEN without a late capture, either a change of the mode still has to throw the capture away, or no capture is active and nobody answers one; and the ambient stream runs only as long as the change has still to refresh it. With `MicrophoneInv` no recording process is left either |
| `MicrophonesBelong` | `NoStrayMicrophone` | `MicrophoneInv`: while captures do not overlap, the one process that may run is that of `capture.mic`, which is what the holder of `_stop_lock` took (`taken`) when it waits for a process to end; a microphone without an active capture has such a holder, or was orphaned |
| `CoreComesToRest` | `CoreAtRest` | `CoreInv`: each state of the core has somebody on the way to take it out of it: LISTENING a capture or the holder that ends it, TRANSCRIBING the holder that answers or a wake word that cut it short, THINKING the task of the request in progress, SPEAKING the speech that owns `_tts_lock` |
| `SilencedStaySilent` | `StoppedStaysSilent` (an action property) | `SpeechInv`: a speech that was silenced while it held `_tts_lock`, or as a claimed reminder, is past its player, has `speech.cancelled` before it, or was claimed in a scope that has changed |

All four need `TaskInv`: a task is only at places of its kind, holds `_stop_lock`
exactly where its route says, is the request in progress exactly where it reasons, and
one change of the mode is under way at most. Each invariant has a lemma that goes
through the steps of a task one by one (`SpeechTurn`, `MicrophoneTurn`, `PrivacyTurn`,
`CoreTurn`); what the steps of one task may do to the place of another is proved once,
in `TaskStep` and `TurnStays`. The assumption `VoiceAssumption` says that the kinds of
tasks are disjoint, which they are because a task runs one coroutine.

The proof of `DeafWhenPrivate` failed at first at `Focused`, where an orphaned recording
goes on in DO NOT LISTEN; the workload of `MCVoice` with a failing pause, a wake word, a
start and a change of the mode now reaches it. That of `CoreAtRest` showed that a
condition the property had on the supervisor was not needed, and it was dropped.

### The components without a run

Each module proves its inductive invariant `IInv` from `Init` and over every step, with
one proof step per action, and derives the theorems from it.

| Module | Theorems | What carries them |
| --- | --- | --- |
| `LocalServerProofs` | `SignalsExact`: no signal reaches another process than the recorded server. `ModelOnce`: one untold server at most. `IdleOnly`: no idle unload under a request. `NeverLockedOut`: a record of this core belongs to its server or is about to go | `Global`: pids belong to one process, record and memory agree except between a start and its record, every living untold server is in `_process` or in the record; `Position` and `ClosingOk`, per task: who holds the lock, and what the place of a task says of the record |
| `LocalServerProofs`, of `WhisperServer` | `SpeechSignalsExact`; `OneSpeechServer`: two servers never live at once, even while one ends; `SpeechAccounted`: every living server is managed, told, or in the record; `SpeechServesOwn`: audio goes to the own recorded server | `SpeechInv`: `SpeechAgree` (memory and record), `StopHolds` (what a stop has taken from memory), `SpeechKnown`, `PinnedRecord` (the pidfd refers to the recorded server or to a process that is not signalled) |
| `LocalServerProofs`, of `CodingAgent` | `AgentOnce`: one agent per proposal, over errors, cancellations, crashes and restarts. `ReviewedCommits`: only validated work is committed. `JobsSettle`: a job that returned left no process, a final status, and that status on disk | `Consistent`, per proposal: memory and file agree (`Durable`); where a job is says whether its proposal has been marked executed (`Placed`); an agent is launched by a marked job that has launched none (`LaunchedOnce`); a process has a job that waits for it or a crash behind it (`Attended`); a commit, made or under way, has all its validations behind it (`Reviewed`) |
| `CommandEngineProofs` | `BudgetHolds`: 48 calls, 49 questions, over any number of suspensions. `WholeTurnsHolds`: each call of a turn once, in order, the results of all of them to the model. `WithdrawnEndsHolds`: a withdrawn command does nothing more. `HistoryEndsHolds`, `OneCommandHolds` | `Good`, per command: `Turns` (calls and outputs at each place), `Broker` (a confirmation is live, being decided, withdrawn or gone, and finds the command suspended or about to be), `Remembered` (a command that has begun is in the history), `Counts` (the history counts its calls); `Frame`: a command nobody touches stays good |
| `DesktopInputProofs`, of `Recording` | `NothingLeftHolds`: a cancelled capture leaves no worker and no file. `GrantOwnedHolds`: only the worker of the current capture captures. `WholeClipsHolds`: a clip is a finished recording | `CaptureInv`: `Progress` (the capture in progress has begun, is one, is not cut off), `BoundOwned`, `Reports` (a report stands for a whole file as long as the capture goes on) |
| `DesktopInputProofs` | `HeldReleasedHolds`: an ended operation leaves no key down. `PressesStopHolds`: one press at most after `cancel_current` | `Covered`: what is down is what the operation has to release, unless a release failed or a close is on its way; `Released`: an acknowledged release has taken effect; `Late` |
| `EvClientProofs` | `NeverStuck`: the client connects, is about to, or polls under a deadline; a pending setting can be answered. `NoEventSlips`: nothing falls between history and subscription. `NothingStaleShown`: what is shown was asked for after the last change | `Offline` (without a connection nothing is awaited), `Awaited` (an awaited answer is younger than what was discarded), `Overlap` (what was delivered after a history was collected is listed) |

`WithdrawnEnds` is an action property, the others are invariants. Where a theorem has an
exception, it is the ghost named in section 2, and the theorem says that it is the only
one.

Only model-checked: the liveness properties (fairness and ENABLED are out of the
prover's reach) and the runs that expect a violation.

## 5. Where the code and its documents disagree

* `GatewayHonestCancel`: a stop during the record of a failed tool makes
  `execute_tool` say `changed_state: False` of a dispatched action, and leaves the
  core in USING_TOOL (the exception `abandoned` in `CoreHasOwner`).
* `GatewayMigratedApproval`: an approval that arrives while a privacy change is
  stopping everything is executed after the change.
* `PlannerStopQueued`: a resumed plan that waits for the planner's lock is not
  cancelled by a stop and goes on after it.
* `PlannerStopRetry`: the bounded retry of a step that a stop cancelled runs after
  the stop.
* `VoiceQueuedSpeech`: a speech that waits behind another for `_tts_lock` when a stop of
  everything begins is played after the stop, which promises to cancel queued speech.

`PROJECT.json` quotes the lines. `docs/USAGE.md:297-298`, "Permission persistence
cannot start an old operation after a stop", holds of the handler
(`NoDispatchAcrossStop`) and is proved; the second finding is about the request the
handler decides.

The models also contain, as named exceptions or as behaviours no property forbids, what
the code gives no protection against. `PROJECT.json` lists each as a hazard at its line:

* a command whose confirmed tool runs while a stop comes goes on with its other calls
  after it; one cancelled as it waits to be continued leaves its session's history;
* a spoken "stop everything" waits for a lock its own task holds, and every other stop
  waits behind it, with the gate of the tools closed; a wake word that ends this leaves
  confirmations the stop had still to revoke;
* a tool cancelled while it records that it raised leaves a RUNNING or uncertain receipt;
* a spoken request that
  is answered without reasoning leaves the core in TRANSCRIBING;
* a capture being started when the mode becomes DO NOT LISTEN is started in it; a
  wake word whose set-up fails gives up a capture that is not its own, whose recording
  goes on;
* a task begun in one privacy mode and ended in the other has its rows in two tables;
* a coding proposal stays RUNNING after a crash, and nothing stops its processes;
* a close of the model server that is cancelled as it waits leaves a record that refuses
  every later request until the core is restarted;
* the pending file of a recording whose core was killed stays;
* a second cancellation may let a key press overtake its release, and a gesture may
  begin one press after a stop;
* a privacy change in the event history is acted on again after a reconnect and
  discards what the window shows.

## 6. What is not modelled, and the plan

Not modelled, and why:

* The tools catalogue (`tools/builtin.py`, `tools/plans.py`): some four thousand lines of
  desktop, file and network calls behind one interface. The core's protocol with a tool
  is modelled; what a tool does is external.
* Language and dialogue (`ai/offline.py`, `ai/openai_responses.py`, the phrase side of
  `planner.py` and `commands.py`): which tool a sentence means. The models take every
  choice it could make.
* Signal processing (`voice/wake.py`, `voice/tts.py`, most of `voice/stt.py`): numeric.
* Reports and catalogues (`security_*`, `settings_center.py`, `scenes.py`, `health.py`,
  `telemetry.py`, `config.py`): they read and format, with no concurrency of their own.
* Stored data (`memory/store.py`, `daily.py`): SQL statements; the awaits around them are
  in the modules that call them.
* The rest of desktop control (targets, motion, the portal's handshake, the KWin bridge,
  accessibility, vision), process watches, and the requests and QML that only put
  answers on display.
* In the modelled components: streamed replies, the wake test's timer, the watcher of
  media focus, close and diagnostics of the voice manager; pruning and reading of the
  journal; the stages of the shutdown other than the lock; systems without pidfd; the
  command-line fallback of the transcription.

The parts left out are most of the lines of the core: they are data, formatting and
external calls, and a definition about them would have nothing to say.

What comes next:

1. The resumed command after a stop as a run: `CommandEngine` composed with the stop of
   `ActionGateway`, against `docs/USAGE.md:289-291`.
2. `Shutdown`: ordered stages with time limits, and the session lock released under a
   thread that still writes.
