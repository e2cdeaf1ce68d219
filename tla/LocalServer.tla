------------------------------ MODULE LocalServer ------------------------------
(***************************************************************************)
(* The local model's server (ai/local_llama.py, LocalLlamaProvider in the  *)
(* managed mode that the service uses, on Linux).  A request makes sure    *)
(* that the server runs, under _start_lock, and then talks to it without   *)
(* the lock while a watch looks at memory and temperature; the idle loop   *)
(* unloads the server; close stops it and takes no lock.  The record of    *)
(* who owns the server is a file: a core that was killed leaves its server *)
(* behind, and the next one finds the record and stops that server.        *)
(*                                                                         *)
(* A server is one process, identified by pid, start time and command      *)
(* line: its pid may be given to another process when it has ended.  The   *)
(* values that hold at most one server are sets.  A crash of the core is   *)
(* one step with the start of the next, which the session lock orders.     *)
(* Left out: a file that cannot be written, systems without pidfd.         *)
(***************************************************************************)

CONSTANTS
  Tasks,    \* the tasks that use the provider: requests, the idle loop, the shutdown
  Servers,  \* the server processes that may ever be started
  Pids

VARIABLES
  alive,      \* the servers whose process lives
  home,       \* the pid of a server
  foreign,    \* the pids of other processes
  born,       \* the servers that have been started
  ours,       \* those that the running core has started
  file,       \* the server that the ownership record names
  process,    \* _process, with _owns_process and _pidfd
  recorded,   \* _ownership_record, with _server_identity
  lock,       \* who holds _start_lock
  active,     \* the requests that _active_requests counts
  guarded,    \* the requests inside _run_guarded
  pc,         \* where a task is
  child,      \* the server that the holder of the lock has started
  pinned,     \* the server that its pidfd of a recorded process refers to
  closing,    \* the server that a task in close waits for
  closingRec, \* and the record that it took from memory
  told,       \* ghost: the servers that were sent a signal
  strayed,    \* ghost: a signal reached another process than the recorded server
  lost,       \* ghost: the servers of a killed core that no record names
  stranded    \* ghost: servers of this core whose record nobody will remove

osVars == <<alive, home, foreign, born>>
memVars == <<process, recorded>>
taskVars == <<lock, active, guarded, pc>>
ghostVars == <<strayed, lost, stranded>>
vars == <<osVars, ours, file, memVars, taskVars, child, pinned, closing, closingRec, told, ghostVars>>

Init ==
  /\ alive = {} /\ home \in [Servers -> Pids] /\ foreign \in SUBSET Pids /\ born = {}
  /\ ours = {} /\ file = {} /\ process = {} /\ recorded = {}
  /\ lock = {} /\ active = {} /\ guarded = {} /\ pc = [t \in Tasks |-> "idle"]
  /\ child = {} /\ pinned = {}
  /\ closing = [t \in Tasks |-> {}] /\ closingRec = [t \in Tasks |-> {}]
  /\ told = {} /\ strayed = FALSE /\ lost = {} /\ stranded = {}

--------------------------------------------------------------------------------
(* How a task goes on                                                        *)

Goto(t, label) == pc' = [pc EXCEPT ![t] = label]

\* The task goes on inside _ensure_server, or where it does not need it.
Proceed(t, label) == Goto(t, label) /\ UNCHANGED <<lock, active, guarded>>

\* An exception, a cancellation among them, leaves _ensure_server, close or the
\* request: an _ensure_server called by a guarded request leaves that too.
Leave(t) ==
  /\ lock' = lock \ {t}
  /\ IF t \in guarded /\ (lock = {t} \/ pc[t] = "ensuring")
       THEN Goto(t, "failing") /\ UNCHANGED <<active, guarded>>
       ELSE Goto(t, "idle") /\ active' = active \ {t} /\ guarded' = guarded \ {t}

\* _ensure_server returns: to _post, or to the guarded request.
Ensured(t) ==
  /\ lock' = {} /\ UNCHANGED active
  /\ IF t \in guarded THEN Goto(t, "posting") /\ UNCHANGED guarded
                      ELSE Goto(t, "checking") /\ guarded' = guarded \cup {t}

\* close up to its first await: it empties the provider and signals the process.
Close(t, label) ==
  /\ process' = {} /\ recorded' = {}
  /\ IF process = {}
       THEN Leave(t) /\ UNCHANGED <<closing, closingRec, told>>
       ELSE /\ Proceed(t, label) /\ told' = told \cup process
            /\ closing' = [closing EXCEPT ![t] = process]
            /\ closingRec' = [closingRec EXCEPT ![t] = recorded]

NoClose == UNCHANGED <<memVars, closing, closingRec, told>>

--------------------------------------------------------------------------------
(* _ensure_server and _prepare_managed_endpoint                              *)

\* model_use: the request is counted while nobody holds the lock.
Enter(t) ==
  /\ pc[t] = "idle" /\ lock = {}
  /\ active' = active \cup {t} /\ Goto(t, "ensuring")
  /\ UNCHANGED <<osVars, ours, file, lock, guarded, child, pinned, ghostVars>> /\ NoClose

\* The record read under the lock: it is that of this core's own server, which
\* lives or not; of a server this core does not know of any more; of another
\* core's, which lives or not; or there is none.
Ensure(t) ==
  /\ pc[t] = "ensuring" /\ lock = {} /\ lock' = {t}
  /\ \/ /\ file # {} /\ file = recorded /\ process \subseteq alive
        /\ Goto(t, "verifying") /\ UNCHANGED <<file, memVars>>
     \/ /\ file # {} /\ file = recorded /\ ~(process \subseteq alive)
        /\ Goto(t, "probing") /\ file' = {} /\ process' = {} /\ recorded' = {}
     \/ /\ file # recorded /\ file # {} /\ file \cap ours = {} /\ file \subseteq alive
        /\ Goto(t, "opening") /\ UNCHANGED <<file, memVars>>
     \/ /\ file # recorded /\ file # {} /\ file \cap ours = {} /\ ~(file \subseteq alive)
        /\ Goto(t, "probing") /\ file' = {} /\ UNCHANGED memVars
     \/ file = {} /\ Goto(t, "probing") /\ UNCHANGED <<file, memVars>>
  /\ UNCHANGED <<osVars, ours, active, guarded, child, pinned, closing, closingRec, told, ghostVars>>

\* The record names this core as the living owner, its server has died but is not
\* reaped yet, or the task is cancelled while it waits for the lock.
Refuse(t) ==
  /\ pc[t] = "ensuring" /\ Leave(t)
  /\ UNCHANGED <<osVars, ours, file, child, pinned, ghostVars>> /\ NoClose

\* _managed_healthy, or a process that is still loading, or one that has ended.
Verify(t) ==
  /\ pc[t] = "verifying"
  /\ \/ recorded # {} /\ recorded \subseteq alive /\ Ensured(t)
     \/ Leave(t)
     \/ process \cap alive = {} /\ Proceed(t, "measuring")
  /\ UNCHANGED <<osVars, ours, file, child, pinned, ghostVars>> /\ NoClose

\* _terminate_recorded_server: pidfd_open takes whatever process has the pid now.
OpenPid(t) ==
  /\ pc[t] = "opening"
  /\ LET there == {s \in alive : \E r \in file : home[s] = home[r]}
         other == \E r \in file : home[r] \in foreign
     IN \/ (there # {} \/ other) /\ Proceed(t, "terminating") /\ pinned' = there /\ UNCHANGED file
        \/ there = {} /\ ~other /\ Proceed(t, "probing") /\ file' = {} /\ UNCHANGED pinned
  /\ UNCHANGED <<osVars, ours, child, ghostVars>> /\ NoClose

\* The identity is read again, and the process of the pidfd gets the signal.
Terminate(t) ==
  /\ pc[t] = "terminating"
  /\ \/ /\ file \subseteq alive /\ Proceed(t, "dying") /\ UNCHANGED file
        /\ told' = told \cup pinned /\ strayed' = (strayed \/ pinned # file)
     \/ /\ ~(file \subseteq alive) /\ Proceed(t, "probing") /\ file' = {}
        /\ UNCHANGED <<told, strayed>>
  /\ UNCHANGED <<osVars, ours, memVars, child, pinned, closing, closingRec, lost, stranded>>

\* It has ended within the time, or not even the second signal has helped.
AwaitExit(t) ==
  /\ pc[t] = "dying"
  /\ \/ file \cap alive = {} /\ Proceed(t, "probing") /\ file' = {}
     \/ Leave(t) /\ UNCHANGED file
  /\ UNCHANGED <<osVars, ours, child, pinned, ghostVars>> /\ NoClose

\* An answer comes from somebody else's service; or the model is not available.
Probe(t) ==
  /\ pc[t] = "probing"
  /\ (Leave(t) \/ (process \cap alive = {} /\ Proceed(t, "measuring")))
  /\ UNCHANGED <<osVars, ours, file, child, pinned, ghostVars>> /\ NoClose

Measure(t) ==
  /\ pc[t] = "measuring" /\ (Proceed(t, "spawning") \/ Leave(t))
  /\ UNCHANGED <<osVars, ours, file, child, pinned, ghostVars>> /\ NoClose

\* The task is shielded: a cancellation comes to the started server's close.
Spawn(t) ==
  /\ pc[t] = "spawning"
  /\ \E s \in Servers \ born, p \in Pids \ foreign :
       /\ \A x \in alive : home[x] # p
       /\ alive' = alive \cup {s} /\ home' = [home EXCEPT ![s] = p] /\ born' = born \cup {s}
       /\ ours' = ours \cup {s} /\ process' = {s} /\ child' = {s}
  /\ Proceed(t, "identifying")
  /\ UNCHANGED <<foreign, file, recorded, pinned, closing, closingRec, told, ghostVars>>

SpawnFails(t) ==
  /\ pc[t] = "spawning" /\ Leave(t)
  /\ UNCHANGED <<osVars, ours, file, child, pinned, ghostVars>> /\ NoClose

\* The server is what was started, and the record is written.  A close that came
\* in between has taken the process, but the record is written all the same.
Identify(t) ==
  /\ pc[t] = "identifying" /\ child \subseteq alive /\ file' = child
  /\ \/ process # {} /\ recorded' = child /\ Proceed(t, "loading") /\ UNCHANGED stranded
     \/ process = {} /\ recorded' = {} /\ Leave(t) /\ stranded' = stranded \cup child
  /\ UNCHANGED <<osVars, ours, process, child, pinned, closing, closingRec, told, strayed, lost>>

\* _wait_until_ready
Ready(t) ==
  /\ pc[t] = "loading" /\ recorded # {} /\ recorded \subseteq alive /\ Ensured(t)
  /\ UNCHANGED <<osVars, ours, file, child, pinned, ghostVars>> /\ NoClose

\* Not identified, not ready in time, ended, too hot, or cancelled.
StartFails(t) ==
  /\ pc[t] \in {"identifying", "loading"} /\ Close(t, "closing")
  /\ UNCHANGED <<osVars, ours, file, child, pinned, ghostVars>>

--------------------------------------------------------------------------------
(* _run_guarded, release_if_idle and close                                   *)

\* The prompt of prewarm is posted without another _ensure_server.
Check(t) ==
  /\ pc[t] = "checking"
  /\ \E label \in {"ensuring", "posting"} : Proceed(t, label)
  /\ UNCHANGED <<osVars, ours, file, child, pinned, ghostVars>> /\ NoClose

\* The request is answered, fails or is cancelled.
Finish(t) ==
  /\ pc[t] \in {"checking", "posting", "failing"} /\ Leave(t)
  /\ UNCHANGED <<osVars, ours, file, child, pinned, ghostVars>> /\ NoClose

\* The machine is too hot or short of memory: before the request, or during it.
\* The watch has cancelled an _ensure_server of the request first.
Overload(t) ==
  /\ pc[t] \in {"checking", "posting", "failing"} /\ Close(t, "closing")
  /\ UNCHANGED <<osVars, ours, file, child, pinned, ghostVars>>

\* release_if_idle: under the lock, and only without active requests.
Release(t) ==
  /\ pc[t] = "idle" /\ lock = {} /\ active = {}
  /\ process # {} /\ process \subseteq alive /\ recorded # {} /\ recorded \subseteq alive
  /\ lock' = {t} /\ Goto(t, "releasing") /\ UNCHANGED <<active, guarded>>
  /\ process' = {} /\ recorded' = {} /\ told' = told \cup process
  /\ closing' = [closing EXCEPT ![t] = process]
  /\ closingRec' = [closingRec EXCEPT ![t] = recorded]
  /\ UNCHANGED <<osVars, ours, file, child, pinned, ghostVars>>

\* The shutdown closes the provider.
Shutdown(t) ==
  /\ pc[t] = "idle" /\ Close(t, "closing")
  /\ UNCHANGED <<osVars, ours, file, child, pinned, ghostVars>>

\* The process has ended, by itself or after the second signal.
CloseEnds(t) ==
  /\ pc[t] \in {"closing", "releasing"} /\ closing[t] \cap alive = {} /\ Leave(t)
  /\ file' = IF file = closingRec[t] THEN {} ELSE file
  /\ closing' = [closing EXCEPT ![t] = {}] /\ closingRec' = [closingRec EXCEPT ![t] = {}]
  /\ UNCHANGED <<osVars, ours, memVars, child, pinned, told, ghostVars>>

\* A cancelled close does not come to the removal of its record.
CloseCancelled(t) ==
  /\ pc[t] \in {"closing", "releasing"} /\ Leave(t)
  /\ stranded' = stranded \cup closingRec[t]
  /\ closing' = [closing EXCEPT ![t] = {}] /\ closingRec' = [closingRec EXCEPT ![t] = {}]
  /\ UNCHANGED <<osVars, ours, file, memVars, child, pinned, told, strayed, lost>>

--------------------------------------------------------------------------------
(* The machine                                                               *)

ServerEnds ==
  /\ \E s \in alive : alive' = alive \ {s}
  /\ UNCHANGED <<home, foreign, born, ours, file, taskVars, child, pinned, ghostVars>> /\ NoClose

OtherProcess ==
  /\ \E p \in Pids : \/ p \in foreign /\ foreign' = foreign \ {p}
                     \/ (\A x \in alive : home[x] # p) /\ foreign' = foreign \cup {p}
  /\ UNCHANGED <<alive, home, born, ours, file, taskVars, child, pinned, ghostVars>> /\ NoClose

\* The core is killed, and the next one started.
Crash ==
  /\ lost' = lost \cup ((alive \cap ours) \ file)
  /\ ours' = {} /\ process' = {} /\ recorded' = {} /\ stranded' = {}
  /\ lock' = {} /\ active' = {} /\ guarded' = {} /\ pc' = [t \in Tasks |-> "idle"]
  /\ child' = {} /\ pinned' = {}
  /\ closing' = [t \in Tasks |-> {}] /\ closingRec' = [t \in Tasks |-> {}]
  /\ UNCHANGED <<osVars, file, told, strayed>>

Next ==
  \/ \E t \in Tasks :
       \/ Enter(t) \/ Ensure(t) \/ Refuse(t) \/ Verify(t) \/ OpenPid(t) \/ Terminate(t)
       \/ AwaitExit(t) \/ Probe(t) \/ Measure(t) \/ Spawn(t) \/ SpawnFails(t) \/ Identify(t)
       \/ Ready(t) \/ StartFails(t) \/ Check(t) \/ Finish(t) \/ Overload(t) \/ Release(t)
       \/ Shutdown(t) \/ CloseEnds(t) \/ CloseCancelled(t)
  \/ ServerEnds \/ OtherProcess \/ Crash

Spec == Init /\ [][Next]_vars

--------------------------------------------------------------------------------
(* Properties *)

\* ExactSignals (_terminate_recorded_server, "only the exact process pinned by a
\* valid stale record"): whoever has the pid of the record when the pidfd is
\* opened, only the recorded server ever gets the signal.
ExactSignals == ~strayed

\* OneModel (_ensure_server): at most one model server is in memory, over any
\* number of requests, failures and restarts of the core.  Not counted are the
\* servers that have been told to stop, which may take seconds to end, and one
\* that was started but not yet recorded when its core was killed.
OneModel == \A s, r \in alive \ (told \cup lost) : s = r

\* IdleSpares (release_if_idle, model_use): the idle loop does not unload the
\* model under a request, even one that comes while it is being unloaded.
IdleSpares == \A t \in Tasks : pc[t] = "releasing" => active = {}

\* NoLockout (_prepare_managed_endpoint): a record that names this core as its
\* owner belongs to the server it manages, or somebody is about to remove it;
\* otherwise every later request is refused because of "another live core".  The
\* exception is a close that was cancelled, or that came before the record.
NoLockout ==
  file \cap ours \subseteq recorded \cup stranded \cup UNION {closingRec[t] : t \in Tasks}
================================================================================
