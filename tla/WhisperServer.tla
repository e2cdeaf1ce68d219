----------------------------- MODULE WhisperServer -----------------------------
(***************************************************************************)
(* The speech server (voice/stt.py, WhisperCppAdapter).  A transcription,  *)
(* prewarm and close hold _server_lock from their beginning to their end,  *)
(* so the model follows whoever holds it; a task may be cancelled at each  *)
(* of its awaits.  As for the local model a file records who owns the      *)
(* server, a killed core leaves its server behind, and the next core finds *)
(* the record.  Left out: the one-shot command line that is used when the  *)
(* server fails, a file that cannot be written, systems without pidfd.     *)
(* The values that hold at most one server are sets.                       *)
(***************************************************************************)

CONSTANTS
  Servers,  \* the server processes that may ever be started
  Pids

VARIABLES
  alive,      \* the servers whose process lives
  home,       \* the pid of a server
  foreign,    \* the pids of other processes
  born,       \* the servers that have been started
  ours,       \* those that the running core has started
  file,       \* the server that the ownership record names
  process,    \* _server_process
  recorded,   \* _server_ownership
  at,         \* where the holder of _server_lock is, or "free"
  after,      \* what it does when the server has been stopped
  stopping,   \* the server it waits for in _stop_managed_server
  stopRec,    \* and the record that it took from memory
  pinned,     \* the server that the pidfd of the recorded process refers to
  told,       \* ghost: the servers that were sent a signal
  strayed,    \* ghost: a signal reached another process than the recorded server
  lost        \* ghost: the servers let go before any record named them

osVars == <<alive, home, foreign, born>>
memVars == <<process, recorded>>
stopVars == <<after, stopping, stopRec>>
ghostVars == <<told, strayed, lost>>
vars == <<osVars, ours, file, memVars, at, stopVars, pinned, ghostVars>>

Init ==
  /\ alive = {} /\ home \in [Servers -> Pids] /\ foreign \in SUBSET Pids /\ born = {}
  /\ ours = {} /\ file = {} /\ process = {} /\ recorded = {}
  /\ at = "free" /\ after = "free" /\ stopping = {} /\ stopRec = {} /\ pinned = {}
  /\ told = {} /\ strayed = FALSE /\ lost = {}

--------------------------------------------------------------------------------
(* _stop_managed_server                                                      *)

\* Up to its await: the adapter forgets the server, which gets its signal.  A
\* server that has ended needs no wait.
Stop(then) ==
  /\ process' = {} /\ recorded' = {}
  /\ IF process \cap alive = {}
       THEN /\ at' = then /\ file' = IF file = recorded THEN {} ELSE file
            /\ UNCHANGED <<stopVars, told>>
       ELSE /\ at' = "stopping" /\ after' = then /\ UNCHANGED file
            /\ stopping' = process /\ stopRec' = recorded /\ told' = told \cup process

\* The server has ended, by itself or by the second signal.
Stopped ==
  /\ at = "stopping" /\ stopping \cap alive = {} /\ at' = after
  /\ file' = IF file = stopRec THEN {} ELSE file
  /\ stopping' = {} /\ stopRec' = {}
  /\ UNCHANGED <<osVars, ours, memVars, after, pinned, ghostVars>>

\* The wait is cancelled: the record stays.
StopCancelled ==
  /\ at = "stopping" /\ at' = "free" /\ stopping' = {} /\ stopRec' = {}
  /\ lost' = IF stopping = file THEN lost ELSE lost \cup stopping
  /\ UNCHANGED <<osVars, ours, file, memVars, after, pinned, told, strayed>>

--------------------------------------------------------------------------------
(* _ensure_server and _reclaim_stale_server                                  *)

\* transcribe or prewarm: its server has to be verified, it is stopped because it
\* was never recorded or has ended, or there is none.
Begin ==
  /\ at = "free"
  /\ \/ /\ process \cap alive # {} /\ recorded # {} /\ at' = "verifying"
        /\ UNCHANGED <<file, memVars, stopVars, told>>
     \/ process # {} /\ (process \cap alive = {} \/ recorded = {}) /\ Stop("reclaiming")
     \/ process = {} /\ at' = "reclaiming" /\ UNCHANGED <<file, memVars, stopVars, told>>
  /\ UNCHANGED <<osVars, ours, pinned, strayed, lost>>

\* _managed_server_ready: it serves; or it does not and is replaced.
Verify ==
  /\ at = "verifying"
  /\ \/ process \subseteq alive /\ at' = "serving" /\ UNCHANGED <<file, memVars, stopVars, told>>
     \/ Stop("reclaiming")
  /\ UNCHANGED <<osVars, ours, pinned, strayed, lost>>

\* The recorded server is alive, and pidfd_open takes whatever has its pid then;
\* or it is not, and the record is discarded.
Pin ==
  /\ at = "reclaiming"
  /\ LET there == {s \in alive : \E r \in file : home[s] = home[r]}
         other == \E r \in file : home[r] \in foreign
     IN \/ file # {} /\ (there # {} \/ other) /\ at' = "pinned" /\ pinned' = there /\ UNCHANGED file
        \/ file \cap alive = {} /\ at' = "probing" /\ file' = {} /\ UNCHANGED pinned
  /\ UNCHANGED <<osVars, ours, memVars, stopVars, ghostVars>>

\* The whole identity is compared, and that of the owner: a server that another
\* living core owns is left alone, and so is one of this core, which it has
\* told to stop already.
Signal ==
  /\ at = "pinned" /\ file \subseteq alive /\ file \cap ours = {} /\ at' = "dying"
  /\ told' = told \cup pinned /\ strayed' = (strayed \/ pinned # file)
  /\ UNCHANGED <<osVars, ours, file, memVars, stopVars, pinned, lost>>

Exited ==
  /\ at = "dying" /\ file \cap alive = {} /\ at' = "probing" /\ file' = {}
  /\ UNCHANGED <<osVars, ours, memVars, stopVars, pinned, ghostVars>>

\* The identity does not match or is still owned, the server does not end, the
\* port is taken, no process can be started; or the task is cancelled.
GiveUp ==
  /\ at \in {"verifying", "pinned", "dying", "probing", "starting"} /\ at' = "free"
  /\ UNCHANGED <<osVars, ours, file, memVars, stopVars, pinned, ghostVars>>

\* _port_ready: nobody listens.
Probe ==
  /\ at = "probing" /\ at' = "starting"
  /\ UNCHANGED <<osVars, ours, file, memVars, stopVars, pinned, ghostVars>>

Start ==
  /\ at = "starting" /\ at' = "recording"
  /\ \E s \in Servers \ born, p \in Pids \ foreign :
       /\ \A x \in alive : home[x] # p
       /\ alive' = alive \cup {s} /\ home' = [home EXCEPT ![s] = p] /\ born' = born \cup {s}
       /\ ours' = ours \cup {s} /\ process' = {s}
  /\ UNCHANGED <<foreign, file, recorded, stopVars, pinned, ghostVars>>

\* The record is on disk before the server is used or waited for.
Record ==
  /\ at = "recording" /\ at' = "loading" /\ file' = process /\ recorded' = process
  /\ UNCHANGED <<osVars, ours, process, stopVars, pinned, ghostVars>>

Ready ==
  /\ at = "loading" /\ process \subseteq alive /\ at' = "serving"
  /\ UNCHANGED <<osVars, ours, file, memVars, stopVars, pinned, ghostVars>>

\* Its identity cannot be read, it ends, it is not ready in time; or the task is
\* cancelled.
StartFails ==
  /\ at \in {"recording", "loading"} /\ Stop("free")
  /\ UNCHANGED <<osVars, ours, pinned, strayed, lost>>

\* The answer, an error or a cancellation; prewarm is done at once.
Served ==
  /\ at = "serving" /\ at' = "free"
  /\ UNCHANGED <<osVars, ours, file, memVars, stopVars, pinned, ghostVars>>

\* close: at the shutdown, and after a transcription that failed.
Close ==
  /\ at = "free" /\ process # {} /\ Stop("free")
  /\ UNCHANGED <<osVars, ours, pinned, strayed, lost>>

--------------------------------------------------------------------------------
(* The machine                                                               *)

ServerEnds ==
  /\ \E s \in alive : alive' = alive \ {s}
  /\ UNCHANGED <<home, foreign, born, ours, file, memVars, at, stopVars, pinned, ghostVars>>

OtherProcess ==
  /\ \E p \in Pids : \/ p \in foreign /\ foreign' = foreign \ {p}
                     \/ (\A x \in alive : home[x] # p) /\ foreign' = foreign \cup {p}
  /\ UNCHANGED <<alive, home, born, ours, file, memVars, at, stopVars, pinned, ghostVars>>

\* The core is killed, and the next one started.
Crash ==
  /\ lost' = lost \cup ((alive \cap ours) \ file)
  /\ ours' = {} /\ process' = {} /\ recorded' = {} /\ at' = "free" /\ after' = "free"
  /\ stopping' = {} /\ stopRec' = {} /\ pinned' = {}
  /\ UNCHANGED <<osVars, file, told, strayed>>

Next ==
  \/ Stopped \/ StopCancelled \/ Begin \/ Verify \/ Pin \/ Signal \/ Exited \/ GiveUp \/ Probe
  \/ Start \/ Record \/ Ready \/ StartFails \/ Served \/ Close
  \/ ServerEnds \/ OtherProcess \/ Crash

Spec == Init /\ [][Next]_vars

--------------------------------------------------------------------------------
(* Properties *)

\* ExactSignals (_reclaim_stale_server, "stop only a precisely recorded server
\* whose owning core is gone"): whoever has the recorded pid by now, the signal
\* only reaches the recorded server.
ExactSignals == ~strayed

\* OneServer (_ensure_server): never do two speech servers live at the same time,
\* not even while one is ending, over failures, cancellations and crashes; but
\* for a server that was let go before its record was written.
OneServer == \A s, r \in alive \ lost : s = r

\* Accounted (_stop_managed_server): a living server is managed by this core, was
\* told to stop, or is named by the record that a later core will find.
Accounted == alive \subseteq process \cup told \cup file \cup lost

\* ServesOwn (_transcribe_server): audio goes to the server that this core has
\* started and recorded, and nobody stops it before the answer.
ServesOwn == at = "serving" => process # {} /\ recorded = process /\ file = process
================================================================================
