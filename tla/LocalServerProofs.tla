--------------------------- MODULE LocalServerProofs ---------------------------
(***************************************************************************)
(* The processes the core starts and may outlive it: the properties of     *)
(* LocalServer, and below those of WhisperServer and of CodingAgent, hold  *)
(* for every number of tasks, servers and pids.  The argument: whoever     *)
(* holds _start_lock is alone in deciding about the record, except for the *)
(* closes, which only take this core's own server; and every server that   *)
(* lives untold is in _process or in the record, of which one is dead or   *)
(* told whenever they differ.                                              *)
(***************************************************************************)
EXTENDS LocalServer, Naturals, TLAPS

Reclaiming == {"opening", "terminating", "dying"}
Held == Reclaiming \cup
  {"verifying", "probing", "measuring", "spawning", "identifying", "loading", "releasing"}
Labels == Held \cup {"idle", "ensuring", "checking", "posting", "failing", "closing"}

TypeOK ==
  /\ born \in SUBSET Servers /\ alive \in SUBSET born /\ ours \in SUBSET born
  /\ home \in [Servers -> Pids] /\ foreign \in SUBSET Pids
  /\ file \in SUBSET born /\ process \in SUBSET ours /\ recorded \in SUBSET ours
  /\ lock \in SUBSET Tasks /\ active \in SUBSET Tasks /\ guarded \in SUBSET Tasks
  /\ pc \in [Tasks -> Labels]
  /\ child \in SUBSET ours /\ pinned \in SUBSET Servers
  /\ closing \in [Tasks -> SUBSET ours] /\ closingRec \in [Tasks -> SUBSET ours]
  /\ told \in SUBSET Servers /\ strayed \in BOOLEAN

AtMostOne(S) == \A x, y \in S : x = y

\* A pid belongs to one process at a time.
PidsApart ==
  /\ \A x, y \in alive : home[x] = home[y] => x = y
  /\ \A x \in alive : home[x] \notin foreign

Singles == AtMostOne(file) /\ AtMostOne(process) /\ AtMostOne(recorded) /\ AtMostOne(child)

\* The provider, its record and the file agree, except between the start of a
\* server and its record.
Agree ==
  /\ process = {} => recorded = {}
  /\ process # {} /\ (\A t \in Tasks : pc[t] # "identifying") => recorded = process /\ file = process

\* A living server of this core that nobody has told to stop is the provider's.
OursKnown == file \cap ours \cap alive \subseteq told \cup process

\* Every living server is known, told to stop, or lost.
AllKnown == alive \ (told \cup lost) \subseteq process \cup file

\* What the position of a task says.
Position(t) ==
  /\ pc[t] \in Held => lock = {t}
  /\ pc[t] = "releasing" => active = {}
  /\ pc[t] = "verifying" => file \subseteq ours
  /\ pc[t] \in Reclaiming => file # {} /\ file \cap ours = {}
  /\ pc[t] = "terminating" => pinned = file \/ file \cap alive = {}
  /\ pc[t] = "probing" => file = {}
  /\ pc[t] \in {"measuring", "spawning"} => process \cap alive = {}
  /\ pc[t] \in {"measuring", "spawning", "identifying"} => file \cap alive \subseteq told
  /\ pc[t] = "identifying" =>
       /\ process \subseteq child /\ recorded \cap alive \subseteq told
       /\ process = {} => child \subseteq told

\* A close waits for a server that was told to stop.
ClosingOk(t) ==
  /\ AtMostOne(closingRec[t]) /\ closingRec[t] \cap alive \subseteq told
  /\ pc[t] \notin {"closing", "releasing"} => closingRec[t] = {}
  /\ closingRec[t] \cap process = {}

IInv ==
  /\ TypeOK /\ PidsApart /\ Singles /\ Agree /\ OursKnown /\ AllKnown /\ NoLockout /\ ExactSignals
  /\ \A t \in Tasks : Position(t) /\ ClosingOk(t)

USE DEF Reclaiming, Held, Labels, vars, osVars, memVars, taskVars, ghostVars, NoClose

LEMMA InitIInv == Init => IInv
  BY DEF Init, IInv, TypeOK, PidsApart, Singles, AtMostOne, Agree, OursKnown, AllKnown, NoLockout,
         ExactSignals, Position, ClosingOk

--------------------------------------------------------------------------------
(* How a task goes on                                                        *)

\* Only t moves, and it does not get the lock.
Moved(t) ==
  /\ pc' \in [Tasks -> Labels] /\ \A u \in Tasks \ {t} : pc'[u] = pc[u]
  /\ lock' \in SUBSET Tasks /\ active' \in SUBSET active /\ guarded' \in SUBSET Tasks

LEMMA ProceedMoves ==
  ASSUME TypeOK, NEW t \in Tasks, NEW label \in Labels, Proceed(t, label)
  PROVE  Moved(t) /\ pc'[t] = label /\ lock' = lock /\ active' = active
  BY DEF TypeOK, Proceed, Goto, Moved

LEMMA LeaveMoves ==
  ASSUME TypeOK, NEW t \in Tasks, Leave(t)
  PROVE  Moved(t) /\ pc'[t] \in {"idle", "failing"} /\ lock' = lock \ {t}
<1>1. CASE t \in guarded /\ (lock = {t} \/ pc[t] = "ensuring")
  BY <1>1 DEF TypeOK, Leave, Goto, Moved
<1>2. CASE ~(t \in guarded /\ (lock = {t} \/ pc[t] = "ensuring"))
  BY <1>2 DEF TypeOK, Leave, Goto, Moved
<1> QED BY <1>1, <1>2

LEMMA EnsuredMoves ==
  ASSUME TypeOK, NEW t \in Tasks, Ensured(t)
  PROVE  Moved(t) /\ pc'[t] \in {"posting", "checking"} /\ lock' = {}
<1>1. CASE t \in guarded BY <1>1 DEF TypeOK, Ensured, Goto, Moved
<1>2. CASE t \notin guarded BY <1>2 DEF TypeOK, Ensured, Goto, Moved
<1> QED BY <1>1, <1>2

\* close: nothing to do, or a server that is told to stop and waited for.
LEMMA CloseCases ==
  ASSUME TypeOK, NEW t \in Tasks, Close(t, "closing")
  PROVE  /\ process' = {} /\ recorded' = {} /\ Moved(t)
         /\ \/ /\ process = {} /\ pc'[t] \in {"idle", "failing"} /\ lock' = lock \ {t}
               /\ UNCHANGED <<closing, closingRec, told>>
            \/ /\ process # {} /\ pc'[t] = "closing" /\ lock' = lock /\ active' = active
               /\ told' = told \cup process
               /\ closing' = [closing EXCEPT ![t] = process]
               /\ closingRec' = [closingRec EXCEPT ![t] = recorded]
<1>1. CASE process = {} BY <1>1, LeaveMoves DEF Close
<1>2. CASE process # {} BY <1>2, ProceedMoves DEF Close
<1> QED BY <1>1, <1>2

LEMMA TypeStep == IInv /\ [Next]_vars => TypeOK'
<1> SUFFICES ASSUME IInv, [Next]_vars PROVE TypeOK'
  OBVIOUS
<1>0. TypeOK BY DEF IInv
<1>1. ASSUME NEW t \in Tasks, Enter(t) PROVE TypeOK'
  BY <1>0, <1>1 DEF Enter, Goto, TypeOK
<1>2. ASSUME NEW t \in Tasks, Ensure(t) PROVE TypeOK'
  BY <1>0, <1>2 DEF Ensure, Goto, TypeOK
<1>3. ASSUME NEW t \in Tasks, Refuse(t) PROVE TypeOK'
  BY <1>0, <1>3, LeaveMoves DEF Refuse, Moved, TypeOK
<1>4. ASSUME NEW t \in Tasks, Verify(t) PROVE TypeOK'
  BY <1>0, <1>4, ProceedMoves, LeaveMoves, EnsuredMoves DEF Verify, Moved, TypeOK
<1>5. ASSUME NEW t \in Tasks, OpenPid(t) PROVE TypeOK'
  BY <1>0, <1>5, ProceedMoves DEF OpenPid, Moved, TypeOK
<1>6. ASSUME NEW t \in Tasks, Terminate(t) PROVE TypeOK'
  BY <1>0, <1>6, ProceedMoves DEF Terminate, Moved, TypeOK
<1>7. ASSUME NEW t \in Tasks, AwaitExit(t) PROVE TypeOK'
  BY <1>0, <1>7, ProceedMoves, LeaveMoves DEF AwaitExit, Moved, TypeOK
<1>8. ASSUME NEW t \in Tasks, Probe(t) PROVE TypeOK'
  BY <1>0, <1>8, ProceedMoves, LeaveMoves DEF Probe, Moved, TypeOK
<1>9. ASSUME NEW t \in Tasks, Measure(t) PROVE TypeOK'
  BY <1>0, <1>9, ProceedMoves, LeaveMoves DEF Measure, Moved, TypeOK
<1>10. ASSUME NEW t \in Tasks, Spawn(t) PROVE TypeOK'
  BY <1>0, <1>10, ProceedMoves DEF Spawn, Moved, TypeOK
<1>11. ASSUME NEW t \in Tasks, SpawnFails(t) PROVE TypeOK'
  BY <1>0, <1>11, LeaveMoves DEF SpawnFails, Moved, TypeOK
<1>12. ASSUME NEW t \in Tasks, Identify(t) PROVE TypeOK'
  BY <1>0, <1>12, ProceedMoves, LeaveMoves DEF Identify, Moved, TypeOK
<1>13. ASSUME NEW t \in Tasks, Ready(t) PROVE TypeOK'
  BY <1>0, <1>13, EnsuredMoves DEF Ready, Moved, TypeOK
<1>14. ASSUME NEW t \in Tasks, StartFails(t) PROVE TypeOK'
  BY <1>0, <1>14, CloseCases DEF StartFails, Moved, TypeOK
<1>15. ASSUME NEW t \in Tasks, Check(t) PROVE TypeOK'
  BY <1>0, <1>15, ProceedMoves DEF Check, Moved, TypeOK
<1>16. ASSUME NEW t \in Tasks, Finish(t) PROVE TypeOK'
  BY <1>0, <1>16, LeaveMoves DEF Finish, Moved, TypeOK
<1>17. ASSUME NEW t \in Tasks, Overload(t) PROVE TypeOK'
  BY <1>0, <1>17, CloseCases DEF Overload, Moved, TypeOK
<1>18. ASSUME NEW t \in Tasks, Release(t) PROVE TypeOK'
  BY <1>0, <1>18 DEF Release, Goto, TypeOK
<1>19. ASSUME NEW t \in Tasks, Shutdown(t) PROVE TypeOK'
  BY <1>0, <1>19, CloseCases DEF Shutdown, Moved, TypeOK
<1>20. ASSUME NEW t \in Tasks, CloseEnds(t) PROVE TypeOK'
  BY <1>0, <1>20, LeaveMoves DEF CloseEnds, Moved, TypeOK
<1>21. ASSUME NEW t \in Tasks, CloseCancelled(t) PROVE TypeOK'
  BY <1>0, <1>21, LeaveMoves DEF CloseCancelled, Moved, TypeOK
<1>22. CASE ServerEnds
  BY <1>0, <1>22 DEF ServerEnds, TypeOK
<1>23. CASE OtherProcess
  BY <1>0, <1>23 DEF OtherProcess, TypeOK
<1>24. CASE Crash
  BY <1>0, <1>24 DEF Crash, TypeOK
<1>25. CASE UNCHANGED vars
  BY <1>0, <1>25 DEF TypeOK
<1> QED BY <1>1, <1>2, <1>3, <1>4, <1>5, <1>6, <1>7, <1>8, <1>9, <1>10,
       <1>11, <1>12, <1>13, <1>14, <1>15, <1>16, <1>17, <1>18, <1>19,
       <1>20, <1>21, <1>22, <1>23, <1>24, <1>25 DEF Next

Global == PidsApart /\ Singles /\ Agree /\ OursKnown /\ AllKnown /\ NoLockout /\ ExactSignals

LEMMA GlobalStep == IInv /\ [Next]_vars => Global'
<1> SUFFICES ASSUME IInv, [Next]_vars PROVE Global'
  OBVIOUS
<1> USE DEF Global, PidsApart, Singles, AtMostOne, Agree, OursKnown, AllKnown,
            NoLockout, ExactSignals, Position, ClosingOk, TypeOK
<1>0. TypeOK /\ TypeOK' /\ Global /\ \A t \in Tasks : Position(t) /\ ClosingOk(t)
  BY TypeStep DEF IInv
<1>1. ASSUME NEW t \in Tasks, Enter(t) PROVE Global'
  BY <1>0, <1>1 DEF Enter, Goto
<1>2. ASSUME NEW t \in Tasks, Ensure(t) PROVE Global'
  BY <1>0, <1>2 DEF Ensure, Goto
<1>3. ASSUME NEW t \in Tasks, Refuse(t) PROVE Global'
  BY <1>0, <1>3, LeaveMoves DEF Refuse, Moved
<1>4. ASSUME NEW t \in Tasks, Verify(t) PROVE Global'
  BY <1>0, <1>4, ProceedMoves, LeaveMoves, EnsuredMoves DEF Verify, Moved
<1>5. ASSUME NEW t \in Tasks, OpenPid(t) PROVE Global'
  BY <1>0, <1>5, ProceedMoves DEF OpenPid, Moved
<1>6. ASSUME NEW t \in Tasks, Terminate(t) PROVE Global'
  BY <1>0, <1>6, ProceedMoves DEF Terminate, Moved
<1>7. ASSUME NEW t \in Tasks, AwaitExit(t) PROVE Global'
  BY <1>0, <1>7, ProceedMoves, LeaveMoves DEF AwaitExit, Moved
<1>8. ASSUME NEW t \in Tasks, Probe(t) PROVE Global'
  BY <1>0, <1>8, ProceedMoves, LeaveMoves DEF Probe, Moved
<1>9. ASSUME NEW t \in Tasks, Measure(t) PROVE Global'
  BY <1>0, <1>9, ProceedMoves, LeaveMoves DEF Measure, Moved
<1>10. ASSUME NEW t \in Tasks, Spawn(t) PROVE Global'
  BY <1>0, <1>10, ProceedMoves DEF Spawn, Moved
<1>11. ASSUME NEW t \in Tasks, SpawnFails(t) PROVE Global'
  BY <1>0, <1>11, LeaveMoves DEF SpawnFails, Moved
<1>12. ASSUME NEW t \in Tasks, Identify(t) PROVE Global'
  <2>1. PidsApart'
    BY <1>0, <1>12, ProceedMoves, LeaveMoves DEF Identify, Moved
  <2>2. Singles'
    BY <1>0, <1>12, ProceedMoves, LeaveMoves DEF Identify, Moved
  <2>3. Agree'
    <3>0. process \subseteq child /\ AtMostOne(child) BY <1>0, <1>12 DEF Identify
    <3>1. process = {} \/ process = child BY <3>0
    <3> QED BY <1>0, <1>12, <3>1 DEF Identify
  <2>4. OursKnown'
    BY <1>0, <1>12, ProceedMoves, LeaveMoves DEF Identify, Moved
  <2>5. AllKnown'
    BY <1>0, <1>12, ProceedMoves, LeaveMoves DEF Identify, Moved
  <2>6. NoLockout'
    BY <1>0, <1>12, ProceedMoves, LeaveMoves DEF Identify, Moved
  <2>7. ExactSignals'
    BY <1>0, <1>12, ProceedMoves, LeaveMoves DEF Identify, Moved
  <2> QED BY <2>1, <2>2, <2>3, <2>4, <2>5, <2>6, <2>7
<1>13. ASSUME NEW t \in Tasks, Ready(t) PROVE Global'
  BY <1>0, <1>13, EnsuredMoves DEF Ready, Moved
<1>14. ASSUME NEW t \in Tasks, StartFails(t) PROVE Global'
  BY <1>0, <1>14, CloseCases DEF StartFails, Moved
<1>15. ASSUME NEW t \in Tasks, Check(t) PROVE Global'
  BY <1>0, <1>15, ProceedMoves DEF Check, Moved
<1>16. ASSUME NEW t \in Tasks, Finish(t) PROVE Global'
  BY <1>0, <1>16, LeaveMoves DEF Finish, Moved
<1>17. ASSUME NEW t \in Tasks, Overload(t) PROVE Global'
  BY <1>0, <1>17, CloseCases DEF Overload, Moved
<1>18. ASSUME NEW t \in Tasks, Release(t) PROVE Global'
  BY <1>0, <1>18 DEF Release, Goto
<1>19. ASSUME NEW t \in Tasks, Shutdown(t) PROVE Global'
  BY <1>0, <1>19, CloseCases DEF Shutdown, Moved
<1>20. ASSUME NEW t \in Tasks, CloseEnds(t) PROVE Global'
  <2>1. PidsApart'
    BY <1>0, <1>20, LeaveMoves DEF CloseEnds, Moved
  <2>2. Singles'
    BY <1>0, <1>20, LeaveMoves DEF CloseEnds, Moved
  <2>3. Agree'
    <3>1. Moved(t) /\ UNCHANGED memVars /\ pc[t] # "identifying" BY <1>0, <1>20, LeaveMoves DEF CloseEnds
    <3>2. file = closingRec[t] => process = {} \/ file # process
      BY <1>0
    <3>3. process # {} /\ (\A v \in Tasks : pc'[v] # "identifying") => recorded = process /\ file = process
      BY <1>0, <3>1 DEF Moved
    <3> QED BY <1>0, <1>20, <3>1, <3>2, <3>3 DEF CloseEnds
  <2>4. OursKnown'
    BY <1>0, <1>20, LeaveMoves DEF CloseEnds, Moved
  <2>5. AllKnown'
    BY <1>0, <1>20, LeaveMoves DEF CloseEnds, Moved
  <2>6. NoLockout'
    <3> SUFFICES ASSUME NEW x \in file' \cap ours', x \notin recorded' \cup stranded'
                 PROVE  \E v \in Tasks : x \in closingRec'[v]
      OBVIOUS
    <3>1. file' = file /\ file # closingRec[t] /\ UNCHANGED <<ours, recorded, stranded>>
      BY <1>20 DEF CloseEnds
    <3>2. PICK v \in Tasks : x \in closingRec[v]
      BY <1>0, <3>1
    <3>3. v # t
      <4> SUFFICES ASSUME v = t PROVE FALSE OBVIOUS
      <4>1. AtMostOne(file) /\ AtMostOne(closingRec[t]) /\ x \in file /\ x \in closingRec[t]
        BY <1>0, <3>1, <3>2
      <4>2. file = {x} /\ closingRec[t] = {x} BY <4>1
      <4> QED BY <3>1, <4>2
    <3>4. closingRec'[v] = closingRec[v]
      BY <1>0, <1>20, <3>3 DEF CloseEnds
    <3> QED BY <3>2, <3>4
  <2>7. ExactSignals'
    BY <1>0, <1>20, LeaveMoves DEF CloseEnds, Moved
  <2> QED BY <2>1, <2>2, <2>3, <2>4, <2>5, <2>6, <2>7
<1>21. ASSUME NEW t \in Tasks, CloseCancelled(t) PROVE Global'
  BY <1>0, <1>21, LeaveMoves DEF CloseCancelled, Moved
<1>22. CASE ServerEnds
  BY <1>0, <1>22 DEF ServerEnds
<1>23. CASE OtherProcess
  BY <1>0, <1>23 DEF OtherProcess
<1>24. CASE Crash
  BY <1>0, <1>24 DEF Crash
<1>25. CASE UNCHANGED vars
  BY <1>0, <1>25
<1> QED BY <1>1, <1>2, <1>3, <1>4, <1>5, <1>6, <1>7, <1>8, <1>9, <1>10,
       <1>11, <1>12, <1>13, <1>14, <1>15, <1>16, <1>17, <1>18, <1>19,
       <1>20, <1>21, <1>22, <1>23, <1>24, <1>25 DEF Next

LEMMA TaskStep == IInv /\ [Next]_vars => \A u \in Tasks : (Position(u) /\ ClosingOk(u))'
<1> SUFFICES ASSUME IInv, [Next]_vars, NEW u \in Tasks PROVE (Position(u) /\ ClosingOk(u))'
  OBVIOUS
<1> USE DEF Global, PidsApart, Singles, AtMostOne, Agree, OursKnown, AllKnown,
            NoLockout, ExactSignals, Position, ClosingOk, TypeOK
<1>0. TypeOK /\ TypeOK' /\ Global /\ Global' /\ \A t \in Tasks : Position(t) /\ ClosingOk(t)
  BY TypeStep, GlobalStep DEF IInv
<1>1. ASSUME NEW t \in Tasks, Enter(t) PROVE (Position(u) /\ ClosingOk(u))'
  BY <1>0, <1>1 DEF Enter, Goto
<1>2. ASSUME NEW t \in Tasks, Ensure(t) PROVE (Position(u) /\ ClosingOk(u))'
  BY <1>0, <1>2 DEF Ensure, Goto
<1>3. ASSUME NEW t \in Tasks, Refuse(t) PROVE (Position(u) /\ ClosingOk(u))'
  BY <1>0, <1>3, LeaveMoves DEF Refuse, Moved
<1>4. ASSUME NEW t \in Tasks, Verify(t) PROVE (Position(u) /\ ClosingOk(u))'
  <2>1. Position(u)'
    BY SMTT(30), <1>0, <1>4, ProceedMoves, LeaveMoves, EnsuredMoves DEF Verify, Moved
  <2>2. ClosingOk(u)'
    BY <1>0, <1>4, ProceedMoves, LeaveMoves, EnsuredMoves DEF Verify, Moved
  <2> QED BY <2>1, <2>2
<1>5. ASSUME NEW t \in Tasks, OpenPid(t) PROVE (Position(u) /\ ClosingOk(u))'
  <2> DEFINE there == {s \in alive : \E r \in file : home[s] = home[r]}
  <2>1. Moved(t) /\ pc'[t] \in {"terminating", "probing"} /\ lock' = lock /\ lock = {t} /\ active' = active
    BY <1>0, <1>5, ProceedMoves DEF OpenPid
  <2>2. pc'[t] = "terminating" => pinned' = there /\ file' = file
    BY <1>0, <1>5, ProceedMoves DEF OpenPid
  <2>3. pc'[t] = "probing" => file' = {}
    BY <1>0, <1>5, ProceedMoves DEF OpenPid
  <2>4. there = file \/ file \cap alive = {}
    BY <1>0, <1>5 DEF OpenPid
  <2>5. UNCHANGED <<alive, ours, process, recorded, told, closing, closingRec, child>>
    BY <1>5 DEF OpenPid
  <2>6. CASE u = t
    <3>1. Position(t) /\ ClosingOk(t) /\ pc[t] = "opening" BY <1>0, <1>5 DEF OpenPid
    <3>2. Position(t)'
      BY <2>1, <2>2, <2>3, <2>4, <2>5, <3>1
    <3>3. ClosingOk(t)'
      BY <2>1, <2>5, <3>1
    <3> QED BY <3>2, <3>3, <2>6
  <2>7. CASE u # t
    BY <1>0, <2>1, <2>2, <2>3, <2>5, <2>7 DEF Moved
  <2> QED BY <2>6, <2>7
<1>6. ASSUME NEW t \in Tasks, Terminate(t) PROVE (Position(u) /\ ClosingOk(u))'
  <2>1. Position(u)'
    BY SMTT(30), <1>0, <1>6, ProceedMoves DEF Terminate, Moved
  <2>2. ClosingOk(u)'
    BY <1>0, <1>6, ProceedMoves DEF Terminate, Moved
  <2> QED BY <2>1, <2>2
<1>7. ASSUME NEW t \in Tasks, AwaitExit(t) PROVE (Position(u) /\ ClosingOk(u))'
  <2>1. Position(u)'
    BY <1>0, <1>7, ProceedMoves, LeaveMoves DEF AwaitExit, Moved
  <2>2. ClosingOk(u)'
    BY <1>0, <1>7, ProceedMoves, LeaveMoves DEF AwaitExit, Moved
  <2> QED BY <2>1, <2>2
<1>8. ASSUME NEW t \in Tasks, Probe(t) PROVE (Position(u) /\ ClosingOk(u))'
  BY <1>0, <1>8, ProceedMoves, LeaveMoves DEF Probe, Moved
<1>9. ASSUME NEW t \in Tasks, Measure(t) PROVE (Position(u) /\ ClosingOk(u))'
  BY <1>0, <1>9, ProceedMoves, LeaveMoves DEF Measure, Moved
<1>10. ASSUME NEW t \in Tasks, Spawn(t) PROVE (Position(u) /\ ClosingOk(u))'
  <2>1. Position(u)'
    BY SMTT(30), <1>0, <1>10, ProceedMoves DEF Spawn, Moved
  <2>2. ClosingOk(u)'
    BY <1>0, <1>10, ProceedMoves DEF Spawn, Moved
  <2> QED BY <2>1, <2>2
<1>11. ASSUME NEW t \in Tasks, SpawnFails(t) PROVE (Position(u) /\ ClosingOk(u))'
  BY <1>0, <1>11, LeaveMoves DEF SpawnFails, Moved
<1>12. ASSUME NEW t \in Tasks, Identify(t) PROVE (Position(u) /\ ClosingOk(u))'
  <2>1. Position(u)'
    BY SMTT(30), <1>0, <1>12, ProceedMoves, LeaveMoves DEF Identify, Moved
  <2>2. ClosingOk(u)'
    BY <1>0, <1>12, ProceedMoves, LeaveMoves DEF Identify, Moved
  <2> QED BY <2>1, <2>2
<1>13. ASSUME NEW t \in Tasks, Ready(t) PROVE (Position(u) /\ ClosingOk(u))'
  BY <1>0, <1>13, EnsuredMoves DEF Ready, Moved
<1>14. ASSUME NEW t \in Tasks, StartFails(t) PROVE (Position(u) /\ ClosingOk(u))'
  BY <1>0, <1>14, CloseCases DEF StartFails, Moved
<1>15. ASSUME NEW t \in Tasks, Check(t) PROVE (Position(u) /\ ClosingOk(u))'
  BY <1>0, <1>15, ProceedMoves DEF Check, Moved
<1>16. ASSUME NEW t \in Tasks, Finish(t) PROVE (Position(u) /\ ClosingOk(u))'
  BY <1>0, <1>16, LeaveMoves DEF Finish, Moved
<1>17. ASSUME NEW t \in Tasks, Overload(t) PROVE (Position(u) /\ ClosingOk(u))'
  BY <1>0, <1>17, CloseCases DEF Overload, Moved
<1>18. ASSUME NEW t \in Tasks, Release(t) PROVE (Position(u) /\ ClosingOk(u))'
  BY <1>0, <1>18 DEF Release, Goto
<1>19. ASSUME NEW t \in Tasks, Shutdown(t) PROVE (Position(u) /\ ClosingOk(u))'
  BY <1>0, <1>19, CloseCases DEF Shutdown, Moved
<1>20. ASSUME NEW t \in Tasks, CloseEnds(t) PROVE (Position(u) /\ ClosingOk(u))'
  <2>1. Position(u)'
    BY <1>0, <1>20, LeaveMoves DEF CloseEnds, Moved
  <2>2. ClosingOk(u)'
    BY <1>0, <1>20, LeaveMoves DEF CloseEnds, Moved
  <2> QED BY <2>1, <2>2
<1>21. ASSUME NEW t \in Tasks, CloseCancelled(t) PROVE (Position(u) /\ ClosingOk(u))'
  BY <1>0, <1>21, LeaveMoves DEF CloseCancelled, Moved
<1>22. CASE ServerEnds
  BY <1>0, <1>22 DEF ServerEnds
<1>23. CASE OtherProcess
  BY <1>0, <1>23 DEF OtherProcess
<1>24. CASE Crash
  BY <1>0, <1>24 DEF Crash
<1>25. CASE UNCHANGED vars
  BY <1>0, <1>25
<1> QED BY <1>1, <1>2, <1>3, <1>4, <1>5, <1>6, <1>7, <1>8, <1>9, <1>10,
       <1>11, <1>12, <1>13, <1>14, <1>15, <1>16, <1>17, <1>18, <1>19,
       <1>20, <1>21, <1>22, <1>23, <1>24, <1>25 DEF Next

LEMMA StepIInv == IInv /\ [Next]_vars => IInv'
  BY TypeStep, GlobalStep, TaskStep DEF IInv, Global

LEMMA AlwaysIInv == Spec => []IInv
  BY InitIInv, StepIInv, PTL DEF Spec

--------------------------------------------------------------------------------

(* A signal of _terminate_recorded_server only ever reaches the server of the *)
(* record, whatever has become of its pid since.                              *)
THEOREM SignalsExact == Spec => []ExactSignals
<1>1. IInv => ExactSignals BY DEF IInv
<1> QED BY <1>1, AlwaysIInv, PTL

(* For any number of requests, crashes and pids at most one model server is   *)
(* in memory that nobody has told to stop and no crash has made unknown.      *)
THEOREM ModelOnce == Spec => []OneModel
<1>1. IInv => OneModel
  <2> SUFFICES ASSUME IInv, NEW s \in alive \ (told \cup lost), NEW r \in alive \ (told \cup lost)
               PROVE  s = r
    BY DEF OneModel
  <2>1. s \in process \cup file /\ r \in process \cup file BY DEF IInv, AllKnown
  <2>2. AtMostOne(process) /\ AtMostOne(file) BY DEF IInv, Singles
  <2>3. CASE \E t \in Tasks : pc[t] = "identifying"
    <3>1. file \cap alive \subseteq told BY <2>3 DEF IInv, Position
    <3> QED BY <2>1, <2>2, <3>1 DEF AtMostOne
  <2>4. CASE process = {}
    BY <2>1, <2>2, <2>4 DEF AtMostOne
  <2>5. CASE process # {} /\ \A t \in Tasks : pc[t] # "identifying"
    <3>1. file = process BY <2>5 DEF IInv, Agree
    <3> QED BY <2>1, <2>2, <3>1 DEF AtMostOne
  <2> QED BY <2>3, <2>4, <2>5
<1> QED BY <1>1, AlwaysIInv, PTL

(* While release_if_idle unloads the model no request is active.              *)
THEOREM IdleOnly == Spec => []IdleSpares
<1>1. IInv => IdleSpares BY DEF IInv, Position, IdleSpares
<1> QED BY <1>1, AlwaysIInv, PTL

(* Unless a close was cancelled or came too early, the record of this core    *)
(* never keeps it from starting its own server again.                         *)
THEOREM NeverLockedOut == Spec => []NoLockout
<1>1. IInv => NoLockout BY DEF IInv
<1> QED BY <1>1, AlwaysIInv, PTL
--------------------------------------------------------------------------------
(* The speech server (WhisperServer) is owned in the same way, by one adapter *)
(* whose lock covers a whole use.  One invariant carries its properties: every *)
(* living server that is not lost is in the memory of the adapter, in the     *)
(* hands of a stop or in the record, and these never name different servers.  *)

VARIABLES at, after, stopping, stopRec

W == INSTANCE WhisperServer

Places == {"free", "verifying", "stopping", "reclaiming", "pinned", "dying", "probing", "starting",
           "recording", "loading", "serving"}

SpeechTypeOK ==
  /\ born \in SUBSET Servers /\ alive \in SUBSET born /\ ours \in SUBSET born
  /\ home \in [Servers -> Pids] /\ foreign \in SUBSET Pids /\ file \in SUBSET born
  /\ process \in SUBSET ours /\ recorded \in SUBSET ours
  /\ stopping \in SUBSET ours /\ stopRec \in SUBSET ours /\ pinned \in SUBSET born
  /\ at \in Places /\ after \in {"free", "reclaiming"}
  /\ told \in SUBSET born /\ strayed \in BOOLEAN /\ lost \in SUBSET born

SpeechSingles == AtMostOne(file) /\ AtMostOne(process) /\ AtMostOne(stopping)

\* The memory and the record agree, but for a server that is not recorded yet.
SpeechAgree ==
  /\ process = {} => recorded = {}
  /\ process # {} => IF at = "recording" THEN recorded = {} /\ file = {}
                                         ELSE recorded = process /\ file = process
  /\ at \in {"reclaiming", "pinned", "dying", "probing", "starting", "stopping"} => process = {}
  /\ at \in {"verifying", "recording", "loading", "serving"} => process # {}
  /\ at \in {"probing", "starting", "recording"} => file = {}

\* A stop holds the server that it has taken from the memory.
StopHolds ==
  /\ at = "stopping" <=> stopping # {}
  /\ stopping # {} => (stopRec = {} /\ file = {}) \/ (stopRec = stopping /\ file = stopping)
  /\ stopping \subseteq told

SpeechKnown == alive \ lost \subseteq process \cup stopping \cup file

PinnedRecord == at = "pinned" => file # {} /\ (pinned = file \/ file \cap alive = {})

SpeechInv ==
  /\ SpeechTypeOK /\ PidsApart /\ SpeechSingles /\ SpeechAgree /\ StopHolds /\ SpeechKnown
  /\ PinnedRecord /\ W!ExactSignals

USE DEF Places, W!vars, W!osVars, W!memVars, W!stopVars, W!ghostVars

LEMMA InitSpeech == W!Init => SpeechInv
  BY DEF W!Init, SpeechInv, SpeechTypeOK, PidsApart, SpeechSingles, AtMostOne, SpeechAgree, StopHolds,
         SpeechKnown, PinnedRecord, W!ExactSignals

\* _stop_managed_server, when it has to wait and when it has not.
LEMMA StopCases ==
  ASSUME SpeechInv, NEW then \in {"free", "reclaiming"}, W!Stop(then)
  PROVE  /\ process' = {} /\ recorded' = {}
         /\ \/ /\ process \cap alive = {} /\ at' = then /\ UNCHANGED <<W!stopVars, told>>
               /\ file' = IF file = recorded THEN {} ELSE file
            \/ /\ process \cap alive # {} /\ at' = "stopping" /\ after' = then /\ file' = file
               /\ stopping' = process /\ stopRec' = recorded /\ told' = told \cup process
  BY DEF W!Stop

LEMMA StepSpeech == SpeechInv /\ [W!Next]_(W!vars) => SpeechInv'
<1> SUFFICES ASSUME SpeechInv, [W!Next]_(W!vars) PROVE SpeechInv'
  OBVIOUS
<1>0. SpeechTypeOK /\ PidsApart /\ SpeechSingles /\ SpeechAgree /\ StopHolds /\ SpeechKnown
       /\ PinnedRecord /\ W!ExactSignals
  BY DEF SpeechInv
<1> USE DEF SpeechInv, SpeechTypeOK, PidsApart, SpeechSingles, AtMostOne, SpeechAgree, StopHolds,
       SpeechKnown, PinnedRecord, W!ExactSignals
<1>1. CASE W!Stopped
  <2> HIDE DEF SpeechInv, SpeechTypeOK, PidsApart, SpeechSingles, AtMostOne, SpeechAgree, StopHolds,
         SpeechKnown, PinnedRecord, W!ExactSignals
  <2>1. file' = {} BY <1>0, <1>1 DEF W!Stopped, StopHolds
  <2>2. process = {} /\ recorded = {} BY <1>0, <1>1 DEF W!Stopped, SpeechAgree
  <2>3. alive \ lost = {} BY <1>0, <1>1, <2>2 DEF W!Stopped, SpeechKnown, StopHolds
  <2>4. SpeechTypeOK' /\ PidsApart' /\ SpeechSingles'
    BY <1>0, <1>1, <2>1 DEF W!Stopped, SpeechTypeOK, PidsApart, SpeechSingles, AtMostOne
  <2>5. SpeechAgree' /\ StopHolds' /\ SpeechKnown'
    BY <1>0, <1>1, <2>1, <2>2, <2>3 DEF W!Stopped, SpeechAgree, StopHolds, SpeechKnown, SpeechTypeOK
  <2>6. PinnedRecord' /\ W!ExactSignals' BY <1>0, <1>1 DEF W!Stopped, PinnedRecord, W!ExactSignals, SpeechTypeOK
  <2> QED BY <2>4, <2>5, <2>6 DEF SpeechInv
<1>2. CASE W!StopCancelled
  BY <1>2 DEF W!StopCancelled
<1>3. CASE W!Begin
  BY <1>3, StopCases DEF W!Begin
<1>4. CASE W!Verify
  BY <1>4, StopCases DEF W!Verify
<1>5. CASE W!Pin
  <2> HIDE DEF SpeechInv, SpeechTypeOK, PidsApart, SpeechSingles, AtMostOne, SpeechAgree, StopHolds,
         SpeechKnown, PinnedRecord, W!ExactSignals
  <2> DEFINE there == {s \in alive : \E r \in file : home[s] = home[r]}
  <2>1. there = file \/ file \cap alive = {}
    BY <1>0 DEF SpeechTypeOK, SpeechSingles, AtMostOne, PidsApart
  <2>2. process = {} /\ recorded = {} /\ stopping = {} BY <1>0, <1>5 DEF W!Pin, SpeechAgree, StopHolds
  <2>3. there \in SUBSET born BY <1>0 DEF SpeechTypeOK
  <2> HIDE DEF there
  <2>4. CASE file # {} /\ at' = "pinned" /\ pinned' = there /\ UNCHANGED file
    BY <1>0, <1>5, <2>1, <2>2, <2>3, <2>4
    DEF W!Pin, SpeechInv, SpeechTypeOK, PidsApart, SpeechSingles, AtMostOne, SpeechAgree, StopHolds,
           SpeechKnown, PinnedRecord, W!ExactSignals
  <2>5. CASE file \cap alive = {} /\ at' = "probing" /\ file' = {} /\ UNCHANGED pinned
    BY <1>0, <1>5, <2>2, <2>5
    DEF W!Pin, SpeechInv, SpeechTypeOK, PidsApart, SpeechSingles, AtMostOne, SpeechAgree, StopHolds,
           SpeechKnown, PinnedRecord, W!ExactSignals
  <2> QED BY <1>5, <2>4, <2>5 DEF W!Pin, there
<1>6. CASE W!Signal
  BY <1>6 DEF W!Signal
<1>7. CASE W!Exited
  BY <1>7 DEF W!Exited
<1>8. CASE W!GiveUp
  BY <1>8 DEF W!GiveUp
<1>9. CASE W!Probe
  BY <1>9 DEF W!Probe
<1>10. CASE W!Start
  BY <1>10 DEF W!Start
<1>11. CASE W!Record
  BY <1>11 DEF W!Record
<1>12. CASE W!Ready
  BY <1>12 DEF W!Ready
<1>13. CASE W!StartFails
  <2>1. CASE process \cap alive = {} BY <1>13, <2>1, StopCases DEF W!StartFails
  <2>2. CASE process \cap alive # {}
    <3>1. /\ process' = {} /\ recorded' = {} /\ at' = "stopping" /\ after' = "free" /\ file' = file
          /\ stopping' = process /\ stopRec' = recorded /\ told' = told \cup process
          /\ UNCHANGED <<W!osVars, ours, pinned, strayed, lost>>
      BY <1>13, <2>2, StopCases DEF W!StartFails
    <3>2. (recorded = {} /\ file = {}) \/ (recorded = process /\ file = process)
      <4> HIDE DEF SpeechInv, SpeechTypeOK, PidsApart, SpeechSingles, AtMostOne, StopHolds, SpeechKnown,
             PinnedRecord, W!ExactSignals
      <4> QED BY <1>0, <1>13, <2>2 DEF W!StartFails
    <3>3. SpeechTypeOK' /\ PidsApart' /\ SpeechSingles' BY <3>1
    <3>4. SpeechAgree' /\ PinnedRecord' /\ W!ExactSignals' BY <3>1
    <3>5. StopHolds' /\ SpeechKnown' BY <2>2, <3>1, <3>2
    <3> QED BY <3>3, <3>4, <3>5
  <2> QED BY <2>1, <2>2
<1>14. CASE W!Served
  BY <1>14 DEF W!Served
<1>15. CASE W!Close
  BY <1>15, StopCases DEF W!Close
<1>16. CASE W!ServerEnds
  BY <1>16 DEF W!ServerEnds
<1>17. CASE W!OtherProcess
  BY <1>17 DEF W!OtherProcess
<1>18. CASE W!Crash
  BY <1>18 DEF W!Crash
<1>19. CASE UNCHANGED W!vars
  BY <1>19
<1> QED BY <1>1, <1>2, <1>3, <1>4, <1>5, <1>6, <1>7, <1>8, <1>9, <1>10,
       <1>11, <1>12, <1>13, <1>14, <1>15, <1>16, <1>17, <1>18, <1>19 DEF W!Next

LEMMA AlwaysSpeech == W!Spec => []SpeechInv
  BY InitSpeech, StepSpeech, PTL DEF W!Spec

--------------------------------------------------------------------------------

(* The signal of _reclaim_stale_server only ever reaches the recorded server. *)
THEOREM SpeechSignalsExact == W!Spec => []W!ExactSignals
<1>1. SpeechInv => W!ExactSignals BY DEF SpeechInv
<1> QED BY <1>1, AlwaysSpeech, PTL

(* Over all failures, cancellations and crashes at most one speech server     *)
(* lives, but for one that was let go before its record was written.          *)
THEOREM OneSpeechServer == W!Spec => []W!OneServer
<1>1. SpeechInv => W!OneServer
  <2> SUFFICES ASSUME SpeechInv, NEW s \in alive \ lost, NEW r \in alive \ lost PROVE s = r
    BY DEF W!OneServer
  <2> USE DEF SpeechInv, SpeechKnown, SpeechAgree, StopHolds, SpeechSingles, AtMostOne
  <2>1. CASE process # {} /\ at # "recording" BY <2>1
  <2>2. CASE process # {} /\ at = "recording" BY <2>2
  <2>3. CASE process = {} /\ stopping # {} BY <2>3
  <2>4. CASE process = {} /\ stopping = {} BY <2>4
  <2> QED BY <2>1, <2>2, <2>3, <2>4
<1> QED BY <1>1, AlwaysSpeech, PTL

(* Every living server is managed, told to stop, lost, or recorded for a      *)
(* later core to find.                                                        *)
THEOREM SpeechAccounted == W!Spec => []W!Accounted
<1>1. SpeechInv => W!Accounted BY DEF SpeechInv, SpeechKnown, StopHolds, W!Accounted
<1> QED BY <1>1, AlwaysSpeech, PTL

(* A transcription is served by the recorded server of this core throughout.  *)
THEOREM SpeechServesOwn == W!Spec => []W!ServesOwn
<1>1. SpeechInv => W!ServesOwn BY DEF SpeechInv, SpeechAgree, W!ServesOwn
<1> QED BY <1>1, AlwaysSpeech, PTL
--------------------------------------------------------------------------------
(* The coding agent (CodingAgent) is a process of a job, and the properties   *)
(* of its jobs hold for every set of proposals.  Each follows from one        *)
(* invariant about a single proposal: what the position of its job says of    *)
(* its status, its file and its process.                                      *)

CONSTANT Proposals

VARIABLES up, status, executed, saved, running, cancel, place, worktree, tool, passed, launched, validated,
          committed, orphaned

A == INSTANCE CodingAgent WITH pc <- place, child <- tool

Final == {"CANCELLED", "FAILED", "NO_CHANGES", "VALIDATION_FAILED", "VALIDATED"}
Statuses == {"none", "READY", "BLOCKED", "RUNNING"} \cup Final
Processes == {"codex", "validation", "commit"}
BeforeWorktree == {"checking", "preparing", "starting"}
AtWork == Processes \cup {"launching", "reviewing", "validating", "concluding", "committing"}
Stations == BeforeWorktree \cup AtWork \cup {"idle", "admitting", "leaving"}

FilesTyped ==
  /\ status \in [Proposals -> Statuses] /\ executed \in [Proposals -> BOOLEAN]
  /\ saved \in [Proposals -> [status : Statuses, executed : BOOLEAN]]

AgentTypeOK ==
  /\ up \in BOOLEAN /\ FilesTyped
  /\ running \in SUBSET Proposals /\ cancel \in [Proposals -> BOOLEAN]
  /\ place \in [Proposals -> Stations] /\ worktree \in SUBSET Proposals
  /\ tool \in [Proposals -> Processes \cup {"none"}] /\ passed \in [Proposals -> BOOLEAN]
  /\ launched \in [Proposals -> Nat]
  /\ validated \in SUBSET Proposals /\ committed \in SUBSET Proposals
  /\ orphaned \in SUBSET Proposals

\* What a restart would read is what the memory says.
Durable(p) == saved[p] = [status |-> status[p], executed |-> executed[p]]

\* A job holds its place in _running, has not executed its proposal before it
\* marks it, and has marked it from then on.
Placed(p) ==
  /\ place[p] # "idle" <=> p \in running
  /\ place[p] # "idle" => up
  /\ place[p] \in BeforeWorktree => ~executed[p] /\ status[p] = "READY"
  /\ place[p] \in AtWork => executed[p] /\ status[p] = "RUNNING"

\* An agent was launched for an executed proposal only, and not by a job that is
\* about to.
LaunchedOnce(p) ==
  /\ launched[p] <= 1 /\ (launched[p] # 0 => executed[p])
  /\ status[p] = "none" => ~executed[p]
  /\ place[p] = "launching" => launched[p] = 0

\* Where a job that no crash has ended is, while its proposal runs or a process
\* of its lives.
Attended(p) ==
  p \notin orphaned => /\ status[p] = "RUNNING" => place[p] \in AtWork
                       /\ tool[p] # "none" => place[p] = tool[p]

\* A job concludes with every validation passed only when they were, and commits
\* only then.
Reviewed(p) ==
  /\ place[p] = "concluding" /\ passed[p] => p \in validated
  /\ place[p] \in {"committing", "commit"} \/ tool[p] = "commit" \/ p \in committed => p \in validated
  /\ status[p] = "VALIDATED" => p \in committed

Consistent(p) == Durable(p) /\ Placed(p) /\ LaunchedOnce(p) /\ Attended(p) /\ Reviewed(p)
AgentInv == AgentTypeOK /\ \A p \in Proposals : Consistent(p)

USE DEF Statuses, Final, Processes, BeforeWorktree, AtWork, Stations, A!vars, A!fileVars, A!jobVars, A!ghostVars

LEMMA InitAgent == A!Init => AgentInv
  BY DEF A!Init, AgentInv, AgentTypeOK, FilesTyped, Consistent, Durable, Placed, LaunchedOnce, Attended,
     Reviewed

LEMMA RecordTyped ==
  ASSUME FilesTyped, NEW p \in Proposals, NEW to \in Statuses, NEW done \in BOOLEAN, A!Record(p, to, done)
  PROVE  FilesTyped'
<1>1. [status |-> to, executed |-> done] \in [status : Statuses, executed : BOOLEAN]
  OBVIOUS
<1> QED BY <1>1 DEF FilesTyped, A!Record

LEMMA GotoTyped ==
  ASSUME AgentTypeOK, NEW p \in Proposals, NEW label \in Stations, A!Goto(p, label)
  PROVE  place' \in [Proposals -> Stations]
  BY DEF AgentTypeOK, A!Goto

LEMMA FinishTyped ==
  ASSUME AgentTypeOK, NEW p \in Proposals, NEW to \in Final, A!Finish(p, to)
  PROVE  FilesTyped' /\ place' \in [Proposals -> Stations]
<1>1. executed[p] \in BOOLEAN /\ to \in Statuses BY DEF AgentTypeOK, FilesTyped
<1>2. A!Record(p, to, executed[p]) /\ A!Goto(p, "leaving") BY DEF A!Finish
<1> QED BY <1>1, <1>2, RecordTyped, GotoTyped DEF AgentTypeOK

LEMMA FilesKept == FilesTyped /\ UNCHANGED A!fileVars => FilesTyped'
  BY DEF FilesTyped

LEMMA AgentTypeStep == AgentInv /\ [A!Next]_(A!vars) => AgentTypeOK'
<1> SUFFICES ASSUME AgentInv, [A!Next]_(A!vars) PROVE AgentTypeOK'
  OBVIOUS
<1>0. AgentTypeOK BY DEF AgentInv
<1>1. ASSUME NEW p \in Proposals, A!Propose(p) PROVE AgentTypeOK'
  BY <1>0, <1>1 DEF AgentTypeOK, FilesTyped, A!Propose, A!Record
<1>2. ASSUME NEW p \in Proposals, A!Execute(p) PROVE AgentTypeOK'
  BY <1>0, <1>2 DEF AgentTypeOK, FilesTyped, A!Execute, A!Goto
<1>3. ASSUME NEW p \in Proposals, A!CancelJob(p) PROVE AgentTypeOK'
  BY <1>0, <1>3 DEF AgentTypeOK, FilesTyped, A!CancelJob
<1>4. ASSUME NEW p \in Proposals, A!Admit(p) PROVE AgentTypeOK'
  BY <1>0, <1>4, FinishTyped, GotoTyped, FilesKept DEF AgentTypeOK, A!Admit
<1>5. ASSUME NEW p \in Proposals, A!Check(p) PROVE AgentTypeOK'
  BY <1>0, <1>5, FinishTyped, GotoTyped, FilesKept DEF AgentTypeOK, A!Check
<1>6. ASSUME NEW p \in Proposals, A!AddWorktree(p) PROVE AgentTypeOK'
  BY <1>0, <1>6 DEF AgentTypeOK, FilesTyped, A!AddWorktree, A!Goto
<1>7. ASSUME NEW p \in Proposals, A!MarkRunning(p) PROVE AgentTypeOK'
  BY <1>0, <1>7 DEF AgentTypeOK, FilesTyped, A!MarkRunning, A!Record, A!Goto
<1>8. ASSUME NEW p \in Proposals, A!Launch(p) PROVE AgentTypeOK'
  BY <1>0, <1>8, FinishTyped, GotoTyped, FilesKept DEF AgentTypeOK, A!Launch
<1>9. ASSUME NEW p \in Proposals, A!AgentEnds(p) PROVE AgentTypeOK'
  BY <1>0, <1>9, FinishTyped, GotoTyped, FilesKept DEF AgentTypeOK, A!AgentEnds
<1>10. ASSUME NEW p \in Proposals, A!Review(p) PROVE AgentTypeOK'
  BY <1>0, <1>10, FinishTyped, GotoTyped, FilesKept DEF AgentTypeOK, A!Review
<1>11. ASSUME NEW p \in Proposals, A!StartValidation(p) PROVE AgentTypeOK'
  BY <1>0, <1>11, FinishTyped, GotoTyped, FilesKept DEF AgentTypeOK, A!StartValidation
<1>12. ASSUME NEW p \in Proposals, A!EndValidation(p) PROVE AgentTypeOK'
  BY <1>0, <1>12, FinishTyped, GotoTyped, FilesKept DEF AgentTypeOK, A!EndValidation
<1>13. ASSUME NEW p \in Proposals, A!Conclude(p) PROVE AgentTypeOK'
  BY <1>0, <1>13, FinishTyped, GotoTyped, FilesKept DEF AgentTypeOK, A!Conclude
<1>14. ASSUME NEW p \in Proposals, A!StartCommit(p) PROVE AgentTypeOK'
  BY <1>0, <1>14, FinishTyped, GotoTyped, FilesKept DEF AgentTypeOK, A!StartCommit
<1>15. ASSUME NEW p \in Proposals, A!EndCommit(p) PROVE AgentTypeOK'
  BY <1>0, <1>15, FinishTyped, GotoTyped, FilesKept DEF AgentTypeOK, A!EndCommit
<1>16. ASSUME NEW p \in Proposals, A!Raise(p) PROVE AgentTypeOK'
  <2>1. FilesTyped'
    <3>1. CASE status[p] = "RUNNING"
      <4>1. A!Record(p, "FAILED", executed[p]) BY <1>16, <3>1 DEF A!Raise
      <4>2. executed[p] \in BOOLEAN BY <1>0 DEF AgentTypeOK, FilesTyped
      <4> QED BY <1>0, <4>1, <4>2, RecordTyped DEF AgentTypeOK
    <3>2. CASE status[p] # "RUNNING"
      BY <1>0, <1>16, <3>2, FilesKept DEF AgentTypeOK, A!Raise
    <3> QED BY <3>1, <3>2
  <2>2. place' \in [Proposals -> Stations] BY <1>0, <1>16, GotoTyped DEF A!Raise
  <2> QED BY <1>0, <1>16, <2>1, <2>2 DEF AgentTypeOK, A!Raise
<1>17. ASSUME NEW p \in Proposals, A!Leave(p) PROVE AgentTypeOK'
  BY <1>0, <1>17 DEF AgentTypeOK, FilesTyped, A!Leave, A!Goto
<1>18. ASSUME NEW p \in Proposals, A!OrphanEnds(p) PROVE AgentTypeOK'
  BY <1>0, <1>18 DEF AgentTypeOK, FilesTyped, A!OrphanEnds
<1>19. CASE A!Crash BY <1>0, <1>19 DEF AgentTypeOK, FilesTyped, A!Crash
<1>20. CASE A!Restart BY <1>0, <1>20 DEF AgentTypeOK, FilesTyped, A!Restart
<1>21. CASE UNCHANGED A!vars BY <1>0, <1>21 DEF AgentTypeOK, FilesTyped
<1> QED
  BY <1>1, <1>2, <1>3, <1>4, <1>5, <1>6, <1>7, <1>8, <1>9, <1>10, <1>11, <1>12,
     <1>13, <1>14, <1>15, <1>16, <1>17, <1>18, <1>19, <1>20, <1>21 DEF A!Next

LEMMA JobStep == AgentInv /\ [A!Next]_(A!vars) => \A q \in Proposals : Consistent(q)'
<1> SUFFICES ASSUME AgentInv, [A!Next]_(A!vars), NEW q \in Proposals PROVE Consistent(q)'
  OBVIOUS
<1> USE DEF Consistent, Durable, Placed, LaunchedOnce, Attended, Reviewed
<1>0. AgentTypeOK /\ AgentTypeOK' /\ Consistent(q) BY AgentTypeStep DEF AgentInv
<1>1. ASSUME NEW p \in Proposals, A!Propose(p) PROVE Consistent(q)'
  <2>1. PICK to \in {"READY", "BLOCKED"} : A!Record(p, to, FALSE) BY <1>1 DEF A!Propose
  <2>2. /\ place[p] \notin BeforeWorktree \cup AtWork /\ status[p] = "none"
        /\ UNCHANGED <<up, A!jobVars, A!ghostVars>>
    BY <1>0, <1>1 DEF A!Propose, AgentInv
  <2>3. CASE p = q
    <3>1. status'[q] = to /\ executed'[q] = FALSE /\ saved'[q] = [status |-> to, executed |-> FALSE]
      BY <1>0, <2>1, <2>3 DEF AgentTypeOK, FilesTyped, A!Record
    <3>2. launched[q] = 0 \/ executed[q] BY <1>0
    <3> QED BY <1>0, <2>2, <2>3, <3>1, <3>2 DEF AgentTypeOK
  <2>4. CASE p # q
    <3>1. status'[q] = status[q] /\ executed'[q] = executed[q] /\ saved'[q] = saved[q]
      BY <1>0, <2>1, <2>4 DEF AgentTypeOK, FilesTyped, A!Record
    <3> QED BY <1>0, <2>2, <3>1
  <2> QED BY <2>3, <2>4
<1>2. ASSUME NEW p \in Proposals, A!Execute(p) PROVE Consistent(q)'
  BY <1>0, <1>2 DEF AgentTypeOK, FilesTyped, A!Execute, A!Goto
<1>3. ASSUME NEW p \in Proposals, A!CancelJob(p) PROVE Consistent(q)'
  BY <1>0, <1>3 DEF AgentTypeOK, FilesTyped, A!CancelJob
<1>4. ASSUME NEW p \in Proposals, A!Admit(p) PROVE Consistent(q)'
  BY <1>0, <1>4 DEF AgentTypeOK, FilesTyped, A!Admit, A!Finish, A!Record, A!Goto
<1>5. ASSUME NEW p \in Proposals, A!Check(p) PROVE Consistent(q)'
  BY <1>0, <1>5 DEF AgentTypeOK, FilesTyped, A!Check, A!Finish, A!Record, A!Goto
<1>6. ASSUME NEW p \in Proposals, A!AddWorktree(p) PROVE Consistent(q)'
  BY <1>0, <1>6 DEF AgentTypeOK, FilesTyped, A!AddWorktree, A!Goto
<1>7. ASSUME NEW p \in Proposals, A!MarkRunning(p) PROVE Consistent(q)'
  <2>1. CASE p = q
    <3>1. /\ place[q] = "starting" /\ place'[q] = "launching" /\ status'[q] = "RUNNING" /\ executed'[q]
          /\ saved'[q] = [status |-> "RUNNING", executed |-> TRUE]
      BY <1>0, <1>7, <2>1 DEF AgentTypeOK, FilesTyped, A!MarkRunning, A!Record, A!Goto
    <3> QED BY <1>0, <1>7, <2>1, <3>1 DEF AgentTypeOK, A!MarkRunning
  <2>2. CASE p # q
    <3>1. place'[q] = place[q]
      BY <1>0, <1>7, <2>2 DEF AgentTypeOK, A!MarkRunning, A!Goto
    <3>2. status'[q] = status[q] /\ executed'[q] = executed[q] /\ saved'[q] = saved[q]
      BY <1>0, <1>7, <2>2 DEF AgentTypeOK, FilesTyped, A!MarkRunning, A!Record
    <3>3. UNCHANGED <<up, running, cancel, worktree, tool, passed, A!ghostVars>>
      BY <1>7 DEF A!MarkRunning
    <3> QED BY <1>0, <3>1, <3>2, <3>3
  <2> QED BY <2>1, <2>2
<1>8. ASSUME NEW p \in Proposals, A!Launch(p) PROVE Consistent(q)'
  BY <1>0, <1>8 DEF AgentTypeOK, FilesTyped, A!Launch, A!Finish, A!Record, A!Goto
<1>9. ASSUME NEW p \in Proposals, A!AgentEnds(p) PROVE Consistent(q)'
  BY <1>0, <1>9 DEF AgentTypeOK, FilesTyped, A!AgentEnds, A!Finish, A!Record, A!Goto
<1>10. ASSUME NEW p \in Proposals, A!Review(p) PROVE Consistent(q)'
  BY <1>0, <1>10 DEF AgentTypeOK, FilesTyped, A!Review, A!Finish, A!Record, A!Goto
<1>11. ASSUME NEW p \in Proposals, A!StartValidation(p) PROVE Consistent(q)'
  BY SMTT(30), <1>0, <1>11 DEF AgentTypeOK, FilesTyped, A!StartValidation, A!Finish, A!Record, A!Goto
<1>12. ASSUME NEW p \in Proposals, A!EndValidation(p) PROVE Consistent(q)'
  BY SMTT(30), <1>0, <1>12 DEF AgentTypeOK, FilesTyped, A!EndValidation, A!Finish, A!Record, A!Goto
<1>13. ASSUME NEW p \in Proposals, A!Conclude(p) PROVE Consistent(q)'
  BY SMTT(30), <1>0, <1>13 DEF AgentTypeOK, FilesTyped, A!Conclude, A!Finish, A!Record, A!Goto
<1>14. ASSUME NEW p \in Proposals, A!StartCommit(p) PROVE Consistent(q)'
  BY SMTT(30), <1>0, <1>14 DEF AgentTypeOK, FilesTyped, A!StartCommit, A!Finish, A!Record, A!Goto
<1>15. ASSUME NEW p \in Proposals, A!EndCommit(p) PROVE Consistent(q)'
  BY SMTT(30), <1>0, <1>15 DEF AgentTypeOK, FilesTyped, A!EndCommit, A!Finish, A!Record, A!Goto
<1>16. ASSUME NEW p \in Proposals, A!Raise(p) PROVE Consistent(q)'
  BY <1>0, <1>16 DEF AgentTypeOK, FilesTyped, A!Raise, A!Record, A!Goto
<1>17. ASSUME NEW p \in Proposals, A!Leave(p) PROVE Consistent(q)'
  BY <1>0, <1>17 DEF AgentTypeOK, FilesTyped, A!Leave, A!Goto
<1>18. ASSUME NEW p \in Proposals, A!OrphanEnds(p) PROVE Consistent(q)'
  BY <1>0, <1>18 DEF AgentTypeOK, FilesTyped, A!OrphanEnds
<1>19. CASE A!Crash BY <1>0, <1>19 DEF AgentTypeOK, FilesTyped, A!Crash
<1>20. CASE A!Restart BY <1>0, <1>20 DEF AgentTypeOK, FilesTyped, A!Restart
<1>21. CASE UNCHANGED A!vars BY <1>0, <1>21 DEF AgentTypeOK, FilesTyped
<1> QED
  BY <1>1, <1>2, <1>3, <1>4, <1>5, <1>6, <1>7, <1>8, <1>9, <1>10, <1>11, <1>12,
     <1>13, <1>14, <1>15, <1>16, <1>17, <1>18, <1>19, <1>20, <1>21 DEF A!Next

LEMMA StepAgent == AgentInv /\ [A!Next]_(A!vars) => AgentInv'
  BY AgentTypeStep, JobStep DEF AgentInv

LEMMA AlwaysAgent == A!Spec => []AgentInv
  BY InitAgent, StepAgent, PTL DEF A!Spec

(* The agent runs at most once for an approval (_execute_inner): for any      *)
(* number of proposals, whatever is cancelled, raised or lost in a crash.     *)
THEOREM AgentOnce == A!Spec => []A!OneAgent
<1>1. AgentInv => A!OneAgent
  BY DEF AgentInv, Consistent, LaunchedOnce, A!OneAgent
<1> QED BY <1>1, AlwaysAgent, PTL

(* Every review commit follows a complete set of passed validations, and      *)
(* every VALIDATED proposal has its commit (_execute_inner, _commit_result).  *)
THEOREM ReviewedCommits == A!Spec => []A!OnlyValidated
<1>1. AgentInv => A!OnlyValidated
  BY DEF AgentInv, AgentTypeOK, Consistent, Reviewed, A!OnlyValidated
<1> QED BY <1>1, AlwaysAgent, PTL

(* A job that has returned without a crash leaves no process and no proposal  *)
(* that still says RUNNING, in memory or in its file (execute).               *)
THEOREM JobsSettle == A!Spec => []A!Settled
<1>1. AgentInv => A!Settled
  <2> SUFFICES ASSUME AgentInv, NEW p \in Proposals \ orphaned, p \notin running
               PROVE  /\ tool[p] = "none" /\ status[p] # "RUNNING"
                      /\ saved[p] = [status |-> status[p], executed |-> executed[p]]
    BY DEF A!Settled
  <2>1. Consistent(p) BY DEF AgentInv
  <2>2. place[p] = "idle" BY <2>1 DEF Consistent, Placed
  <2>3. tool[p] # "idle" BY DEF AgentInv, AgentTypeOK
  <2>4. tool[p] = "none" /\ status[p] # "RUNNING"
    BY <2>1, <2>2, <2>3 DEF Consistent, Attended
  <2> QED BY <2>1, <2>4 DEF Consistent, Durable
<1> QED BY <1>1, AlwaysAgent, PTL
================================================================================
