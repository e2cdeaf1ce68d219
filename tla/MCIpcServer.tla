------------------------------ MODULE MCIpcServer ------------------------------
(* Instances of IpcServer for TLC. *)
EXTENDS IpcServer

CONSTANTS c1, c2, core, a1, a2, b1, q1, q2, s1, s2, low, mid, high, wave

MCRank == [e \in Events |-> CASE e = low -> 0 [] e = high -> 2 [] e = wave -> 0 [] OTHER -> 1]
MCOf == [r \in Requests |-> IF r \in {a2, s2} THEN c2 ELSE c1]

Workload(clients, reqs, evs, incidents) ==
  [clients |-> clients, requests |-> reqs, events |-> evs, incidents |-> incidents]

\* Two clients whose queues a stop of either withdraws; one client that overruns
\* every limit; two clients that stop at once while the server is shut down.
RequestLoads ==
  { Workload({c1, c2}, {a1, b1, a2, s2}, {}, {}),
    Workload({c1}, {b1, q1, q2, s1}, {}, {}),
    Workload({c1, c2}, {a1, s1, s2}, {}, {"shutdown"}) }

\* Publications of the loop and of threads, of different importance; a history
\* cleared and a privacy changed meanwhile; threads that outlive the loop.
EventLoads ==
  { Workload({c1}, {}, {low, mid, high}, {}),
    Workload({}, {}, {low, high, wave}, {"clear"}),
    Workload({}, {}, {low, mid, wave}, {"privacy"}),
    Workload({}, {}, {low, mid, high, wave}, {"shutdown", "loop ends"}) }

MCWorkloads == RequestLoads \cup EventLoads
================================================================================
