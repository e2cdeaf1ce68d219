------------------------------- MODULE IpcServer -------------------------------
(***************************************************************************)
(* The IPC server of the core (ipc/server.py) over its event bus.  A       *)
(* connection has a reader, which accepts requests, a worker, which serves *)
(* the ordinary ones in order, a task for every responsive request and for *)
(* every stop, and a task that sends the events of its subscription.  A    *)
(* stop also removes the queued actions of every connection and answers    *)
(* them.  What a coroutine does between two awaits is one action; a reply  *)
(* succeeds or, when its client has gone or does not read, raises.         *)
(***************************************************************************)
EXTENDS EventLog

CONSTANTS
  Conns,           \* the connections, each also a possible subscriber
  Actions,         \* requests of a type in QUEUED_ACTIONS
  Plain,           \* other requests that are served in order
  Responsive,      \* requests served at once
  Stops,           \* stop-all commands
  Of,              \* the connection of a request
  Stalls,          \* the connections whose client may stop reading
  QueueLimit, ResponsiveLimit, InterruptLimit,
  Workloads,       \* what the clients and the components may do in one behaviour
  NoRequest

Requests == Actions \cup Plain \cup Responsive \cup Stops

ASSUME IpcAssumption ==
  /\ Conns \cup {Persister} = Subscribers /\ Persister \notin Conns
  /\ Of \in [Requests -> Conns] /\ Stalls \subseteq Conns
  /\ QueueLimit \in Nat \ {0} /\ ResponsiveLimit \in Nat \ {0} /\ InterruptLimit \in Nat \ {0}
  /\ Workloads \subseteq [clients : SUBSET Conns, requests : SUBSET Requests, events : SUBSET Events,
                          incidents : SUBSET {"clear", "privacy", "shutdown", "loop ends"}]
  /\ NoRequest \notin Requests \cup {"dead"} /\ "dead" \notin Requests

VARIABLES
  conn,      \* the reader of a connection
  peer,      \* the client still has its end open
  closing,   \* the server has closed its end (writer.is_closing)
  requests,  \* the request queue of each connection
  worker,    \* the request the worker serves, NoRequest, or "dead"
  sender,    \* the task that sends a subscription's events
  place,     \* what has become of a request
  owed,      \* the cancelled requests a stop has still to answer
  sent,      \* the requests of each connection in the order its reader took them
  answers,   \* the number of replies a client got for a request
  early,     \* connections whose reader saw a join that did not hold
  up,        \* the server has not been stopped
  workload

taskVars == <<conn, peer, closing, requests, worker, sender, place, owed>>
ghostVars == <<sent, answers, early>>
ipcVars == <<taskVars, ghostVars, up, workload>>
vars == <<eventVars, ipcVars>>

Pending == {"queued", "running", "quick", "stopping", "informing", "owed"}

IpcInit ==
  /\ conn = [c \in Conns |-> "new"]
  /\ peer = [c \in Conns |-> TRUE] /\ closing = [c \in Conns |-> FALSE]
  /\ requests = [c \in Conns |-> <<>>]
  /\ worker = [c \in Conns |-> NoRequest]
  /\ sender = [c \in Conns |-> "off"]
  /\ place = [r \in Requests |-> "unsent"]
  /\ owed = [s \in Stops |-> {}]
  /\ sent = [c \in Conns |-> <<>>]
  /\ answers = [r \in Requests |-> 0]
  /\ early = {}
  /\ up = TRUE
  /\ workload \in Workloads

Init == BusInit /\ LogInit /\ IpcInit

--------------------------------------------------------------------------------
(* Helpers *)

Live(c) == conn[c] \notin {"new", "closed"}

\* A frame can be written to a client that is there, and the write can fail when
\* it is not, or does not read for five seconds.
CanReply(c) == peer[c] /\ ~closing[c]
MayFail(c) == ~CanReply(c) \/ c \in Stalls

Serving(c) == worker[c] \in Requests
QuickOf(c) == {r \in Requests : Of[r] = c /\ place[r] = "quick"}
InterruptsOf(c) == {s \in Stops : Of[s] = c /\ place[s] \in {"stopping", "informing"}}

Put(r, where) == place' = [place EXCEPT ![r] = where]
Answered(r) == answers' = [answers EXCEPT ![r] = @ + 1]
CloseWriter(c) == closing' = [closing EXCEPT ![c] = TRUE]

\* The reader leaves request_queue.join() when the last request is done.
Joined(c) == conn' = IF conn[c] = "eof" THEN [conn EXCEPT ![c] = "gathering"] ELSE conn

--------------------------------------------------------------------------------
(* The reader: _client_connected *)

Connect(c) ==
  /\ up /\ conn[c] = "new" /\ c \in workload.clients
  /\ conn' = [conn EXCEPT ![c] = "open"]
  /\ UNCHANGED <<peer, closing, requests, worker, sender, place, owed, ghostVars, up, workload>>

\* A refused request: the reader's own write can end the connection.
ReplyBusy(r) ==
  \/ /\ CanReply(Of[r])
     /\ Put(r, "busy") /\ Answered(r) /\ UNCHANGED conn
  \/ /\ MayFail(Of[r])
     /\ Put(r, "unanswered") /\ conn' = [conn EXCEPT ![Of[r]] = "broken"] /\ UNCHANGED answers

Taken(r) ==
  /\ conn[Of[r]] = "open" /\ place[r] = "unsent" /\ r \in workload.requests
  /\ sent' = [sent EXCEPT ![Of[r]] = Append(@, r)]
  /\ UNCHANGED <<peer, closing, worker, sender, early, up, workload>>

Enqueue(r) ==
  \/ /\ Len(requests[Of[r]]) < QueueLimit
     /\ requests' = [requests EXCEPT ![Of[r]] = Append(@, r)]
     /\ Put(r, "queued") /\ UNCHANGED <<conn, answers>>
  \/ /\ Len(requests[Of[r]]) >= QueueLimit
     /\ ReplyBusy(r) /\ UNCHANGED requests

TakeOrdinary(r) == r \in Actions \cup Plain /\ Taken(r) /\ Enqueue(r) /\ UNCHANGED owed

\* Beyond the limit a responsive request waits its turn like the others.
TakeResponsive(r) ==
  /\ r \in Responsive /\ Taken(r)
  /\ IF Cardinality(QuickOf(Of[r])) < ResponsiveLimit
     THEN Put(r, "quick") /\ UNCHANGED <<conn, requests, answers>>
     ELSE Enqueue(r)
  /\ UNCHANGED owed

\* _cancel_queued_actions: every queued action of every connection is withdrawn.
\* task_done is called for the retained requests too, before they are put back:
\* a reader that joins a queue whose worker has not woken yet is released.
Withdrawn(c) == {r \in Range(requests[c]) : r \in Actions}

Released == {c \in Conns : conn[c] = "eof" /\ requests[c] # <<>> /\ ~Serving(c)}

Retained(kept, r) == IF r \in Actions THEN kept ELSE Append(kept, r)

Removed_None(c) == requests[c]
Removed_Reversed(c) == Reverse(FoldLeft(Retained, <<>>, requests[c]))
Removed(c) == FoldLeft(Retained, <<>>, requests[c])

CancelQueued(s) ==
  LET gone == UNION {Withdrawn(c) : c \in Conns} IN
  /\ owed' = [owed EXCEPT ![s] = gone]
  /\ requests' = [c \in Conns |-> Removed(c)]
  /\ place' = [r \in Requests |-> IF r = s THEN "stopping" ELSE IF r \in gone THEN "owed" ELSE place[r]]
  /\ conn' = [c \in Conns |-> IF c \in Released THEN "gathering" ELSE conn[c]]
  /\ early' = early \cup {c \in Released : requests'[c] # <<>>}

TakeStop(s) ==
  /\ conn[Of[s]] = "open" /\ place[s] = "unsent" /\ s \in workload.requests
  /\ sent' = [sent EXCEPT ![Of[s]] = Append(@, s)]
  /\ \/ /\ Cardinality(InterruptsOf(Of[s])) < InterruptLimit
        /\ CancelQueued(s) /\ UNCHANGED answers
     \/ /\ Cardinality(InterruptsOf(Of[s])) >= InterruptLimit
        /\ ReplyBusy(s) /\ UNCHANGED <<requests, owed, early>>
  /\ UNCHANGED <<peer, closing, worker, sender, up, workload>>

\* The client closed its end, or the server did: accepted work may still finish.
ReadEof_Hurry(c) ==
  /\ conn[c] = "open" /\ (~peer[c] \/ closing[c])
  /\ conn' = [conn EXCEPT ![c] = "gathering"]
  /\ UNCHANGED <<peer, closing, requests, worker, sender, place, owed, ghostVars, up, workload>>
ReadEof(c) ==
  /\ conn[c] = "open" /\ (~peer[c] \/ closing[c])
  /\ conn' = [conn EXCEPT ![c] =
                IF worker[c] = "dead" \/ (requests[c] = <<>> /\ ~Serving(c)) THEN "gathering" ELSE "eof"]
  /\ UNCHANGED <<peer, closing, requests, worker, sender, place, owed, ghostVars, up, workload>>

\* The finally clause, once the responsive tasks are gathered or an error came:
\* it unsubscribes, cancels the tasks of the connection and closes its writer.
Ready(c) ==
  conn[c] = "broken" \/ (conn[c] = "gathering" /\ QuickOf(c) = {} /\ InterruptsOf(c) = {})

Teardown(c) ==
  LET stopped == InterruptsOf(c)
      orphans == UNION {owed[s] : s \in stopped}
      tasks   == QuickOf(c) \cup stopped \cup {r \in Requests : r = worker[c]} IN
  /\ Ready(c)
  /\ conn' = [conn EXCEPT ![c] = "closed"]
  /\ CloseWriter(c)
  /\ worker' = [worker EXCEPT ![c] = "dead"]
  /\ sender' = [sender EXCEPT ![c] = "dead"]
  /\ requests' = [requests EXCEPT ![c] = <<>>]
  /\ place' = [r \in Requests |-> CASE r \in tasks -> "aborted"
                                    [] r \in orphans -> "orphaned"
                                    [] r \in Range(requests[c]) -> "unanswered"
                                    [] OTHER -> place[r]]
  /\ owed' = [s \in Stops |-> IF s \in stopped THEN {} ELSE owed[s]]
  /\ UNCHANGED <<peer, ghostVars, up, workload>>

--------------------------------------------------------------------------------
(* The worker: _serve_requests and _respond *)

\* The worker wakes and takes the first request.
Wake(c) ==
  /\ worker[c] = NoRequest /\ requests[c] # <<>> /\ Live(c)
  /\ worker' = [worker EXCEPT ![c] = Head(requests[c])]
  /\ requests' = [requests EXCEPT ![c] = Tail(@)]
  /\ Put(Head(requests[c]), "running")
  /\ UNCHANGED <<conn, peer, closing, sender, owed, ghostVars, up, workload>>

\* The handler has returned or raised and its reply is written: the worker goes
\* straight on to the next request.
Serve(c) ==
  /\ Serving(c) /\ CanReply(c)
  /\ Answered(worker[c])
  /\ IF requests[c] = <<>>
     THEN /\ worker' = [worker EXCEPT ![c] = NoRequest]
          /\ Put(worker[c], "answered") /\ Joined(c) /\ UNCHANGED requests
     ELSE /\ worker' = [worker EXCEPT ![c] = Head(requests[c])]
          /\ requests' = [requests EXCEPT ![c] = Tail(@)]
          /\ place' = [place EXCEPT ![worker[c]] = "answered", ![Head(requests[c])] = "running"]
          /\ UNCHANGED conn
  /\ UNCHANGED <<peer, closing, sender, owed, sent, early, up, workload>>

\* The reply cannot be written: the worker ends, writer_done closes the
\* connection and empties its queue.
ServeFails(c) ==
  /\ Serving(c) /\ MayFail(c)
  /\ worker' = [worker EXCEPT ![c] = "dead"]
  /\ CloseWriter(c)
  /\ requests' = [requests EXCEPT ![c] = <<>>]
  /\ place' = [r \in Requests |->
                 IF r = worker[c] \/ r \in Range(requests[c]) THEN "unanswered" ELSE place[r]]
  /\ Joined(c)
  /\ UNCHANGED <<peer, sender, owed, ghostVars, up, workload>>

--------------------------------------------------------------------------------
(* Responsive requests and stops: _respond, _respond_action_stop *)

ReplyQuick(r) ==
  /\ place[r] = "quick"
  /\ \/ CanReply(Of[r]) /\ Put(r, "answered") /\ Answered(r) /\ UNCHANGED closing
     \/ MayFail(Of[r]) /\ Put(r, "unanswered") /\ CloseWriter(Of[r]) /\ UNCHANGED answers
  /\ UNCHANGED <<conn, peer, requests, worker, sender, owed, sent, early, up, workload>>

\* The stop handler has returned.  If its own reply fails the task ends there, and
\* nobody tells the clients of the requests it withdrew.
ReplyStop(s) ==
  /\ place[s] = "stopping"
  /\ \/ /\ CanReply(Of[s])
        /\ Put(s, IF owed[s] = {} THEN "answered" ELSE "informing")
        /\ Answered(s) /\ UNCHANGED <<closing, owed>>
     \/ /\ MayFail(Of[s])
        /\ place' = [r \in Requests |-> CASE r = s -> "unanswered"
                                          [] r \in owed[s] -> "orphaned"
                                          [] OTHER -> place[r]]
        /\ owed' = [owed EXCEPT ![s] = {}]
        /\ CloseWriter(Of[s]) /\ UNCHANGED answers
  /\ UNCHANGED <<conn, peer, requests, worker, sender, sent, early, up, workload>>

\* The next withdrawn request is answered as cancelled, unless its client is gone.
Inform_First(s, r) ==
  /\ place[s] = "informing" /\ r \in owed[s]
  /\ owed' = [owed EXCEPT ![s] = {}]
  /\ place' = [place EXCEPT ![r] = "cancelled", ![s] = "answered"]
  /\ Answered(r)
  /\ UNCHANGED <<conn, peer, closing, requests, worker, sender, sent, early, up, workload>>
Inform(s, r) ==
  /\ place[s] = "informing" /\ r \in owed[s]
  /\ owed' = [owed EXCEPT ![s] = @ \ {r}]
  /\ LET next == IF owed'[s] = {} THEN "answered" ELSE "informing" IN
     \/ /\ CanReply(Of[r])
        /\ place' = [place EXCEPT ![r] = "cancelled", ![s] = next]
        /\ Answered(r) /\ UNCHANGED closing
     \/ /\ MayFail(Of[r])
        /\ place' = [place EXCEPT ![r] = "unanswered", ![s] = next]
        /\ CloseWriter(Of[r]) /\ UNCHANGED answers
  /\ UNCHANGED <<conn, peer, requests, worker, sender, sent, early, up, workload>>

--------------------------------------------------------------------------------
(* Clients, subscriptions and the end of the server *)

\* A client may close its end at any time.
Disconnect(c) ==
  /\ Live(c) /\ peer[c]
  /\ peer' = [peer EXCEPT ![c] = FALSE]
  /\ UNCHANGED <<conn, closing, requests, worker, sender, place, owed, ghostVars, up, workload>>

SubscribeClient(c) ==
  /\ conn[c] = "open" /\ sender[c] = "off" /\ workload.events # {}
  /\ Subscribe(c)
  /\ sender' = [sender EXCEPT ![c] = "on"]
  /\ \/ CanReply(c) /\ UNCHANGED conn
     \/ MayFail(c) /\ conn' = [conn EXCEPT ![c] = "broken"]
  /\ UNCHANGED <<peer, closing, requests, worker, place, owed, ghostVars, up, workload>>

\* _send_events: a failed write ends the task and closes the connection.
SendEvent(c) ==
  /\ sender[c] = "on" /\ Receive(c)
  /\ \/ CanReply(c) /\ UNCHANGED <<sender, closing>>
     \/ MayFail(c) /\ sender' = [sender EXCEPT ![c] = "dead"] /\ CloseWriter(c)
  /\ UNCHANGED <<conn, peer, requests, worker, place, owed, ghostVars, up, workload>>

\* stop: close every writer, then cancel the client tasks.
StopServer ==
  /\ up /\ "shutdown" \in workload.incidents
  /\ up' = FALSE
  /\ closing' = [c \in Conns |-> closing[c] \/ Live(c)]
  /\ UNCHANGED <<conn, peer, requests, worker, sender, place, owed, ghostVars, workload>>

CancelClient(c) ==
  /\ ~up /\ conn[c] \in {"open", "eof", "gathering"}
  /\ conn' = [conn EXCEPT ![c] = "broken"]
  /\ UNCHANGED <<peer, closing, requests, worker, sender, place, owed, ghostVars, up, workload>>

--------------------------------------------------------------------------------
(* The specification *)

ReaderStep(c) ==
  \/ Connect(c) /\ UNCHANGED eventVars
  \/ ReadEof(c) /\ UNCHANGED eventVars
  \/ Teardown(c) /\ Unsubscribe(c) /\ UNCHANGED logVars
  \/ CancelClient(c) /\ UNCHANGED eventVars
  \/ SubscribeClient(c) /\ UNCHANGED logVars

RequestTaken(r) ==
  /\ TakeOrdinary(r) \/ TakeResponsive(r) \/ (r \in Stops /\ TakeStop(r))
  /\ UNCHANGED eventVars

WorkerStep(c) == (Wake(c) \/ Serve(c) \/ ServeFails(c)) /\ UNCHANGED eventVars

ReplyStep(r) ==
  /\ ReplyQuick(r) \/ (r \in Stops /\ (ReplyStop(r) \/ \E q \in owed[r] : Inform(r, q)))
  /\ UNCHANGED eventVars

\* The core publishes, persists, clears its history and changes its privacy.
CoreStep ==
  \/ Flush /\ UNCHANGED <<logVars, ipcVars>>
  \/ Persister \in subscribed /\ Persist /\ UNCHANGED ipcVars
  \/ (RecordEvent \/ BeginNotice \/ EndNotice) /\ UNCHANGED ipcVars

CoreIncident ==
  \/ (\E e \in workload.events : Publish(e)) /\ UNCHANGED <<logVars, ipcVars>>
  \/ "clear" \in workload.incidents /\ clearedThrough = 0 /\ published # <<>>
     /\ ClearTimeline /\ UNCHANGED ipcVars
  \/ "privacy" \in workload.incidents /\ ChangePrivacy(~private) /\ UNCHANGED ipcVars
  \/ "loop ends" \in workload.incidents /\ CloseLoop /\ UNCHANGED <<logVars, ipcVars>>
  \/ StopServer /\ UNCHANGED eventVars
  \/ \E c \in Conns : Disconnect(c) /\ UNCHANGED eventVars

\* The persistence task subscribes after the server has started, and is the first
\* to end when the core stops.
Persistence ==
  /\ workload.events # {} /\ ownerLoop # "closed" /\ up
  /\ \/ due[Persister] = {} /\ Persister \notin subscribed /\ Subscribe(Persister)
     \/ "shutdown" \in workload.incidents /\ Persister \in subscribed /\ Unsubscribe(Persister)
  /\ UNCHANGED <<logVars, ipcVars>>

Next ==
  \/ Persistence
  \/ \E c \in Conns : ReaderStep(c) \/ WorkerStep(c) \/ (SendEvent(c) /\ UNCHANGED logVars)
  \/ \E r \in Requests : RequestTaken(r) \/ ReplyStep(r)
  \/ CoreStep
  \/ CoreIncident

Spec == Init /\ [][Next]_vars

\* Tasks that can run do run, and handlers and writes end (their timeouts see to
\* it).  Clients and the core's incidents owe nothing.
Fairness ==
  /\ \A c \in Conns :
       /\ WF_vars(WorkerStep(c))
       /\ WF_vars((ReadEof(c) /\ UNCHANGED eventVars)
                  \/ (Teardown(c) /\ Unsubscribe(c) /\ UNCHANGED logVars))
  /\ \A r \in Responsive \cup Stops : WF_vars(ReplyStep(r))

FairSpec == Spec /\ Fairness

--------------------------------------------------------------------------------
(* Properties *)

\* No request is answered twice: a stop and the worker of a connection never both
\* answer the same request, whoever gets to it first.
AnsweredOnce == \A r \in Requests : answers[r] <= 1

\* The worker of a connection serves no request while one that was sent before it
\* waits, also when a stop has taken some of them out of the queue.
InOrder ==
  \A c \in Conns : \A i, j \in DOMAIN sent[c] :
    i < j /\ worker[c] = sent[c][j] => place[sent[c][i]] # "queued"

\* "Let an accepted operation finish if a client closes its socket": what runs for
\* a connection is cut off only when the server stops or the reader's own write
\* fails.  The exception is early: a stop of another connection releases the join
\* of a reader whose worker has not yet taken the first of its requests.
AcceptedFinishes ==
  [][ \A r \in Requests : place[r] \in Pending /\ place'[r] = "aborted" =>
        conn[Of[r]] = "broken" \/ Of[r] \in early ]_vars

\* An accepted request is answered, or its connection has ended, whatever is
\* stopped and whoever fails.  The exception is orphaned: the stop that withdrew
\* it could not answer its own client and ended there.  (Each request is made once,
\* so it is enough to say what has become of all of them in the end.)
EveryRequestAnswered ==
  <>[](\A r \in Requests :
         place[r] \notin {"unsent", "orphaned"} =>
           answers[r] = 1 \/ closing[Of[r]] \/ conn[Of[r]] = "closed")
================================================================================
