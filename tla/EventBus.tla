-------------------------------- MODULE EventBus --------------------------------
(***************************************************************************)
(* The event bus of the core (events.py, PhaxEventBus).  Components        *)
(* publish from the event loop and from worker threads; every subscriber   *)
(* has a bounded queue of its own.  publish, _flush_pending, subscribe,    *)
(* unsubscribe and set_private run under one lock and are one action each. *)
(* An event published by a thread waits in a second bounded queue until    *)
(* the loop, or a publication made on the loop, flushes it.                *)
(***************************************************************************)
EXTENDS Naturals, FiniteSets, SequencesExt

CONSTANTS
  Events,       \* the publications, each made once
  Rank,         \* the rank of an event's priority (priority.py)
  Threaded,     \* the events a worker thread publishes
  Transient,    \* waveform samples, which are kept out of the history
  Subscribers,
  QueueSize     \* the bound of a subscriber's queue and of _pending_dispatch

ASSUME BusAssumption ==
  /\ Rank \in [Events -> 0..3]
  /\ Threaded \subseteq Events /\ Transient \subseteq Events
  /\ QueueSize \in Nat \ {0}

VARIABLES
  published,   \* every event so far, in the order of Event.sequence
  stamped,     \* the events with Event.private
  private,     \* PhaxEventBus.private
  history,     \* _history
  ownerLoop,   \* _owner_loop: not yet bound, open or closed
  subscribed,  \* the subscribers registered in _subscribers
  queue,       \* the queue of each subscriber, kept after it unsubscribes
  ingress,     \* _pending_dispatch
  scheduled,   \* _dispatch_scheduled
  dropped,     \* _dropped_deliveries
  due,         \* the events each subscriber was a recipient of
  received     \* the events each subscriber took from its queue

busVars == <<published, stamped, private, history, ownerLoop, subscribed, queue, ingress,
             scheduled, dropped, due, received>>
deliveryVars == <<queue, ingress, scheduled, dropped>>

BusInit ==
  /\ published = <<>> /\ stamped = {} /\ history = <<>>
  /\ private \in BOOLEAN
  /\ ownerLoop = "unbound"
  /\ subscribed = {}
  /\ queue = [s \in Subscribers |-> <<>>]
  /\ ingress = <<>> /\ scheduled = FALSE
  /\ dropped = 0
  /\ due = [s \in Subscribers |-> {}]
  /\ received = [s \in Subscribers |-> <<>>]

--------------------------------------------------------------------------------
(* The bounded queues.  A definition named X_Y is a mutation of X.          *)

\* The place of the first of the least important events of a sequence.
Victim(ranks) ==
  CHOOSE i \in DOMAIN ranks :
    \A j \in DOMAIN ranks : ranks[i] < ranks[j] \/ (ranks[i] = ranks[j] /\ i <= j)

\* A full queue gives up its victim for an event that is at least as important;
\* the order of what it keeps does not change.
Admitted_Newest(seq, ranks, item, rank) ==
  IF Len(seq) < QueueSize THEN Append(seq, item) ELSE Append(Tail(seq), item)
Admitted(seq, ranks, item, rank) ==
  IF Len(seq) < QueueSize THEN Append(seq, item)
  ELSE IF rank >= ranks[Victim(ranks)] THEN Append(RemoveAt(seq, Victim(ranks)), item)
  ELSE seq

EventRanks(seq) == [i \in DOMAIN seq |-> Rank[seq[i]]]
IngressRanks == [i \in DOMAIN ingress |-> Rank[ingress[i].event]]

\* _deliver: one delivery is lost for every recipient whose queue is full.
Delivered(state, entry) ==
  [ queue |-> [s \in Subscribers |->
                 IF s \in entry.to
                 THEN Admitted(state.queue[s], EventRanks(state.queue[s]), entry.event, Rank[entry.event])
                 ELSE state.queue[s]],
    dropped |-> state.dropped
                + Cardinality({s \in entry.to : Len(state.queue[s]) >= QueueSize}) ]

\* The refused schedule: every entry that waited is lost for all its recipients.
Undelivered(lost, entry) == lost + Cardinality(entry.to)

\* _flush_pending of the given entries, after some deliveries were lost.
FlushAll_Last(entries, lost) ==
  LET end == FoldLeft(Delivered, [queue |-> queue, dropped |-> dropped + lost], Reverse(entries)) IN
  /\ queue' = end.queue /\ dropped' = end.dropped
  /\ ingress' = <<>> /\ scheduled' = FALSE
FlushAll(entries, lost) ==
  LET end == FoldLeft(Delivered, [queue |-> queue, dropped |-> dropped + lost], entries) IN
  /\ queue' = end.queue /\ dropped' = end.dropped
  /\ ingress' = <<>> /\ scheduled' = FALSE

\* The deliveries lost when a full ingress queue admits an event for recipients.
LostOnEntry_Rejected(event, to) ==
  IF Len(ingress) >= QueueSize /\ Rank[event] < IngressRanks[Victim(IngressRanks)]
  THEN Cardinality(to) ELSE 0
LostOnEntry(event, to) ==
  IF Len(ingress) < QueueSize THEN 0
  ELSE IF Rank[event] >= IngressRanks[Victim(IngressRanks)]
       THEN Cardinality(ingress[Victim(IngressRanks)].to)
       ELSE Cardinality(to)

--------------------------------------------------------------------------------
(* Actions *)

Unpublished(e) == \A i \in DOMAIN published : published[i] # e

\* publish.  On the loop's own thread, and while no loop is bound, it flushes; on
\* another thread it schedules a flush, which a closed loop refuses.
Publish(e) ==
  LET entries == Admitted(ingress, IngressRanks, [event |-> e, to |-> subscribed], Rank[e])
      lost == LostOnEntry(e, subscribed) IN
  /\ Unpublished(e)
  /\ published' = Append(published, e)
  /\ stamped' = IF private THEN stamped \cup {e} ELSE stamped
  /\ history' = IF e \in Transient THEN history ELSE Append(history, e)
  /\ due' = [s \in Subscribers |-> IF s \in subscribed THEN due[s] \cup {e} ELSE due[s]]
  /\ ownerLoop' = IF e \notin Threaded /\ ownerLoop = "unbound" THEN "open" ELSE ownerLoop
  /\ \/ /\ e \notin Threaded \/ ownerLoop = "unbound"
        /\ FlushAll(entries, lost)
     \/ /\ e \in Threaded /\ (ownerLoop = "open" \/ (ownerLoop = "closed" /\ scheduled))
        /\ ingress' = entries /\ dropped' = dropped + lost
        /\ scheduled' = TRUE /\ UNCHANGED queue
     \/ /\ e \in Threaded /\ ownerLoop = "closed" /\ ~scheduled
        /\ ingress' = <<>> /\ scheduled' = FALSE /\ UNCHANGED queue
        /\ dropped' = FoldLeft(Undelivered, dropped + lost, entries)
  /\ UNCHANGED <<private, subscribed, received>>

\* The scheduled _flush_pending runs on the loop.
Flush ==
  /\ scheduled /\ ownerLoop = "open"
  /\ FlushAll(ingress, 0)
  /\ UNCHANGED <<published, stamped, private, history, ownerLoop, subscribed, due, received>>

\* A subscription is a fresh queue under a fresh identifier, so it is made once.
Subscribe(s) ==
  /\ ownerLoop' = "open" /\ ownerLoop # "closed"
  /\ subscribed' = subscribed \cup {s}
  /\ UNCHANGED <<published, stamped, private, history, deliveryVars, due, received>>

Unsubscribe(s) ==
  /\ subscribed' = subscribed \ {s}
  /\ UNCHANGED <<published, stamped, private, history, ownerLoop, deliveryVars, due, received>>

\* A subscriber's task takes the oldest event of its queue.
Receive(s) ==
  /\ queue[s] # <<>>
  /\ received' = [received EXCEPT ![s] = Append(@, Head(queue[s]))]
  /\ queue' = [queue EXCEPT ![s] = Tail(@)]
  /\ UNCHANGED <<published, stamped, private, history, ownerLoop, subscribed, ingress,
                 scheduled, dropped, due>>

\* set_private: the history does not outlive the session it belongs to.
SetPrivate(enabled) ==
  /\ private' = enabled
  /\ history' = <<>>
  /\ UNCHANGED <<published, stamped, ownerLoop, subscribed, deliveryVars, due, received>>

\* The core's loop ends; worker threads may go on publishing.
CloseLoop ==
  /\ ownerLoop = "open"
  /\ ownerLoop' = "closed"
  /\ UNCHANGED <<published, stamped, private, history, subscribed, deliveryVars, due, received>>

--------------------------------------------------------------------------------
(* Properties *)

Sequence(e) == CHOOSE i \in DOMAIN published : published[i] = e

Ordered(seq) == \A i, j \in DOMAIN seq : i < j => Sequence(seq[i]) < Sequence(seq[j])

\* A subscriber sees the events it gets in the order of their sequence numbers,
\* whichever threads published them and whatever was evicted in between: no
\* publication on the loop overtakes one of a thread that still waits.
OrderedDelivery ==
  \A s \in Subscribers :
    /\ Ordered(received[s] \o queue[s])
    /\ \A i \in DOMAIN ingress : s \in ingress[i].to =>
         /\ \A e \in Range(received[s]) \cup Range(queue[s]) : Sequence(e) < Sequence(ingress[i].event)
         /\ \A j \in DOMAIN ingress :
              s \in ingress[j].to /\ i < j => Sequence(ingress[i].event) < Sequence(ingress[j].event)

Ingress(s) == {ingress[i].event : i \in {j \in DOMAIN ingress : s \in ingress[j].to}}
Waiting(s) == Range(queue[s]) \cup Ingress(s)

\* An event a subscriber was to get and neither got nor still may get.
Lost(s) == (due[s] \ Range(received[s])) \ Waiting(s)

\* dropped_deliveries, which the diagnostics report, counts every lost delivery
\* once: an eviction, a rejection and the publications after the loop has closed.
DropsCounted == dropped = Cardinality({d \in Subscribers \X Events : d[2] \in Lost(d[1])})

\* The events that wait where e waits or, when it is being published, will wait.
Companions(s, e) ==
  IF e \in Range(queue[s]) THEN Range(queue[s])
  ELSE IF Len(ingress) < QueueSize /\ e \notin Ingress(s) THEN Waiting(s)
  ELSE Ingress(s)

\* What a step loses of a subscriber's events is not more important than what
\* waits in the same place and survives.
LosesLeastImportant ==
  \A s \in Subscribers : \A e \in (Lost(s))' \ Lost(s) :
    ownerLoop = "open" => \A f \in Companions(s, e) \cap (Waiting(s))' : Rank[f] >= Rank[e]
================================================================================
