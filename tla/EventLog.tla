-------------------------------- MODULE EventLog --------------------------------
(***************************************************************************)
(* What the core itself does with its events: the persistence task         *)
(* (service.py, _persist_events), the activity timeline on disk            *)
(* (timeline.py) and the bounded queue of desktop notices (notices.py),    *)
(* which a task of its own delivers.                                       *)
(***************************************************************************)
EXTENDS EventBus

CONSTANTS
  Persister,   \* the subscription of the persistence task
  Activity,    \* the events the timeline may record (ACTIVITY_TYPES)
  Notable,     \* the events offered to the notice queue
  NoticeLimit, \* the bound of the notice queue
  NoEvent

ASSUME LogAssumption ==
  /\ Persister \in Subscribers
  /\ Activity \subseteq Events /\ Notable \subseteq Events
  /\ NoticeLimit \in Nat \ {0}
  /\ NoEvent \notin Events

VARIABLES
  inHand,         \* the event whose record the persistence task awaits
  recorded,       \* the events in the activity history on disk
  clearedThrough, \* _cleared_through
  notices,        \* the notice queue
  notifying,      \* the notice whose notify-send process is awaited
  refused         \* the notices the queue dropped

logVars == <<inHand, recorded, clearedThrough, notices, notifying, refused>>
noticeVars == <<notices, notifying, refused>>
eventVars == <<busVars, logVars>>

LogInit ==
  /\ inHand = NoEvent /\ recorded = {} /\ clearedThrough = 0
  /\ notices = <<>> /\ notifying = NoEvent /\ refused = {}

--------------------------------------------------------------------------------
(* The timeline *)

ShouldRecord(e) == e \notin stamped /\ e \in Activity /\ Sequence(e) > clearedThrough

\* record, in a thread and under the lock that clear takes: it decides again.
RecordEvent_Decided ==
  /\ inHand # NoEvent
  /\ recorded' = recorded \cup {inHand}
  /\ inHand' = NoEvent
  /\ UNCHANGED <<clearedThrough, noticeVars, busVars>>
RecordEvent ==
  /\ inHand # NoEvent
  /\ recorded' = IF ShouldRecord(inHand) THEN recorded \cup {inHand} ELSE recorded
  /\ inHand' = NoEvent
  /\ UNCHANGED <<clearedThrough, noticeVars, busVars>>

\* clear is refused in a private session.
ClearTimeline ==
  /\ ~private
  /\ clearedThrough' = Len(published)
  /\ recorded' = {}
  /\ UNCHANGED <<inHand, noticeVars, busVars>>

--------------------------------------------------------------------------------
(* The notices *)

NoticeRanks == [i \in DOMAIN notices |-> Rank[notices[i]]]

\* NoticeQueue.offer.
Offer(e) ==
  \/ /\ Len(notices) < NoticeLimit
     /\ notices' = Append(notices, e) /\ UNCHANGED refused
  \/ /\ Len(notices) >= NoticeLimit /\ Rank[e] < NoticeRanks[Victim(NoticeRanks)]
     /\ refused' = refused \cup {e} /\ UNCHANGED notices
  \/ /\ Len(notices) >= NoticeLimit /\ Rank[e] >= NoticeRanks[Victim(NoticeRanks)]
     /\ refused' = refused \cup {notices[Victim(NoticeRanks)]}
     /\ notices' = Append(RemoveAt(notices, Victim(NoticeRanks)), e)

\* NoticeQueue._get: the first of the most important notices.
MostUrgent ==
  CHOOSE i \in DOMAIN notices :
    \A j \in DOMAIN notices : NoticeRanks[j] < NoticeRanks[i] \/ (NoticeRanks[j] = NoticeRanks[i] /\ i <= j)

BeginNotice ==
  /\ notifying = NoEvent /\ notices # <<>>
  /\ notifying' = notices[MostUrgent]
  /\ notices' = RemoveAt(notices, MostUrgent)
  /\ UNCHANGED <<inHand, recorded, clearedThrough, refused, busVars>>

\* The notification is sent, suppressed or given up after its timeouts.
EndNotice ==
  /\ notifying # NoEvent
  /\ notifying' = NoEvent
  /\ UNCHANGED <<inHand, recorded, clearedThrough, notices, refused, busVars>>

--------------------------------------------------------------------------------
(* The persistence task *)

\* It takes an event, offers it to the notices and hands it to the timeline.  What
\* it publishes itself meanwhile is a publication on the loop like any other.
Persist ==
  LET e == Head(queue[Persister]) IN
  /\ inHand = NoEvent
  /\ Receive(Persister)
  /\ IF e \in Notable THEN Offer(e) ELSE UNCHANGED <<notices, refused>>
  /\ inHand' = IF ShouldRecord(e) THEN e ELSE NoEvent
  /\ UNCHANGED <<recorded, clearedThrough, notifying>>

\* One privacy change, made on the loop.
ChangePrivacy(enabled) == SetPrivate(enabled) /\ UNCHANGED logVars

LogStep == Persist \/ RecordEvent \/ ClearTimeline \/ BeginNotice \/ EndNotice

--------------------------------------------------------------------------------
(* Properties *)

\* What was published in a private session never reaches the disk, although it
\* may be persisted after the session, and what was published before the history
\* was cleared does not come back, although its record may be under way.  The
\* history a client can ask for holds no event of another session.
HistoriesHonest ==
  /\ \A e \in recorded : e \notin stamped /\ Sequence(e) > clearedThrough
  /\ \A i \in DOMAIN history : (history[i] \in stamped) = private

\* A notice is refused only for one at least as important.
RefusesLesserNotice ==
  \A e \in refused' \ refused : \A i \in DOMAIN notices' : Rank[notices'[i]] >= Rank[e]

\* An alert is never lost to a flood of lesser events while one of those survives:
\* not between threads and the loop, not in a subscriber's queue and not among the
\* desktop notices.
UrgentKept == [][LosesLeastImportant /\ RefusesLesserNotice]_eventVars
================================================================================
