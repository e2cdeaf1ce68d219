-------------------------------- MODULE EvClient --------------------------------
(***************************************************************************)
(* The desktop client (ui/src/EvClient.cpp): it connects to the core,      *)
(* starts it where it is not running, watches its health, reconnects, and  *)
(* shows what the core answers and publishes.  Every slot and callback of  *)
(* Qt's event loop is one action.                                          *)
(*                                                                         *)
(* The core answers requests in any order.  It publishes events, numbered  *)
(* from 1, and delivers them in order to a client that keeps up; it may    *)
(* end and be started again.                                               *)
(* Left out: requests and events whose contents are only put on display,   *)
(* and waveform samples, which are not listed.                             *)
(***************************************************************************)
EXTENDS Naturals, FiniteSets

CONSTANT EventLimit   \* how many events the list keeps

VARIABLES
  socket,      \* m_socket: off, opening or on
  connecting,  \* m_connecting
  enabled,     \* m_reconnectEnabled
  reconnect,   \* m_reconnectTimer runs
  polling,     \* m_healthTimer runs
  deadline,    \* m_healthTimeout runs
  activation,  \* m_activationProcess runs
  attempts,    \* m_recoveryBudget: the activations of the last ten minutes
  blocked,     \* m_recoveryBudget waits for the user
  counter,     \* m_requestCounter
  pending,     \* m_pendingRequests
  health,      \* m_healthRequest, or 0
  setting,     \* m_settingsRequest, or 0
  talk,        \* m_conversationRequest, or 0
  notes,       \* m_projectMemoryRequest, or 0
  talkShown,   \* the request whose answer m_timeline shows, or 0
  notesShown,  \* the request whose answer m_projectMemories shows, or 0
  events,      \* the sequence numbers in m_events
  now,         \* the core: the last event it has published
  privacy,     \* the core: its events that are carlos.privacy_changed
  answers,     \* the core: the answers that are under way
  subscribed,  \* the core: this connection is subscribed
  live,        \* the last event delivered on this connection
  start,       \* ghost: what the history that was received begins after
  removed,     \* ghost: the events that were listed once on this connection
  talkSince,   \* ghost: counter when the conversation was last discarded
  notesSince   \* ghost: counter when the notes were last discarded

linkVars == <<socket, connecting, enabled, reconnect>>
watchVars == <<polling, deadline, health>>
activationVars == <<activation, attempts, blocked>>
shownVars == <<talk, notes, talkShown, notesShown, talkSince, notesSince>>
listVars == <<events, live, start, removed>>
vars == <<linkVars, watchVars, activationVars, counter, pending, setting, shownVars, listVars,
          now, privacy, answers, subscribed>>

Types == {"health", "setting", "conversation", "notes", "history"}

Requests == [id : Nat, type : Types]
Reports == [request : Requests, from : Nat, upto : Nat]

FlagsTyped ==
  /\ socket \in {"off", "opening", "on"}
  /\ connecting \in BOOLEAN /\ enabled \in BOOLEAN /\ reconnect \in BOOLEAN
  /\ polling \in BOOLEAN /\ deadline \in BOOLEAN /\ activation \in BOOLEAN
  /\ blocked \in BOOLEAN /\ subscribed \in BOOLEAN
AskedTyped ==
  /\ counter \in Nat /\ health \in Nat /\ setting \in Nat /\ talk \in Nat /\ notes \in Nat
  /\ talkShown \in Nat /\ talkSince \in Nat /\ notesShown \in Nat /\ notesSince \in Nat
  /\ attempts \in 0..3 /\ pending \subseteq Requests
CoreTyped ==
  /\ now \in Nat /\ live \in Nat
  /\ answers \subseteq Reports
  /\ start \subseteq Nat /\ events \cup removed \cup privacy \subseteq Nat

TypeOK == FlagsTyped /\ AskedTyped /\ CoreTyped

\* The program has called connectToCore.
Init ==
  /\ socket = "opening" /\ connecting = TRUE /\ enabled = TRUE /\ reconnect = FALSE
  /\ polling = FALSE /\ deadline = FALSE /\ health = 0
  /\ activation = FALSE /\ attempts = 0 /\ blocked = FALSE
  /\ counter = 0 /\ pending = {} /\ setting = 0 /\ talk = 0 /\ notes = 0
  /\ talkShown = 0 /\ notesShown = 0 /\ talkSince = 0 /\ notesSince = 0
  /\ events = {} /\ live = 0 /\ start = {} /\ removed = {}
  /\ now = 0 /\ privacy = {} /\ answers = {} /\ subscribed = FALSE

--------------------------------------------------------------------------------
(* The connection *)

\* The slot of the reconnect timer, and of the start of the program.
ConnectToCore ==
  IF socket = "on" \/ connecting
    THEN UNCHANGED linkVars
    ELSE socket' = "opening" /\ connecting' = TRUE /\ enabled' = TRUE /\ UNCHANGED reconnect

ReconnectTick ==
  /\ reconnect /\ ConnectToCore
  /\ UNCHANGED <<watchVars, activationVars, counter, pending, setting, shownVars, listVars,
                 now, privacy, answers, subscribed>>

RetryCore ==
  /\ attempts' = 0 /\ blocked' = FALSE /\ ConnectToCore
  /\ UNCHANGED <<watchVars, activation, counter, pending, setting, shownVars, listVars,
                 now, privacy, answers, subscribed>>

\* Of what is asked for now only these two answers are more than put on display.
Connected ==
  /\ socket = "opening" /\ socket' = "on" /\ connecting' = FALSE /\ reconnect' = FALSE
  /\ health' = 0 /\ polling' = TRUE
  /\ counter' = counter + 2 /\ talk' = counter + 1
  /\ pending' = pending \cup {[id |-> counter + 1, type |-> "conversation"],
                              [id |-> counter + 2, type |-> "history"]}
  /\ events' = {} /\ removed' = {}
  /\ UNCHANGED <<enabled, deadline, activationVars, setting, notes, talkShown, notesShown,
                 talkSince, notesSince, live, start, now, privacy, answers, subscribed>>

\* Whether the core is started, if a budget of three in ten minutes allows it.
ActivateCore ==
  \/ UNCHANGED activationVars
  \/ /\ enabled /\ ~activation /\ ~blocked
     /\ \E recent \in 0..attempts :
          IF recent >= 3
            THEN attempts' = recent /\ blocked' = TRUE /\ UNCHANGED activation
            ELSE attempts' = recent + 1 /\ activation' = TRUE /\ UNCHANGED blocked

ConnectFails ==
  /\ socket = "opening" /\ socket' = "off" /\ connecting' = FALSE
  /\ reconnect' = (reconnect \/ enabled) /\ ActivateCore
  /\ UNCHANGED <<enabled, watchVars, counter, pending, setting, shownVars, listVars,
                 now, privacy, answers, subscribed>>

\* The process has ended, failed, or was killed for its deadline.
ActivationEnds ==
  /\ activation /\ activation' = FALSE
  /\ reconnect' = (reconnect \/ (enabled /\ socket # "on"))
  /\ UNCHANGED <<socket, connecting, enabled, watchVars, attempts, blocked, counter, pending,
                 setting, shownVars, listVars, now, privacy, answers, subscribed>>

\* What the connection took with it.
Forget ==
  /\ polling' = FALSE /\ deadline' = FALSE /\ health' = 0 /\ pending' = {} /\ setting' = 0
  /\ talk' = 0 /\ notes' = 0 /\ notesShown' = 0
  /\ answers' = {} /\ subscribed' = FALSE /\ live' = 0 /\ start' = {}
  /\ UNCHANGED <<counter, talkShown, talkSince, notesSince, events, removed>>

Disconnected ==
  /\ socket = "on" /\ socket' = "off" /\ connecting' = FALSE
  /\ reconnect' = (reconnect \/ enabled) /\ Forget
  /\ UNCHANGED <<enabled, activationVars, now, privacy>>

\* Whether Qt reports the end of an attempt that is given up is left open.
DisconnectFromCore ==
  /\ enabled' = FALSE /\ reconnect' = FALSE /\ socket' = "off"
  /\ connecting' = FALSE \/ (socket # "on" /\ connecting' = connecting)
  /\ Forget
  /\ UNCHANGED <<activationVars, now, privacy>>

\* The request itself may end the core, see Disconnected.
StopCore ==
  /\ enabled' = FALSE /\ reconnect' = FALSE
  /\ polling' = FALSE /\ deadline' = FALSE /\ health' = 0
  /\ UNCHANGED <<socket, connecting, activationVars, counter, pending, setting, shownVars, listVars,
                 now, privacy, answers, subscribed>>

--------------------------------------------------------------------------------
(* The health of the core *)

Ask(type) ==
  /\ counter' = counter + 1
  /\ pending' = pending \cup {[id |-> counter + 1, type |-> type]}

Poll ==
  /\ polling /\ socket = "on" /\ health = 0
  /\ Ask("health") /\ health' = counter + 1 /\ deadline' = TRUE
  /\ UNCHANGED <<linkVars, polling, activationVars, setting, shownVars, listVars,
                 now, privacy, answers, subscribed>>

\* Commands that are pending are not sent again.
HealthTimeout ==
  /\ deadline
  /\ IF enabled /\ socket = "on"
       THEN Disconnected
       ELSE /\ deadline' = FALSE
            /\ UNCHANGED <<linkVars, polling, health, activationVars, counter, pending, setting,
                           shownVars, listVars, now, privacy, answers, subscribed>>

--------------------------------------------------------------------------------
(* The requests of the user *)

\* callTool, for the two tools that change settings.
ChangeSetting ==
  /\ socket = "on" /\ setting = 0
  /\ Ask("setting") /\ setting' = counter + 1
  /\ UNCHANGED <<linkVars, watchVars, activationVars, shownVars, listVars,
                 now, privacy, answers, subscribed>>

\* Another project, none, or the same one after an approval that concerned it.
RefreshProjectMemories ==
  /\ notesShown' = 0 /\ notesSince' = counter
  /\ \/ socket = "on" /\ Ask("notes") /\ notes' = counter + 1
     \/ notes' = 0 /\ UNCHANGED <<counter, pending>>
  /\ UNCHANGED <<linkVars, watchVars, activationVars, setting, talk, talkShown, talkSince, listVars,
                 now, privacy, answers, subscribed>>

--------------------------------------------------------------------------------
(* The core *)

\* subscribe is answered before what follows it is read.
Subscribe ==
  /\ socket = "on" /\ ~subscribed /\ subscribed' = TRUE /\ live' = now
  /\ UNCHANGED <<linkVars, watchVars, activationVars, counter, pending, setting, shownVars,
                 events, start, removed, now, privacy, answers>>

Publish ==
  /\ now' = now + 1 /\ (privacy' = privacy \/ privacy' = privacy \cup {now + 1})
  /\ UNCHANGED <<linkVars, watchVars, activationVars, counter, pending, setting, shownVars, listVars,
                 answers, subscribed>>

\* A history covers the events up to now, from some event on.
Respond(r) ==
  /\ r \in pending /\ \A a \in answers : a.request # r
  /\ r.type = "history" => subscribed
  /\ \E from \in 0..now : answers' = answers \cup {[request |-> r, from |-> from, upto |-> now]}
  /\ UNCHANGED <<linkVars, watchVars, activationVars, counter, pending, setting, shownVars, listVars,
                 now, privacy, subscribed>>

CoreRestarts ==
  /\ socket # "on" /\ now' = 0 /\ privacy' = {}
  /\ UNCHANGED <<linkVars, watchVars, activationVars, counter, pending, setting, shownVars, listVars,
                 answers, subscribed>>

--------------------------------------------------------------------------------
(* processEvent *)

\* The newest ones.
Kept(listed) == {s \in listed : Cardinality({t \in listed : t > s}) < EventLimit}

\* Events are listed, by sequence number, after others were discarded.
List(listed, discarded) ==
  /\ events' = Kept(listed)
  /\ removed' = removed \cup discarded \cup (listed \ Kept(listed))

DiscardTalk == talkShown' = 0 /\ talkSince' = counter

\* carlos.privacy_changed: what belongs to the former mode is not shown any more.
PrivacyChanged ==
  /\ talk' = 0 /\ DiscardTalk
  /\ notes' = 0 /\ notesShown' = 0 /\ notesSince' = counter

LiveEvent ==
  /\ subscribed /\ live < now /\ live' = live + 1
  /\ \/ /\ live' \in privacy /\ PrivacyChanged /\ List({live'}, events)
        /\ UNCHANGED <<counter, pending>>
     \/ /\ live' \notin privacy /\ List(events \cup {live'}, {})
        /\ UNCHANGED <<counter, pending, shownVars>>
     \/ \* memory.project_changed
        /\ live' \notin privacy /\ List(events \cup {live'}, {})
        /\ DiscardTalk /\ Ask("conversation") /\ talk' = counter + 1
        /\ UNCHANGED <<notes, notesShown, notesSince>>
  /\ UNCHANGED <<linkVars, watchVars, activationVars, setting, start, now, privacy, answers, subscribed>>

--------------------------------------------------------------------------------
(* processLine and processResponse *)

Taken(a) == answers' = answers \ {a} /\ pending' = pending \ {a.request}

\* One that does not say that the core is healthy leaves the deadline running.
HealthAnswer(a) ==
  /\ a \in answers /\ a.request.type = "health" /\ Taken(a)
  /\ \/ health = a.request.id /\ health' = 0 /\ deadline' = FALSE
     \/ UNCHANGED <<health, deadline>>
  /\ UNCHANGED <<linkVars, polling, activationVars, counter, setting, shownVars, listVars,
                 now, privacy, subscribed>>

SettingAnswer(a) ==
  /\ a \in answers /\ a.request.type = "setting" /\ Taken(a)
  /\ setting' = IF setting = a.request.id THEN 0 ELSE setting
  /\ UNCHANGED <<linkVars, watchVars, activationVars, counter, shownVars, listVars,
                 now, privacy, subscribed>>

\* Only the answer to the last request; an error leaves it open.
TalkAnswer(a) ==
  /\ a \in answers /\ a.request.type = "conversation" /\ Taken(a)
  /\ \/ talk = a.request.id /\ talk' = 0 /\ talkShown' = a.request.id
     \/ UNCHANGED <<talk, talkShown>>
  /\ UNCHANGED <<linkVars, watchVars, activationVars, counter, setting, notes, notesShown,
                 talkSince, notesSince, listVars, now, privacy, subscribed>>

NotesAnswer(a) ==
  /\ a \in answers /\ a.request.type = "notes" /\ Taken(a)
  /\ IF notes = a.request.id
       THEN notes' = 0 /\ notesShown' \in {0, a.request.id}
       ELSE UNCHANGED <<notes, notesShown>>
  /\ UNCHANGED <<linkVars, watchVars, activationVars, counter, setting, talk, talkShown,
                 talkSince, notesSince, listVars, now, privacy, subscribed>>

\* The events of the past are listed and not acted on, but for a change of the privacy
\* mode, which discards what was shown and listed before it was replayed.
HistoryAnswer(a) ==
  /\ a \in answers /\ a.request.type = "history" /\ Taken(a) /\ start' = {a.from}
  /\ LET past == (a.from + 1)..a.upto
         changes == past \cap privacy
     IN \/ /\ changes = {} /\ List(events \cup past, {}) /\ UNCHANGED shownVars
        \/ \E last \in changes :
             /\ \A c \in changes : c <= last
             /\ PrivacyChanged
             /\ List({s \in past : s >= last}, events \cup {s \in past : s < last})
  /\ UNCHANGED <<linkVars, watchVars, activationVars, counter, setting, live, now, privacy, subscribed>>

HistoryFails(a) ==
  /\ a \in answers /\ a.request.type = "history" /\ Taken(a)
  /\ UNCHANGED <<linkVars, watchVars, activationVars, counter, setting, shownVars, listVars,
                 now, privacy, subscribed>>

Next ==
  \/ ReconnectTick \/ RetryCore \/ Connected \/ ConnectFails \/ ActivationEnds
  \/ Disconnected \/ DisconnectFromCore \/ StopCore
  \/ Poll \/ HealthTimeout \/ ChangeSetting \/ RefreshProjectMemories
  \/ Subscribe \/ Publish \/ CoreRestarts \/ LiveEvent
  \/ \E r \in pending : Respond(r)
  \/ \E a \in answers :
       \/ HealthAnswer(a) \/ SettingAnswer(a) \/ TalkAnswer(a) \/ NotesAnswer(a)
       \/ HistoryAnswer(a) \/ HistoryFails(a)

Spec == Init /\ [][Next]_vars

--------------------------------------------------------------------------------
(* Properties *)

\* Supervised (EvClient::EvClient): until the user stops the core the client is never
\* at a dead end: it connects, is about to, or polls the core with a deadline running
\* whenever an answer is due.
Supervised ==
  enabled =>
    \/ socket = "on" /\ polling /\ (health # 0 => deadline)
    \/ socket = "opening" /\ connecting
    \/ socket = "off" /\ ~connecting /\ reconnect

\* SettingSettles (setSettingsRequest): a change of a setting, which keeps others out,
\* waits for an answer that can still come.
SettingSettles == setting # 0 => socket = "on" /\ [id |-> setting, type |-> "setting"] \in pending

\* NothingSlips (connected, processEvent): no event slips through between the history
\* and the events delivered after it: each has been listed.
NothingSlips ==
  \A from \in start : \A s \in (from + 1)..live : s \in events \cup removed

\* ShownSince (processResponse): the conversation and the notes that are shown were
\* asked for after the last change of the privacy mode, and of the project, that the
\* client knows of, however late an earlier answer comes.
ShownSince ==
  /\ talkShown # 0 => talkShown > talkSince
  /\ notesShown # 0 => notesShown > notesSince
================================================================================
