---------------------------- MODULE EvClientProofs ----------------------------
(***************************************************************************)
(* What holds of the desktop client whatever the core does, for every      *)
(* length of its list of events: theorems of EvClient!Spec.                *)
(***************************************************************************)
EXTENDS EvClient, TLAPS

\* Without a connection nothing is awaited of the core.
Offline ==
  socket # "on" =>
    /\ pending = {} /\ answers = {} /\ start = {}
    /\ {setting, talk, notes, live} = {0} /\ ~subscribed

\* The conversation and the notes that are awaited were asked for since they were
\* discarded, and no request is numbered above the counter.
Awaited ==
  /\ \A r \in pending : r.id <= counter
  /\ talkSince <= counter /\ notesSince <= counter
  /\ talk # 0 => talk > talkSince
  /\ notes # 0 => notes > notesSince

\* What was delivered after a history was collected is listed, and nothing is delivered
\* before the client is subscribed.
Overlap ==
  /\ live <= now
  /\ ~subscribed => start = {} /\ \A a \in answers : a.request.type # "history"
  /\ \A a \in answers :
       a.request.type = "history" => \A s \in (a.upto + 1)..live : s \in events \cup removed

IInv ==
  /\ TypeOK /\ Offline /\ Supervised /\ SettingSettles
  /\ Awaited /\ ShownSince /\ Overlap /\ NothingSlips

USE DEF linkVars, watchVars, activationVars, shownVars, listVars

LEMMA InitIInv == Init => IInv
<1> SUFFICES ASSUME Init PROVE IInv
  OBVIOUS
<1>1. FlagsTyped
  BY DEF Init, FlagsTyped
<1>2. AskedTyped /\ CoreTyped
  BY DEF Init, AskedTyped, CoreTyped
<1>3. Offline /\ SettingSettles /\ NothingSlips
  BY DEF Init, Offline, SettingSettles, NothingSlips
<1>4. Awaited /\ ShownSince
  BY DEF Init, Awaited, ShownSince
<1>5. Overlap
  BY DEF Init, Overlap
<1>6. Supervised
  BY DEF Init, Supervised
<1> QED BY <1>1, <1>2, <1>3, <1>4, <1>5, <1>6 DEF IInv, TypeOK

LEMMA RequestsTyped ==
  /\ \A i \in Nat, t \in Types : [id |-> i, type |-> t] \in Requests
  /\ \A r \in Requests : r.id \in Nat /\ r.type \in Types
  /\ \A r \in Requests, m, n \in Nat : [request |-> r, from |-> m, upto |-> n] \in Reports
  /\ \A a \in Reports : a.request \in Requests /\ a.from \in Nat /\ a.upto \in Nat
  BY DEF Requests, Reports

\* Whatever is listed or discarded is known, and nothing else.
LEMMA Listed ==
  ASSUME NEW listed, NEW discarded, List(listed, discarded)
  PROVE  events' \cup removed' = removed \cup discarded \cup listed
  BY DEF List, Kept

--------------------------------------------------------------------------------
(* The types *)

LEMMA AskTyped ==
  ASSUME counter \in Nat, pending \subseteq Requests, NEW type \in Types, Ask(type)
  PROVE  counter' \in Nat /\ pending' \subseteq Requests
<1>1. [id |-> counter + 1, type |-> type] \in Requests
  BY RequestsTyped
<1> QED BY <1>1 DEF Ask

LEMMA FlagsStep == TypeOK /\ [Next]_vars => FlagsTyped'
<1> SUFFICES ASSUME FlagsTyped, [Next]_vars PROVE FlagsTyped'
  BY DEF TypeOK
<1> USE DEF FlagsTyped
<1>1. CASE UNCHANGED <<linkVars, polling, deadline, activation, blocked, subscribed>>
  BY <1>1
<1>2. CASE ReconnectTick \/ RetryCore
  BY <1>2 DEF ReconnectTick, RetryCore, ConnectToCore
<1>3. CASE Connected
  BY <1>3 DEF Connected
<1>4. CASE ConnectFails
  BY <1>4 DEF ConnectFails, ActivateCore
<1>5. CASE ActivationEnds \/ StopCore
  BY <1>5 DEF ActivationEnds, StopCore
<1>6. CASE Disconnected \/ DisconnectFromCore
  BY <1>6 DEF Disconnected, DisconnectFromCore, Forget
<1>7. CASE Poll \/ HealthTimeout
  BY <1>6, <1>7 DEF Poll, HealthTimeout
<1>8. CASE Subscribe
  BY <1>8 DEF Subscribe
<1>9. ASSUME NEW a \in answers, HealthAnswer(a) PROVE FlagsTyped'
  BY <1>9 DEF HealthAnswer
<1> QED
  BY <1>1, <1>2, <1>3, <1>4, <1>5, <1>6, <1>7, <1>8, <1>9
     DEF vars, Next, ChangeSetting, RefreshProjectMemories, Publish, CoreRestarts,
         LiveEvent, Respond, SettingAnswer, TalkAnswer, NotesAnswer, HistoryAnswer,
         HistoryFails

LEMMA AskedStep == TypeOK /\ [Next]_vars => AskedTyped'
<1> SUFFICES ASSUME TypeOK, [Next]_vars PROVE AskedTyped'
  OBVIOUS
<1> USE RequestsTyped DEF TypeOK, AskedTyped, CoreTyped, Types
<1>1. CASE UNCHANGED <<counter, health, attempts, pending, setting, shownVars>>
  BY <1>1 DEF vars
<1>2. CASE RetryCore \/ StopCore
  <2>1. attempts' \in {attempts, 0} /\ health' \in {health, 0}
    BY <1>2 DEF RetryCore, StopCore
  <2>2. UNCHANGED <<counter, pending, setting, shownVars>>
    BY <1>2 DEF RetryCore, StopCore
  <2> QED BY <2>1, <2>2
<1>9. CASE Connected
  <2>1. /\ counter' = counter + 2 /\ talk' = counter + 1 /\ health' = 0
        /\ pending' = pending \cup {[id |-> counter + 1, type |-> "conversation"],
                                   [id |-> counter + 2, type |-> "history"]}
        /\ UNCHANGED <<setting, notes, talkShown, notesShown, talkSince, notesSince, attempts>>
    BY <1>9 DEF Connected
  <2>2. counter + 1 \in Nat /\ counter + 2 \in Nat
    OBVIOUS
  <2>3. /\ [id |-> counter + 1, type |-> "conversation"] \in Requests
        /\ [id |-> counter + 2, type |-> "history"] \in Requests
    BY <2>2
  <2>4. pending' \subseteq Requests
    BY <2>1, <2>3
  <2> QED BY <2>1, <2>2, <2>4
<1>3. CASE Disconnected \/ DisconnectFromCore
  BY <1>3 DEF Disconnected, DisconnectFromCore, Forget
<1>4. CASE Poll \/ ChangeSetting \/ RefreshProjectMemories
  <2>1. PICK type \in Types : Ask(type) \/ UNCHANGED <<counter, pending>>
    BY <1>4 DEF Poll, ChangeSetting, RefreshProjectMemories
  <2>2. counter' \in Nat /\ pending' \subseteq Requests
    BY <2>1, AskTyped
  <2>3. /\ health' \in {health, counter + 1} /\ setting' \in {setting, counter + 1}
        /\ notes' \in {notes, 0, counter + 1}
        /\ notesShown' \in {notesShown, 0} /\ notesSince' \in {notesSince, counter}
        /\ UNCHANGED <<attempts, talk, talkShown, talkSince>>
    BY <1>4 DEF Poll, ChangeSetting, RefreshProjectMemories
  <2> QED BY <2>2, <2>3
<1>5. CASE HealthTimeout
  BY <1>1, <1>3, <1>5 DEF HealthTimeout
<1>6. CASE LiveEvent
  <2>1. PICK type \in Types : Ask(type) \/ UNCHANGED <<counter, pending>>
    BY <1>6 DEF LiveEvent
  <2>2. counter' \in Nat /\ pending' \subseteq Requests
    BY <2>1, AskTyped
  <2>3. /\ talk' \in {talk, 0, counter + 1} /\ notes' \in {notes, 0}
        /\ talkShown' \in {talkShown, 0} /\ notesShown' \in {notesShown, 0}
        /\ talkSince' \in {talkSince, counter} /\ notesSince' \in {notesSince, counter}
    BY <1>6 DEF LiveEvent, PrivacyChanged, DiscardTalk
  <2>4. UNCHANGED <<health, setting, attempts>>
    BY <1>6 DEF LiveEvent
  <2> QED BY <2>2, <2>3, <2>4
<1>8. CASE ConnectFails
  <2>1. attempts' \in 0..3
    BY <1>8 DEF ConnectFails, ActivateCore
  <2> QED BY <1>8, <2>1 DEF ConnectFails
<1>7. ASSUME NEW a \in answers,
             HealthAnswer(a) \/ SettingAnswer(a) \/ TalkAnswer(a) \/ NotesAnswer(a)
             \/ HistoryAnswer(a) \/ HistoryFails(a)
      PROVE  AskedTyped'
  <2>1. pending' \subseteq pending /\ a.request.id \in Nat /\ counter' = counter
    BY <1>7 DEF HealthAnswer, SettingAnswer, TalkAnswer, NotesAnswer, HistoryAnswer, HistoryFails, Taken
  <2>2. CASE HealthAnswer(a) \/ SettingAnswer(a) \/ HistoryFails(a)
    BY <2>1, <2>2 DEF HealthAnswer, SettingAnswer, HistoryFails
  <2>3. CASE TalkAnswer(a) \/ NotesAnswer(a)
    BY <2>1, <2>3 DEF TalkAnswer, NotesAnswer
  <2>4. CASE HistoryAnswer(a)
    <3>1. /\ talk' \in {talk, 0} /\ notes' \in {notes, 0}
          /\ talkShown' \in {talkShown, 0} /\ notesShown' \in {notesShown, 0}
          /\ talkSince' \in {talkSince, counter} /\ notesSince' \in {notesSince, counter}
      BY <2>4 DEF HistoryAnswer, PrivacyChanged, DiscardTalk
    <3>2. UNCHANGED <<health, setting, attempts>>
      BY <2>4 DEF HistoryAnswer
    <3> QED BY <2>1, <3>1, <3>2
  <2> QED BY <1>7, <2>2, <2>3, <2>4
<1> QED
  BY <1>1, <1>2, <1>3, <1>4, <1>5, <1>6, <1>7, <1>8, <1>9
     DEF vars, Next, ReconnectTick, ActivationEnds, Subscribe, Publish, CoreRestarts, Respond

LEMMA CoreStep == TypeOK /\ [Next]_vars => CoreTyped'
<1> SUFFICES ASSUME TypeOK, [Next]_vars PROVE CoreTyped'
  OBVIOUS
<1> USE DEF TypeOK, CoreTyped, AskedTyped
<1>1. CASE UNCHANGED <<listVars, now, privacy, answers, subscribed>>
  BY <1>1 DEF vars
<1>2. CASE Connected \/ Disconnected \/ DisconnectFromCore
  <2>1. /\ now' = now /\ privacy' = privacy /\ live' \in {live, 0} /\ start' \in {start, {}}
        /\ answers' \in {answers, {}} /\ events' \in {events, {}} /\ removed' \in {removed, {}}
    BY <1>2 DEF Connected, Disconnected, DisconnectFromCore, Forget
  <2> QED BY <2>1
<1>3. CASE HealthTimeout
  BY <1>1, <1>2, <1>3 DEF HealthTimeout
<1>4. CASE Subscribe \/ Publish \/ CoreRestarts
  <2>1. /\ now' \in {now, now + 1, 0} /\ privacy' \in {privacy, privacy \cup {now + 1}, {}}
        /\ live' \in {live, now} /\ UNCHANGED <<start, answers, events, removed>>
    BY <1>4 DEF Subscribe, Publish, CoreRestarts
  <2> QED BY <2>1
<1>5. CASE LiveEvent
  <2>1. events' \cup removed' \subseteq Nat
    BY <1>5, Listed DEF LiveEvent
  <2> QED BY <1>5, <2>1 DEF LiveEvent
<1>6. ASSUME NEW r \in pending, Respond(r) PROVE CoreTyped'
  BY <1>6, RequestsTyped DEF Respond
<1>7. ASSUME NEW a \in answers, HistoryAnswer(a) PROVE CoreTyped'
  <2>1. a.from \in Nat /\ a.upto \in Nat /\ answers' \subseteq answers
    BY <1>7, RequestsTyped DEF HistoryAnswer, Taken
  <2>2. events' \cup removed' \subseteq Nat
    <3>1. PICK listed \in SUBSET Nat, discarded \in SUBSET Nat : List(listed, discarded)
      <4> DEFINE past == (a.from + 1)..a.upto
      <4>1. past \in SUBSET Nat /\ events \in SUBSET Nat
        BY <2>1
      <4>2. \/ List(events \cup past, {})
            \/ \E last \in past \cap privacy :
                 List({s \in past : s >= last}, events \cup {s \in past : s < last})
        BY <1>7 DEF HistoryAnswer
      <4> QED BY <4>1, <4>2
    <3>2. removed \subseteq Nat
      OBVIOUS
    <3>3. events' \cup removed' = removed \cup discarded \cup listed
      BY <3>1, Listed
    <3> QED BY <3>1, <3>2, <3>3
  <2> QED BY <1>7, <2>1, <2>2 DEF HistoryAnswer
<1>8. ASSUME NEW a \in answers,
             HealthAnswer(a) \/ SettingAnswer(a) \/ TalkAnswer(a) \/ NotesAnswer(a) \/ HistoryFails(a)
      PROVE  CoreTyped'
  <2>1. answers' \subseteq answers /\ UNCHANGED <<listVars, now, privacy, subscribed>>
    BY <1>8 DEF HealthAnswer, SettingAnswer, TalkAnswer, NotesAnswer, HistoryFails, Taken
  <2> QED BY <2>1
<1> QED
  BY <1>1, <1>2, <1>3, <1>4, <1>5, <1>6, <1>7, <1>8
     DEF vars, Next, ReconnectTick, RetryCore, ConnectFails, ActivationEnds, StopCore, Poll, ChangeSetting,
         RefreshProjectMemories

LEMMA TypeStep == TypeOK /\ [Next]_vars => TypeOK'
  BY FlagsStep, AskedStep, CoreStep DEF TypeOK

--------------------------------------------------------------------------------
(* The connection *)

\* What a step does that leaves the client without a connection.
LEMMA OfflineStep == IInv /\ [Next]_vars => Offline'
<1> SUFFICES ASSUME IInv, [Next]_vars, socket' # "on" PROVE Offline'
  BY DEF Offline
<1>0. Offline
  BY DEF IInv
<1>1. CASE socket' = socket /\ UNCHANGED <<pending, answers, start, setting, talk, live, subscribed>>
           /\ notes' \in {notes, 0}
  BY <1>0, <1>1 DEF Offline
<1>2. CASE ReconnectTick \/ RetryCore \/ ConnectFails
  <2>1. /\ UNCHANGED <<pending, answers, start, setting, talk, notes, live, subscribed>>
        /\ socket # "on"
    BY <1>2 DEF ReconnectTick, RetryCore, ConnectToCore, ConnectFails
  <2> QED BY <1>0, <2>1 DEF Offline
<1>3. CASE Connected \/ ChangeSetting \/ Poll \/ Subscribe
  BY <1>3 DEF Connected, ChangeSetting, Poll, Subscribe
<1>4. CASE Disconnected \/ DisconnectFromCore
  BY <1>4 DEF Disconnected, DisconnectFromCore, Forget, Offline
<1>5. CASE HealthTimeout
  BY <1>1, <1>4, <1>5 DEF HealthTimeout
<1>6. CASE LiveEvent
  BY <1>0, <1>6 DEF LiveEvent, Offline
<1>7. ASSUME NEW r \in pending, Respond(r) PROVE Offline'
  BY <1>0, <1>7 DEF Respond, Offline
<1>8. ASSUME NEW a \in answers, socket' = socket PROVE Offline'
  BY <1>0, <1>8 DEF Offline
<1>9. ASSUME NEW a \in answers,
             \/ HealthAnswer(a) \/ SettingAnswer(a) \/ TalkAnswer(a) \/ NotesAnswer(a)
             \/ HistoryAnswer(a) \/ HistoryFails(a)
      PROVE  Offline'
  BY <1>8, <1>9 DEF HealthAnswer, SettingAnswer, TalkAnswer, NotesAnswer, HistoryAnswer, HistoryFails
<1>10. CASE RefreshProjectMemories
  BY <1>1, <1>10 DEF RefreshProjectMemories
<1>11. CASE ActivationEnds \/ StopCore \/ Publish \/ CoreRestarts \/ UNCHANGED vars
  BY <1>1, <1>11 DEF ActivationEnds, StopCore, Publish, CoreRestarts, vars
<1> QED
  BY <1>2, <1>3, <1>4, <1>5, <1>6, <1>7, <1>9, <1>10, <1>11 DEF Next

LEMMA SupervisedStep == IInv /\ [Next]_vars => Supervised'
<1> SUFFICES ASSUME Supervised, FlagsTyped, [Next]_vars, enabled' PROVE Supervised'
  BY DEF Supervised, IInv, TypeOK
<1> USE DEF Supervised, FlagsTyped
<1>1. CASE UNCHANGED <<linkVars, watchVars>>
  BY <1>1
<1>2. CASE ReconnectTick \/ RetryCore
  BY <1>2 DEF ReconnectTick, RetryCore, ConnectToCore
<1>3. CASE Connected
  BY <1>3 DEF Connected
<1>4. CASE ConnectFails \/ ActivationEnds
  BY <1>4 DEF ConnectFails, ActivationEnds
<1>5. CASE Disconnected \/ DisconnectFromCore \/ StopCore
  BY <1>5 DEF Disconnected, DisconnectFromCore, StopCore
<1>6. CASE Poll
  BY <1>6 DEF Poll
<1>7. CASE HealthTimeout
  BY <1>5, <1>7 DEF HealthTimeout
<1>8. ASSUME NEW a \in answers, HealthAnswer(a) PROVE Supervised'
  BY <1>8 DEF HealthAnswer
<1> QED
  BY <1>1, <1>2, <1>3, <1>4, <1>5, <1>6, <1>7, <1>8
     DEF vars, Next, ChangeSetting, RefreshProjectMemories, Subscribe, Publish, CoreRestarts,
         LiveEvent, Respond, SettingAnswer, TalkAnswer, NotesAnswer, HistoryAnswer, HistoryFails

--------------------------------------------------------------------------------
(* The requests *)

\* What is taken from the pending requests is the one that was answered.
LEMMA SettingStep == IInv /\ [Next]_vars => SettingSettles'
<1> SUFFICES ASSUME IInv, [Next]_vars, setting' # 0 PROVE SettingSettles'
  BY DEF SettingSettles
<1>0. SettingSettles /\ Offline
  BY DEF IInv
<1>1. CASE socket' = socket /\ setting' = setting /\ pending \subseteq pending'
  BY <1>0, <1>1 DEF SettingSettles
<1>2. CASE ReconnectTick \/ RetryCore \/ Connected \/ ConnectFails
  <2>1. socket # "on" \/ socket' = socket
    BY <1>2 DEF ReconnectTick, RetryCore, ConnectToCore, Connected, ConnectFails
  <2>2. setting' = setting /\ pending \subseteq pending'
    BY <1>2 DEF ReconnectTick, RetryCore, Connected, ConnectFails
  <2> QED BY <1>0, <1>1, <2>1, <2>2 DEF SettingSettles
<1>3. CASE Disconnected \/ DisconnectFromCore
  BY <1>3 DEF Disconnected, DisconnectFromCore, Forget
<1>4. CASE HealthTimeout
  BY <1>1, <1>3, <1>4 DEF HealthTimeout
<1>5. CASE ChangeSetting
  BY <1>5 DEF ChangeSetting, Ask, SettingSettles
<1>6. CASE Poll \/ RefreshProjectMemories \/ LiveEvent
  <2>1. \/ \E type \in {"health", "notes", "conversation"} : Ask(type)
        \/ pending' = pending
    BY <1>6 DEF Poll, RefreshProjectMemories, LiveEvent
  <2>2. socket' = socket /\ setting' = setting
    BY <1>6 DEF Poll, RefreshProjectMemories, LiveEvent
  <2> QED BY <1>1, <2>1, <2>2 DEF Ask
<1>7. ASSUME NEW a \in answers,
             a.request.type # "setting" \/ setting # a.request.id,
             Taken(a), socket' = socket, setting' = setting
      PROVE  SettingSettles'
  <2>1. a.request # [id |-> setting, type |-> "setting"]
    BY <1>7
  <2> QED BY <1>0, <1>7, <2>1 DEF SettingSettles, Taken
<1>8. ASSUME NEW a \in answers,
             \/ HealthAnswer(a) \/ SettingAnswer(a) \/ TalkAnswer(a) \/ NotesAnswer(a)
             \/ HistoryAnswer(a) \/ HistoryFails(a)
      PROVE  SettingSettles'
  <2>1. CASE SettingAnswer(a)
    BY <1>7, <2>1 DEF SettingAnswer
  <2>2. CASE HealthAnswer(a) \/ TalkAnswer(a) \/ NotesAnswer(a) \/ HistoryAnswer(a) \/ HistoryFails(a)
    BY <1>7, <2>2 DEF HealthAnswer, TalkAnswer, NotesAnswer, HistoryAnswer, HistoryFails
  <2> QED BY <1>8, <2>1, <2>2
<1> QED
  BY <1>1, <1>2, <1>3, <1>4, <1>5, <1>6, <1>8
     DEF vars, Next, ActivationEnds, StopCore, Subscribe, Publish, CoreRestarts, Respond

\* The request that is awaited, and the answer that is shown, are younger than the
\* moment their kind was discarded.
LEMMA AwaitedStep == IInv /\ [Next]_vars => Awaited' /\ ShownSince'
<1> SUFFICES ASSUME AskedTyped, CoreTyped, Awaited, ShownSince, [Next]_vars
             PROVE  Awaited' /\ ShownSince'
  BY DEF IInv, TypeOK
<1> USE DEF AskedTyped, Awaited, ShownSince
<1>1. CASE UNCHANGED <<counter, pending, shownVars>>
  BY <1>1
<1>2. CASE Connected
  <2>1. /\ counter' = counter + 2 /\ talk' = counter + 1
        /\ pending' = pending \cup {[id |-> counter + 1, type |-> "conversation"],
                                   [id |-> counter + 2, type |-> "history"]}
        /\ UNCHANGED <<notes, talkShown, notesShown, talkSince, notesSince>>
    BY <1>2 DEF Connected
  <2>2. \A r \in pending : r.id \in Nat
    BY RequestsTyped
  <2>3. \A r \in pending' : r.id <= counter'
    BY <2>1, <2>2
  <2> QED BY <2>1, <2>3
<1>3. CASE Disconnected \/ DisconnectFromCore
  <2>1. /\ pending' = {} /\ talk' = 0 /\ notes' = 0 /\ notesShown' = 0
        /\ UNCHANGED <<counter, talkShown, talkSince, notesSince>>
    BY <1>3 DEF Disconnected, DisconnectFromCore, Forget
  <2> QED BY <2>1
<1>4. CASE HealthTimeout
  BY <1>1, <1>3, <1>4 DEF HealthTimeout
<1>5. ASSUME NEW type, Ask(type) PROVE counter' = counter + 1 /\ \A r \in pending' : r.id <= counter'
  <2>1. \A r \in pending : r.id \in Nat
    BY RequestsTyped
  <2>2. counter' = counter + 1 /\ pending' = pending \cup {[id |-> counter + 1, type |-> type]}
    BY <1>5 DEF Ask
  <2> QED BY <2>1, <2>2
<1>6. CASE Poll \/ ChangeSetting
  <2>1. (\E type : Ask(type)) /\ UNCHANGED shownVars
    BY <1>6 DEF Poll, ChangeSetting
  <2> QED BY <1>5, <2>1
<1>7. CASE RefreshProjectMemories
  <2>1. /\ notesShown' = 0 /\ notesSince' = counter /\ UNCHANGED <<talk, talkShown, talkSince>>
        /\ \/ Ask("notes") /\ notes' = counter + 1
           \/ notes' = 0 /\ UNCHANGED <<counter, pending>>
    BY <1>7 DEF RefreshProjectMemories
  <2> QED BY <1>5, <2>1
<1>8. ASSUME PrivacyChanged, counter' = counter, pending' \subseteq pending
      PROVE  Awaited' /\ ShownSince'
  BY <1>8 DEF PrivacyChanged, DiscardTalk
<1>9. CASE LiveEvent
  <2>1. CASE PrivacyChanged /\ UNCHANGED <<counter, pending>>
    BY <1>8, <2>1
  <2>2. CASE DiscardTalk /\ Ask("conversation") /\ talk' = counter + 1
             /\ UNCHANGED <<notes, notesShown, notesSince>>
    BY <1>5, <2>2 DEF DiscardTalk
  <2> QED BY <1>1, <1>9, <2>1, <2>2 DEF LiveEvent
<1>10. ASSUME NEW a \in answers,
              \/ HealthAnswer(a) \/ SettingAnswer(a) \/ TalkAnswer(a) \/ NotesAnswer(a)
              \/ HistoryAnswer(a) \/ HistoryFails(a)
       PROVE  Awaited' /\ ShownSince'
  <2>1. counter' = counter /\ pending' \subseteq pending
    BY <1>10 DEF HealthAnswer, SettingAnswer, TalkAnswer, NotesAnswer, HistoryAnswer, HistoryFails, Taken
  <2>2. CASE UNCHANGED shownVars
    BY <2>1, <2>2
  <2>3. CASE TalkAnswer(a)
    <3>1. a.request.id \in Nat
      BY RequestsTyped DEF CoreTyped
    <3>2. /\ UNCHANGED <<notes, notesShown, talkSince, notesSince>>
          /\ \/ talk = a.request.id /\ talk' = 0 /\ talkShown' = a.request.id
             \/ UNCHANGED <<talk, talkShown>>
      BY <2>3 DEF TalkAnswer
    <3> QED BY <2>1, <3>1, <3>2
  <2>4. CASE NotesAnswer(a)
    <3>1. a.request.id \in Nat
      BY RequestsTyped DEF CoreTyped
    <3>2. /\ UNCHANGED <<talk, talkShown, talkSince, notesSince>>
          /\ \/ notes = a.request.id /\ notes' = 0 /\ notesShown' \in {0, a.request.id}
             \/ UNCHANGED <<notes, notesShown>>
      BY <2>4 DEF NotesAnswer
    <3> QED BY <2>1, <3>1, <3>2
  <2>5. CASE HistoryAnswer(a)
    BY <1>8, <2>1, <2>2, <2>5 DEF HistoryAnswer
  <2> QED
    BY <1>10, <2>2, <2>3, <2>4, <2>5 DEF HealthAnswer, SettingAnswer, HistoryFails
<1> QED
  BY <1>1, <1>2, <1>3, <1>4, <1>6, <1>7, <1>9, <1>10
     DEF vars, Next, ReconnectTick, RetryCore, ConnectFails, ActivationEnds, StopCore, Subscribe,
         Publish, CoreRestarts, Respond

--------------------------------------------------------------------------------
(* The events *)

\* A history covers what was published before it was collected, and what was delivered
\* since is listed already, so that together they have no gap.
LEMMA OverlapStep == IInv /\ [Next]_vars => Overlap' /\ NothingSlips'
<1> SUFFICES ASSUME CoreTyped, FlagsTyped, Offline, Overlap, NothingSlips, [Next]_vars
             PROVE  Overlap' /\ NothingSlips'
  BY DEF IInv, TypeOK
<1> USE DEF Overlap, NothingSlips
<1>1. CASE UNCHANGED <<listVars, now, subscribed>> /\ answers' \subseteq answers
  BY <1>1
<1>2. CASE Connected
  <2>1. UNCHANGED <<live, start, now, answers, subscribed>> /\ answers = {} /\ start = {}
    BY <1>2 DEF Connected, Offline
  <2> QED BY <2>1
<1>3. CASE Disconnected \/ DisconnectFromCore
  <2>1. now' = now /\ live' = 0 /\ start' = {} /\ answers' = {}
    BY <1>3 DEF Disconnected, DisconnectFromCore, Forget
  <2> QED BY <2>1 DEF CoreTyped
<1>4. CASE HealthTimeout
  BY <1>1, <1>3, <1>4 DEF HealthTimeout
<1>5. CASE Subscribe
  <2>1. /\ start = {} /\ \A a \in answers : a.request.type # "history"
        /\ live' = now /\ subscribed' /\ UNCHANGED <<now, start, answers>>
    BY <1>5 DEF Subscribe
  <2> QED BY <2>1 DEF CoreTyped
<1>6. CASE Publish
  <2>1. now' = now + 1 /\ UNCHANGED <<listVars, answers, subscribed>>
    BY <1>6 DEF Publish
  <2> QED BY <2>1 DEF CoreTyped
<1>7. CASE CoreRestarts
  <2>1. now' = 0 /\ live' = 0 /\ start' = {} /\ answers' = {}
    BY <1>7 DEF CoreRestarts, Offline
  <2> QED BY <2>1
<1>8. CASE LiveEvent
  <2>1. /\ subscribed /\ live < now /\ live' = live + 1
        /\ UNCHANGED <<start, now, answers, subscribed>>
    BY <1>8 DEF LiveEvent
  <2>2. List({live'}, events) \/ List(events \cup {live'}, {})
    BY <1>8 DEF LiveEvent
  <2>3. events' \cup removed' = removed \cup events \cup {live'}
    BY <2>2, Listed
  <2>4. live' <= now'
    BY <2>1 DEF CoreTyped
  <2>5. ASSUME NEW n \in Nat, \A s \in (n + 1)..live : s \in events \cup removed
        PROVE  \A s \in (n + 1)..live' : s \in events' \cup removed'
    BY <2>1, <2>3, <2>5 DEF CoreTyped
  <2>6. \A a \in answers : a.upto \in Nat
    BY RequestsTyped DEF CoreTyped
  <2>7. Overlap'
    BY <2>1, <2>4, <2>5, <2>6
  <2>8. NothingSlips'
    BY <2>1, <2>5 DEF CoreTyped
  <2> QED BY <2>7, <2>8
<1>9. ASSUME NEW r \in pending, Respond(r) PROVE Overlap' /\ NothingSlips'
  <2>1. PICK from \in Nat : answers' = answers \cup {[request |-> r, from |-> from, upto |-> now]}
    BY <1>9 DEF Respond, CoreTyped
  <2>2. (r.type = "history" => subscribed) /\ UNCHANGED <<listVars, now, subscribed>>
    BY <1>9 DEF Respond
  <2>3. \A s \in (now + 1)..live : FALSE
    BY DEF CoreTyped
  <2> QED BY <2>1, <2>2, <2>3
<1>10. ASSUME NEW a \in answers, HistoryAnswer(a) PROVE Overlap' /\ NothingSlips'
  <2> DEFINE past == (a.from + 1)..a.upto
  <2>1. /\ a.request.type = "history" /\ answers' \subseteq answers /\ start' = {a.from}
        /\ UNCHANGED <<live, now, subscribed>>
    BY <1>10 DEF HistoryAnswer, Taken
  <2>2. PICK listed, discarded :
          List(listed, discarded) /\ events \cup past \subseteq listed \cup discarded
    <3>1. CASE List(events \cup past, {})
      BY <3>1
    <3>2. ASSUME NEW last, List({s \in past : s >= last}, events \cup {s \in past : s < last}),
                 last \in past
          PROVE  \E listed, discarded :
                   List(listed, discarded) /\ events \cup past \subseteq listed \cup discarded
      <4>1. a.from \in Nat /\ a.upto \in Nat
        BY RequestsTyped DEF CoreTyped
      <4>2. \A s \in past : s >= last \/ s < last
        BY <3>2, <4>1
      <4>3. events \cup past
              \subseteq {s \in past : s >= last} \cup (events \cup {s \in past : s < last})
        BY <4>2
      <4> QED BY <3>2, <4>3
    <3> QED BY <1>10, <3>1, <3>2 DEF HistoryAnswer
  <2>3. events \cup removed \cup past \subseteq events' \cup removed'
    BY <2>2, Listed
  <2>4. Overlap'
    BY <2>1, <2>3
  <2>5. ASSUME NEW s \in (a.from + 1)..live PROVE s \in events' \cup removed'
    <3>1. a.from \in Nat /\ a.upto \in Nat /\ live \in Nat
      BY RequestsTyped DEF CoreTyped
    <3>2. s \in past \/ s \in (a.upto + 1)..live
      BY <2>5, <3>1
    <3>3. \A t \in (a.upto + 1)..live : t \in events \cup removed
      BY <2>1
    <3> QED BY <2>3, <3>2, <3>3
  <2>6. NothingSlips'
    BY <2>1, <2>5
  <2> QED BY <2>4, <2>6
<1>11. ASSUME NEW a \in answers,
              HealthAnswer(a) \/ SettingAnswer(a) \/ TalkAnswer(a) \/ NotesAnswer(a) \/ HistoryFails(a)
       PROVE  Overlap' /\ NothingSlips'
  BY <1>1, <1>11 DEF HealthAnswer, SettingAnswer, TalkAnswer, NotesAnswer, HistoryFails, Taken
<1> QED
  BY <1>1, <1>2, <1>3, <1>4, <1>5, <1>6, <1>7, <1>8, <1>9, <1>10, <1>11
     DEF vars, Next, ReconnectTick, RetryCore, ConnectFails, ActivationEnds, StopCore, Poll,
         ChangeSetting, RefreshProjectMemories

--------------------------------------------------------------------------------
(* The theorems *)

LEMMA StepIInv == IInv /\ [Next]_vars => IInv'
  BY TypeStep, OfflineStep, SupervisedStep, SettingStep, AwaitedStep, OverlapStep DEF IInv

LEMMA Invariance == Spec => []IInv
<1>1. Init => IInv
  BY InitIInv
<1>2. IInv /\ [Next]_vars => IInv'
  BY StepIInv
<1> QED
  BY <1>1, <1>2, PTL DEF Spec

\* Supervised and SettingSettles: until the user stops the core the client connects,
\* is about to, or polls it under a deadline; and a change of a setting, which keeps the
\* others out, always waits for an answer that can still come or for the connection to
\* end.
THEOREM NeverStuck == Spec => [](Supervised /\ SettingSettles)
<1>1. IInv => Supervised /\ SettingSettles
  BY DEF IInv
<1> QED
  BY <1>1, Invariance, PTL

\* NothingSlips: between the history and the events that are delivered none is lost,
\* for every length of the list, however the two interleave.
THEOREM NoEventSlips == Spec => []NothingSlips
<1>1. IInv => NothingSlips
  BY DEF IInv
<1> QED
  BY <1>1, Invariance, PTL

\* ShownSince: what is shown of a conversation, or of the notes of a project, was asked
\* for after the last change of the privacy mode or of the project.
THEOREM NothingStaleShown == Spec => []ShownSince
<1>1. IInv => ShownSince
  BY DEF IInv
<1> QED
  BY <1>1, Invariance, PTL
================================================================================
