--------------------------- MODULE TaskJournalProofs ---------------------------
(***************************************************************************)
(* What the task journal promises holds for any number of requests, stops, *)
(* changes of the privacy mode, cancellations, shutdowns and crashes, under *)
(* JournalAssumption alone.  One invariant carries it; it says of each      *)
(* request where its rows are (Rows), what of it is still to be written  *)
(* (Position) and what its answer is (Answering).                           *)
(***************************************************************************)
EXTENDS TaskJournal, SequenceTheorems, TLAPS

TaskStatuses ==
  {"absent", "RUNNING", "WAITING", "ANSWERED", "FAILED", "CANCELLED", "EXECUTED", "DENIED", "EXPIRED",
   "INTERRUPTED"}
StepStatuses == {"RUNNING", "COMPLETED", "FAILED", "CANCELLED", "INTERRUPTED_UNCERTAIN"}
Replies == {"WAITING", "ANSWERED", "FAILED", "CANCELLED", "EXECUTED", "DENIED", "EXPIRED"}

Table == [task : [Requests -> TaskStatuses], steps : Seq([of : Requests, status : StepStatuses])]

ToolStates == {"none", "recording", "running", "receipt", "failing", "settling", "settled"} \cup Over

Incidents == {"crash", "shutdown", "stop", "change", "cancel", "error"}

\* A step belongs to a task of the table.
Rooted(t) == \A i \in DOMAIN t.steps : t.task[t.steps[i].of] # "absent"

StartWrite(r) == Write("tool", "start", r, "-", 0)
BeginWrite(r) == Write("request", "begin", r, "-", 0)
ReceiptWrites(r, id) == {Write("tool", "receipt", r, status, id) : status \in {"COMPLETED", "FAILED", "CANCELLED"}}
FinishWrites(r) == {Write(from, "finish", r, status, 0) : from \in {"request", "decider"}, status \in Replies}

WritesOK == \A w \in writes :
  /\ w.of \in Requests
  /\ w \in {BeginWrite(w.of), StartWrite(w.of)} \cup ReceiptWrites(w.of, step[w.of]) \cup FinishWrites(w.of)

JournalTypeOK ==
  /\ core \in {"down", "locked", "up", "stopping"}
  /\ disk \in Table /\ ram \in Table /\ Rooted(disk) /\ Rooted(ram)
  /\ private \in BOOLEAN /\ saved \in BOOLEAN
  /\ WritesOK
  /\ at \in [Requests -> Busy \cup {"new", "done", "dead"}]
  /\ by \in [Requests -> {"none", "open", "approved", "denied", "executing", "concluding", "done"}]
  /\ tool \in [Requests -> ToolStates]
  /\ step \in [Requests -> Nat]
  /\ stopping \in {"no", "stop", "change", "saving"}
  /\ answer \in [Requests -> Replies \cup {"none"}]
  /\ outcome \in [Requests -> SUBSET {"COMPLETED", "FAILED"}]
  /\ strayed \in SUBSET Requests /\ crossed \in SUBSET Requests
  /\ budget \in [{"crash", "shutdown", "stop", "change", "cancel", "error", "all"} -> Int]
  /\ budget.crash <= MaxCrashes

\* Nothing is under way while no process of the core works.
Ended == core \in {"down", "locked"}
AtRest ==
  Ended => /\ ram = EmptyTable /\ writes = {}
           /\ \A r \in Requests :
                at[r] \notin Busy /\ by[r] \in {"none", "done"} /\ tool[r] \in {"none"} \cup Over

\* Where a request, its tool and its confirmation may be at the same time, and
\* which of its writes are under way there.
Position(r) ==
  /\ by[r] # "none" => r \in Confirmed /\ at[r] \in {"ending", "done", "dead"}
  /\ by[r] \notin {"none", "done"} => at[r] # "dead"
  /\ tool[r] # "none" /\ r \in Confirmed => by[r] \in {"executing", "concluding", "done"}
  /\ tool[r] = "none" => step[r] = 0 /\ outcome[r] = {} /\ ~Pending("tool", r)
  /\ at[r] = "cancelling" => r \notin Confirmed
  /\ at[r] = "new" => tool[r] = "none" /\ disk.task[r] = "absent" /\ ram.task[r] = "absent"
  /\ outcome[r] # {} => tool[r] \in {"receipt", "failing", "settling", "settled"} \cup Over
  /\ tool[r] \in {"failing", "raised", "cut"} => "FAILED" \in outcome[r]
  /\ \A w \in writes : w.of = r =>
       /\ at[r] # "new"
       /\ w.op = "start" => step[r] = 0 /\ tool[r] \in {"recording", "settling"}
       /\ w.op = "receipt" =>
            /\ tool[r] \in {"receipt", "failing", "settling", "settled", "cut"} /\ step[r] # 0
            /\ w.status = "CANCELLED" => outcome[r] = {} /\ tool[r] = "settled"
            /\ w.status # "CANCELLED" => w.status \in outcome[r]
            /\ tool[r] \in {"failing", "cut"} => w.status = "FAILED"

\* What the row of a tool may say of it.
StatusOK(r, status) ==
  /\ status \in {"COMPLETED", "FAILED"} => status \in outcome[r]
  /\ status = "CANCELLED" => outcome[r] = {} /\ tool[r] \in {"settled", "over"}
  /\ status = "COMPLETED" => tool[r] # "raised" /\ (tool[r] = "failing" => Pending("tool", r))
  /\ status = "RUNNING" /\ tool[r] \in {"over", "raised"} => Ended
  /\ status = "RUNNING" /\ tool[r] \in {"receipt", "settled", "failing"} => Pending("tool", r)
  /\ outcome[r] # {} =>
       \/ status \in outcome[r] \/ tool[r] = "cut"
       \/ Pending("tool", r)
       \/ status \in {"RUNNING", "INTERRUPTED_UNCERTAIN"} /\ tool[r] = "over" /\ budget.crash < MaxCrashes

HasStep(r) == \E t \in Tables : \E i \in DOMAIN t.steps : t.steps[i].of = r

\* A request that has not strayed has its rows in one table, and its step there
\* once its thread has run.
Rows(r) ==
  /\ disk.task[r] = "absent" \/ ram.task[r] = "absent"
  /\ \A t \in Tables : \A i \in DOMAIN t.steps :
       t.steps[i].of = r => i = step[r] /\ StatusOK(r, t.steps[i].status)
  /\ step[r] # 0 => HasStep(r)
  /\ tool[r] \in {"running", "receipt", "settled"} \/ outcome[r] # {} => step[r] # 0
  /\ tool[r] \in {"recording", "settling"} => step[r] # 0 \/ StartWrite(r) \in writes

Says(r, status) == \E t \in Tables : t.task[r] = status
FinishWrite(from, r) == Write(from, "finish", r, answer[r], 0)

\* What was answered is written, or about to be.
Answering(r) ==
  /\ by[r] \notin {"none", "open"} => at[r] # "ending"
  /\ \A w \in writes : w.of = r =>
       /\ w.op = "begin" => at[r] = "beginning"
       /\ w.op = "finish" => /\ w.status = answer[r]
                             /\ w.from = "request" => at[r] = "ending"
                             /\ w.from = "decider" => by[r] = "concluding"
  /\ at[r] = "ending" => answer[r] # "none" /\ (FinishWrite("request", r) \in writes \/ Says(r, answer[r]))
  /\ by[r] = "concluding" => answer[r] # "none" /\ (FinishWrite("decider", r) \in writes \/ Says(r, answer[r]))
  /\ at[r] = "done" /\ by[r] \in {"none", "open", "done"} /\ answer[r] # "none" => Says(r, answer[r])
  /\ answer[r] = "WAITING" => by[r] \notin {"none", "concluding", "done"}
  /\ ~Ended /\ at[r] \in {"done", "dead", "new"} /\ by[r] \in {"none", "done"} =>
       disk.task[r] \notin Unfinished /\ ram.task[r] \notin Unfinished

Good(r) ==
  /\ Position(r)
  /\ r \notin strayed => Rows(r)
  /\ r \notin strayed \cup crossed => Answering(r)

JournalInv == JournalTypeOK /\ AtRest /\ \A r \in Requests : Good(r)

--------------------------------------------------------------------------------
(* Steps that leave the tables as they are                                   *)

Calm ==
  /\ disk' = disk /\ ram' = ram /\ Ended' = Ended
  /\ budget'.crash <= budget.crash /\ strayed \subseteq strayed' /\ crossed \subseteq crossed'

Untouched(r) ==
  /\ at'[r] = at[r] /\ by'[r] = by[r] /\ tool'[r] = tool[r] /\ step'[r] = step[r]
  /\ answer'[r] = answer[r] /\ outcome'[r] = outcome[r]
  /\ \A w \in writes \cup writes' : w.of = r => (w \in writes <=> w \in writes')

\* The same tables say the same.
LEMMA SameTables ==
  ASSUME Calm, NEW r \in Requests
  PROVE  /\ Tables' = Tables /\ HasStep(r)' = HasStep(r)
         /\ \A status : Says(r, status)' = Says(r, status)
BY DEF Calm, Tables, HasStep, Says

\* What is said of the rows does not change with the answer.
LEMMA RowsFrame ==
  ASSUME JournalTypeOK, JournalTypeOK', NEW r \in Requests, Rows(r), Calm,
         tool'[r] = tool[r], step'[r] = step[r], outcome'[r] = outcome[r],
         \A w \in writes \cup writes' : w.of = r /\ w.from = "tool" => (w \in writes <=> w \in writes')
  PROVE  Rows(r)'
<1>1. Tables' = Tables /\ HasStep(r)' = HasStep(r) BY SameTables
<1>2. Pending("tool", r)' <=> Pending("tool", r) BY DEF Pending
<1>3. StartWrite(r) \in writes <=> StartWrite(r) \in writes' BY DEF StartWrite, Write
<1>4. ASSUME NEW status, StatusOK(r, status) PROVE StatusOK(r, status)'
  BY <1>2, <1>4, JournalAssumption DEF StatusOK, JournalTypeOK, Calm
<1>5. StartWrite(r)' = StartWrite(r) BY DEF StartWrite
<1>6. \A t \in Tables' : \A i \in DOMAIN t.steps :
        t.steps[i].of = r => i = step'[r] /\ StatusOK(r, t.steps[i].status)'
  BY <1>1, <1>4 DEF Rows
<1> QED BY <1>1, <1>3, <1>5, <1>6 DEF Rows, Calm

\* Nor what is said of the answer with the tool.
LEMMA AnsweringFrame ==
  ASSUME JournalTypeOK, JournalTypeOK', NEW r \in Requests, Answering(r), Calm,
         at'[r] = at[r], by'[r] = by[r], answer'[r] = answer[r],
         \A w \in writes \cup writes' :
            w.of = r /\ w.op \in {"begin", "finish"} => (w \in writes <=> w \in writes')
  PROVE  Answering(r)'
<1>1. \A status : Says(r, status)' = Says(r, status) BY SameTables
<1>2. \A from : /\ FinishWrite(from, r)' = FinishWrite(from, r)
                /\ FinishWrite(from, r) \in writes <=> FinishWrite(from, r) \in writes'
  BY DEF FinishWrite, Write
<1> QED BY <1>1, <1>2 DEF Answering, Calm

\* Nothing changes for a request that such a step does not touch.
LEMMA Frame ==
  ASSUME JournalTypeOK, JournalTypeOK', NEW r \in Requests, Good(r), Calm, Untouched(r)
  PROVE  Good(r)'
<1> USE DEF Untouched
<1>1. Position(r)' BY DEF Good, Position, Pending, Calm
<1>2. r \notin strayed' => Rows(r)' BY RowsFrame DEF Good, Calm
<1>3. r \notin (strayed \cup crossed)' => Answering(r)' BY AnsweringFrame DEF Good, Calm
<1> QED BY <1>1, <1>2, <1>3 DEF Good

\* A step of one request keeps the invariant if it keeps what is said of it.
LEMMA OneRequest ==
  ASSUME JournalInv, NEW r \in Requests, JournalTypeOK', AtRest', Calm,
         \A q \in Requests \ {r} : Untouched(q), Good(r)'
  PROVE  JournalInv'
<1>1. ASSUME NEW q \in Requests PROVE Good(q)'
  BY <1>1, Frame DEF JournalInv
<1> QED BY <1>1 DEF JournalInv

LEMMA NoRequest ==
  ASSUME JournalInv, JournalTypeOK', AtRest', Calm, \A q \in Requests : Untouched(q)
  PROVE  JournalInv'
<1>1. ASSUME NEW q \in Requests PROVE Good(q)'
  BY <1>1, Frame DEF JournalInv
<1> QED BY <1>1 DEF JournalInv

LEMMA Quiet ==
  ASSUME JournalInv, NEW r \in Requests, at[r] \in Busy \/ by[r] \notin {"none", "done"} \/ tool[r] \notin {"none"} \cup Over
  PROVE  ~Ended
BY DEF JournalInv, AtRest

--------------------------------------------------------------------------------
(* The request *)

LEMMA SubmitGood ==
  ASSUME JournalInv, NEW r \in Requests, Submit(r)
  PROVE  JournalInv'
<1> USE DEF Submit
<1> DEFINE w0 == BeginWrite(r)
<1>0. /\ writes' = writes \cup {w0} /\ w0.of = r /\ w0.from = "request" /\ w0.op = "begin"
      /\ w0.status = "-" /\ w0.id = 0
  BY DEF BeginWrite, Write
<1>1. JournalTypeOK'
  BY <1>0 DEF JournalInv, JournalTypeOK, WritesOK, Busy, See, ReceiptWrites, FinishWrites, StartWrite, BeginWrite, ghostVars
<1>2. Ended' = Ended /\ ~Ended BY DEF Ended
<1>3. AtRest' BY <1>2 DEF AtRest
<1>4. Calm BY <1>2, JournalAssumption DEF Calm, ghostVars, JournalInv, JournalTypeOK
<1>5. \A q \in Requests \ {r} : Untouched(q)
  BY <1>0 DEF Untouched, JournalInv, JournalTypeOK, ghostVars
<1> HIDE DEF w0
<1>6. Good(r) /\ at'[r] = "beginning" /\ Position(r) BY DEF JournalInv, JournalTypeOK, Good
<1>7. Position(r)' BY <1>0, <1>6 DEF Position, ghostVars, Pending
<1>8. r \notin strayed' => Rows(r)' BY <1>0, <1>1, <1>4, <1>6, RowsFrame DEF Good, ghostVars, JournalInv
<1>10. \A status : Says(r, status)' = Says(r, status) BY <1>4, SameTables
<1>9. r \notin (strayed \cup crossed)' => Answering(r)'
  BY <1>0, <1>2, <1>4, <1>6, <1>10 DEF Good, Answering, ghostVars, Position, Calm, JournalInv
<1> QED BY <1>1, <1>3, <1>4, <1>5, <1>7, <1>8, <1>9, OneRequest DEF Good

\* The write at the end of a request.
LEMMA EndWrite ==
  ASSUME NEW r \in Requests, NEW status \in Replies, NEW from \in {"request", "decider"}
  PROVE  LET w == Write(from, "finish", r, status, 0) IN
         /\ w.of = r /\ w.from = from /\ w.op = "finish" /\ w.status = status /\ w.id = 0
         /\ w \in FinishWrites(r)
BY DEF Write, FinishWrites

LEMMA EndRequestType ==
  ASSUME JournalTypeOK, NEW r \in Requests, NEW status \in Replies, EndRequest(r, status), step' = step
  PROVE  /\ at' \in [Requests -> Busy \cup {"new", "done", "dead"}]
         /\ answer' \in [Requests -> Replies \cup {"none"}]
         /\ WritesOK'
<1>1. WritesOK' BY EndWrite DEF JournalTypeOK, WritesOK, EndRequest
<1> QED BY <1>1 DEF JournalTypeOK, EndRequest, Busy

\* What is said of the end of a request, when it ends.
LEMMA EndRequestGood ==
  ASSUME JournalInv, NEW r \in Requests, NEW status \in Replies, EndRequest(r, status),
         at[r] \in {"beginning", "working", "cancelling"}, ~Pending("request", r) \/ at[r] # "beginning",
         JournalTypeOK', Calm, crossed' = crossed,
         \/ by' = by /\ by[r] = "none" /\ status # "WAITING"
         \/ by' = [by EXCEPT ![r] = "open"] /\ status = "WAITING"
  PROVE  r \notin (strayed \cup crossed)' => Answering(r)'
<1> DEFINE w0 == Write("request", "finish", r, status, 0)
<1> SUFFICES ASSUME r \notin (strayed \cup crossed)' PROVE Answering(r)'
  OBVIOUS
<1>1. Answering(r) /\ Position(r) BY DEF JournalInv, Good, Calm
<1>2. /\ writes' = writes \cup {w0} /\ answer'[r] = status /\ at'[r] = "ending"
  BY DEF EndRequest, JournalInv, JournalTypeOK
<1>3. /\ w0.of = r /\ w0.from = "request" /\ w0.op = "finish" /\ w0.status = status
      /\ w0 \in FinishWrites(r)
  BY EndWrite
<1>4. FinishWrite("request", r)' = w0 BY <1>2 DEF FinishWrite
<1>5. ~Ended BY Quiet DEF Busy
<1>6. by'[r] \in {"none", "open"} BY DEF JournalInv, JournalTypeOK
<1>7. \A w \in writes : w.of = r => w.op \notin {"begin", "finish"}
  <2> SUFFICES ASSUME NEW w \in writes, w.of = r, w.op \in {"begin", "finish"} PROVE FALSE OBVIOUS
  <2>1. w.from \in {"request", "decider"} /\ (w.op = "begin" => w.from = "request")
    BY DEF JournalInv, JournalTypeOK, WritesOK, BeginWrite, StartWrite, ReceiptWrites, FinishWrites, Write
  <2> QED BY <1>1, <2>1 DEF Answering, Pending, Position
<1> HIDE DEF w0
<1>8. \A w \in writes' : w.of = r /\ w.op \in {"begin", "finish"} => w = w0
  BY <1>2, <1>7
<1>9. answer'[r] = "WAITING" => by'[r] = "open" BY <1>2 DEF JournalInv, JournalTypeOK
<1> QED BY <1>2, <1>3, <1>4, <1>6, <1>8, <1>9 DEF Answering, Replies

LEMMA BegunGood ==
  ASSUME JournalInv, NEW r \in Requests, Begun(r)
  PROVE  JournalInv'
<1> USE DEF Begun, ghostVars
<1>0. JournalTypeOK /\ Good(r) /\ Position(r) /\ ~Ended /\ at[r] = "beginning" /\ by[r] = "none"
  BY Quiet DEF JournalInv, Good, Busy, Position
<1>1. JournalTypeOK'
  <2>1. "CANCELLED" \in Replies BY DEF Replies
  <2>2. CASE EndRequest(r, "CANCELLED") BY <1>0, <2>1, <2>2, EndRequestType DEF JournalTypeOK
  <2>3. CASE UNCHANGED <<writes, answer>> /\ at' = [at EXCEPT ![r] = "working"]
    BY <1>0, <2>3 DEF JournalTypeOK, WritesOK, Busy
  <2> QED BY <2>2, <2>3
<1>2. Ended' = Ended BY DEF Ended
<1>3. AtRest' BY <1>0, <1>2 DEF AtRest
<1>4. Calm BY <1>0, <1>2, JournalAssumption DEF Calm, JournalTypeOK
<1>5. \A q \in Requests \ {r} : Untouched(q)
  BY <1>0 DEF Untouched, JournalTypeOK, EndRequest, Write
<1>6. Position(r)'
  BY <1>0 DEF Position, Pending, EndRequest, Write, JournalTypeOK
<1>7. r \notin strayed' => Rows(r)'
  BY <1>0, <1>1, <1>4, RowsFrame, EndWrite DEF Good, EndRequest, Write
<1>8. r \notin (strayed \cup crossed)' => Answering(r)'
  <2>1. CASE EndRequest(r, "CANCELLED")
    BY <1>0, <1>1, <1>4, <2>1, EndRequestGood DEF Replies
  <2>2. CASE UNCHANGED <<writes, answer>> /\ at' = [at EXCEPT ![r] = "working"]
    <3>1. \A status : Says(r, status)' = Says(r, status) BY <1>4, SameTables
    <3> QED BY <1>0, <1>2, <1>4, <2>2, <3>1
        DEF Good, Answering, Calm, Pending, JournalTypeOK, WritesOK, Busy, BeginWrite, StartWrite, ReceiptWrites, FinishWrites, Write
  <2> QED BY <2>1, <2>2
<1> QED BY <1>1, <1>3, <1>4, <1>5, <1>6, <1>7, <1>8, OneRequest DEF Good

LEMMA AnswerGood ==
  ASSUME JournalInv, NEW r \in Requests, Answer(r)
  PROVE  JournalInv'
<1> USE DEF Answer, ghostVars
<1> PICK status \in {"ANSWERED", "FAILED", "CANCELLED"} : EndRequest(r, status)
  OBVIOUS
<1>0. JournalTypeOK /\ Good(r) /\ Position(r) /\ ~Ended /\ at[r] = "working" /\ by[r] = "none" /\ status \in Replies
  BY Quiet DEF JournalInv, Good, Busy, Position, Replies
<1>1. JournalTypeOK'
  BY <1>0, EndRequestType DEF JournalTypeOK
<1>2. Ended' = Ended BY DEF Ended
<1>3. AtRest' BY <1>0, <1>2 DEF AtRest
<1>4. Calm BY <1>0, <1>2, JournalAssumption DEF Calm, JournalTypeOK
<1>5. \A q \in Requests \ {r} : Untouched(q)
  BY <1>0 DEF Untouched, JournalTypeOK, EndRequest, Write
<1>6. Position(r)'
  BY <1>0 DEF Position, Pending, EndRequest, Write, JournalTypeOK
<1>7. r \notin strayed' => Rows(r)'
  BY <1>0, <1>1, <1>4, RowsFrame, EndWrite DEF Good, EndRequest, Write
<1>8. r \notin (strayed \cup crossed)' => Answering(r)'
  BY <1>0, <1>1, <1>4, EndRequestGood
<1> QED BY <1>1, <1>3, <1>4, <1>5, <1>6, <1>7, <1>8, OneRequest DEF Good

LEMMA AnsweredGood ==
  ASSUME JournalInv, NEW r \in Requests, Answered(r)
  PROVE  JournalInv'
<1> USE DEF Answered, ghostVars, tableVars
<1>0. JournalTypeOK /\ Good(r) /\ Position(r) /\ ~Ended /\ at[r] = "ending"
  BY Quiet DEF JournalInv, Good, Busy, Position
<1>1. JournalTypeOK' BY <1>0 DEF JournalTypeOK, WritesOK
<1>2. Ended' = Ended BY DEF Ended
<1>3. AtRest' BY <1>0, <1>2 DEF AtRest
<1>4. Calm BY <1>0, <1>2, JournalAssumption DEF Calm, JournalTypeOK
<1>5. \A q \in Requests \ {r} : Untouched(q)
  BY <1>0 DEF Untouched, JournalTypeOK
<1>6. Position(r)'
  BY <1>0 DEF Position, Pending, JournalTypeOK
<1>7. r \notin strayed' => Rows(r)'
  BY <1>0, <1>1, <1>4, RowsFrame DEF Good
<1>8. ASSUME r \notin (strayed \cup crossed)' PROVE Answering(r)'
  <2>1. \A status : Says(r, status)' = Says(r, status) BY <1>4, SameTables
  <2>2. /\ Answering(r) /\ at'[r] = "done"
    BY <1>0, <1>8 DEF Good, JournalTypeOK
  <2>3. \A w \in writes : w.of = r => w.from # "request" BY DEF Pending
  <2>4. FinishWrite("request", r) \notin writes BY <2>3 DEF FinishWrite, Write
  <2>5. Says(r, answer[r]) /\ answer[r] # "none" BY <1>0, <2>2, <2>4 DEF Answering
  <2>6. by[r] = "none" => disk.task[r] \notin Unfinished /\ ram.task[r] \notin Unfinished
    <3> SUFFICES ASSUME by[r] = "none" PROVE disk.task[r] \notin Unfinished /\ ram.task[r] \notin Unfinished
      OBVIOUS
    <3>1. answer[r] \notin {"WAITING", "RUNNING", "absent"}
      BY <1>0, <2>2 DEF Answering, JournalTypeOK, Replies
    <3>2. disk.task[r] = answer[r] \/ ram.task[r] = answer[r] BY <2>5 DEF Says, Tables
    <3>3. disk.task[r] = "absent" \/ ram.task[r] = "absent" BY <1>0, <1>8 DEF Good, Rows
    <3> QED BY <3>1, <3>2, <3>3 DEF Unfinished
  <2>7. by[r] \in {"none", "open"} BY <1>0, <2>2 DEF Answering
  <2> QED BY <1>0, <1>4, <2>1, <2>2, <2>3, <2>5, <2>6, <2>7
      DEF Answering, Calm, JournalTypeOK, WritesOK, BeginWrite, StartWrite, ReceiptWrites, FinishWrites, Write
<1> QED BY <1>1, <1>3, <1>4, <1>5, <1>6, <1>7, <1>8, OneRequest DEF Good

LEMMA CancelledGood ==
  ASSUME JournalInv, NEW r \in Requests, Cancelled(r)
  PROVE  JournalInv'
<1> USE DEF Cancelled, ghostVars
<1>0. /\ JournalTypeOK /\ Good(r) /\ Position(r) /\ ~Ended /\ at[r] = "cancelling" /\ by[r] = "none"
      /\ "CANCELLED" \in Replies
  BY Quiet DEF JournalInv, Good, Busy, Position, Replies
<1>1. JournalTypeOK'
  BY <1>0, EndRequestType DEF JournalTypeOK
<1>2. Ended' = Ended BY DEF Ended
<1>3. AtRest' BY <1>0, <1>2 DEF AtRest
<1>4. Calm BY <1>0, <1>2, JournalAssumption DEF Calm, JournalTypeOK
<1>5. \A q \in Requests \ {r} : Untouched(q)
  BY <1>0 DEF Untouched, JournalTypeOK, EndRequest, Write
<1>6. Position(r)'
  BY <1>0 DEF Position, Pending, EndRequest, Write, JournalTypeOK
<1>7. r \notin strayed' => Rows(r)'
  BY <1>0, <1>1, <1>4, RowsFrame, EndWrite DEF Good, EndRequest, Write
<1>8. r \notin (strayed \cup crossed)' => Answering(r)'
  BY <1>0, <1>1, <1>4, EndRequestGood
<1> QED BY <1>1, <1>3, <1>4, <1>5, <1>6, <1>7, <1>8, OneRequest DEF Good

LEMMA SpendType ==
  ASSUME JournalTypeOK, NEW what \in Incidents, Spend(what)
  PROVE  /\ budget' \in [Incidents \cup {"all"} -> Int]
         /\ budget'.crash = IF what = "crash" THEN budget.crash - 1 ELSE budget.crash
<1>1. budget \in [Incidents \cup {"all"} -> Int] /\ what # "all"
  BY DEF JournalTypeOK, Incidents
<1> DEFINE half == [budget EXCEPT ![what] = @ - 1]
<1>2. half \in [Incidents \cup {"all"} -> Int] BY <1>1
<1>3. half["crash"] = IF what = "crash" THEN budget["crash"] - 1 ELSE budget["crash"]
  BY <1>1 DEF Incidents
<1>4. budget' = [half EXCEPT !["all"] = half["all"] - 1] BY <1>1 DEF Spend
<1> HIDE DEF half
<1>5. budget' \in [Incidents \cup {"all"} -> Int] BY <1>2, <1>4
<1>6. budget'["crash"] = half["crash"] BY <1>2, <1>4 DEF Incidents
<1> QED BY <1>3, <1>5, <1>6

\* What is said of the rows when the tool is cancelled.
LEMMA CutRows ==
  ASSUME JournalTypeOK, JournalTypeOK', NEW r \in Requests, Position(r), Rows(r), Calm,
         tool'[r] = Cut(tool[r]), step'[r] = step[r], outcome'[r] = outcome[r],
         \A w \in writes' : w.of = r /\ w.from = "tool" => w \in writes,
         \A w \in writes : w.of = r /\ w.from = "tool" => w \in writes' \/ tool[r] = "failing"
  PROVE  Rows(r)'
<1>1. Tables' = Tables /\ HasStep(r)' = HasStep(r) BY SameTables
<1>2. tool[r] # "failing" => (Pending("tool", r)' <=> Pending("tool", r)) BY DEF Pending
<1>3. tool[r] # "failing" /\ StartWrite(r) \in writes => StartWrite(r) \in writes' BY DEF StartWrite, Write
<1>4. /\ tool[r] \in {"recording", "running", "receipt"} => tool'[r] = "settling"
      /\ tool[r] = "failing" => tool'[r] = "cut"
      /\ tool[r] \notin {"recording", "running", "receipt", "failing"} => tool'[r] = tool[r]
  BY DEF Cut
<1>5. tool[r] = "failing" => outcome[r] # {} BY DEF Position
<1>6. budget.crash < MaxCrashes => budget'.crash < MaxCrashes
  BY JournalAssumption DEF Calm, JournalTypeOK
<1>7. ASSUME NEW status, StatusOK(r, status) PROVE StatusOK(r, status)'
  BY <1>2, <1>4, <1>5, <1>6, <1>7 DEF StatusOK, Calm, Over
<1>8. \A t \in Tables' : \A i \in DOMAIN t.steps :
        t.steps[i].of = r => i = step'[r] /\ StatusOK(r, t.steps[i].status)'
  BY <1>1, <1>7 DEF Rows
<1> QED BY <1>1, <1>3, <1>4, <1>5, <1>8 DEF Rows, Calm, StartWrite, Over

\* A cancellation, of the request alone or by the shutdown.
LEMMA CancelGood ==
  ASSUME JournalInv, NEW r \in Requests, Cancel(r), ~Ended', core' \in {"up", "stopping"},
         UNCHANGED <<disk, ram, private, saved, by, step, stopping, scope, outcome, strayed>>,
         budget' \in [Incidents \cup {"all"} -> Int],
         budget'.crash = budget.crash
  PROVE  JournalInv'
<1> DEFINE w0 == Write("request", "finish", r, "CANCELLED", 0)
           waits == at[r] = "working" /\ tool[r] \notin {"none"} \cup Over
           cutting == waits /\ tool[r] = "failing"
           mine == {w \in writes : w.of = r /\ w.from = IF cutting THEN "tool" ELSE "request"}
<1>0. JournalTypeOK /\ Good(r) /\ Position(r) /\ ~Ended /\ "CANCELLED" \in Replies
  BY Quiet DEF JournalInv, Good, Busy, Cancel, Replies
<1>1. PICK kept \in {writes, writes \ mine} :
        writes' = IF at[r] = "beginning" \/ waits THEN kept ELSE kept \cup {w0}
  BY DEF Cancel
<1>2. /\ w0.of = r /\ w0.from = "request" /\ w0.op = "finish" /\ w0.status = "CANCELLED"
      /\ w0 \in FinishWrites(r)
  BY <1>0, EndWrite
<1>3. kept \subseteq writes /\ \A w \in writes : w \in kept \/ (w.of = r /\ w.from = IF cutting THEN "tool" ELSE "request")
  OBVIOUS
<1>5. /\ at' = [at EXCEPT ![r] = IF @ = "beginning" THEN "dead" ELSE IF waits THEN "cancelling" ELSE "ending"]
      /\ at'[r] = IF at[r] = "beginning" THEN "dead" ELSE IF waits THEN "cancelling" ELSE "ending"
      /\ tool' = IF waits THEN [tool EXCEPT ![r] = Cut(@)] ELSE tool
      /\ answer' = [answer EXCEPT ![r] = "CANCELLED"] /\ at[r] \in {"beginning", "working", "ending"}
      /\ crossed' = IF at[r] \in {"beginning", "ending"} THEN crossed \cup {r} ELSE crossed
  <2>1. at' = [at EXCEPT ![r] = IF @ = "beginning" THEN "dead" ELSE IF waits THEN "cancelling" ELSE "ending"]
    BY DEF Cancel
  <2>2. at'[r] = IF at[r] = "beginning" THEN "dead" ELSE IF waits THEN "cancelling" ELSE "ending"
    BY <1>0, <2>1 DEF JournalTypeOK
  <2>3. tool' = IF waits THEN [tool EXCEPT ![r] = Cut(@)] ELSE tool
    BY DEF Cancel
  <2> QED BY <2>1, <2>2, <2>3 DEF Cancel
<1>15. waits => at[r] = "working" /\ tool[r] \notin {"none"} \cup Over
  OBVIOUS
<1>16. at[r] = "working" /\ ~waits => tool[r] \in {"none"} \cup Over
  OBVIOUS
<1>17. cutting => waits /\ tool[r] = "failing"
  OBVIOUS
<1>18. waits /\ tool[r] = "failing" => cutting
  OBVIOUS
<1> HIDE DEF w0, mine, waits, cutting
<1>4. /\ writes' \subseteq writes \cup {w0}
      /\ \A w \in writes : w \in writes' \/ (w.of = r /\ w.from = IF cutting THEN "tool" ELSE "request")
  BY <1>1, <1>3
<1>14. tool'[r] = IF waits THEN Cut(tool[r]) ELSE tool[r]
  BY <1>0, <1>5 DEF JournalTypeOK
<1>6. JournalTypeOK'
  <2>1. WritesOK' BY <1>0, <1>2, <1>4 DEF JournalTypeOK, WritesOK
  <2>2. at' \in [Requests -> Busy \cup {"new", "done", "dead"}] BY <1>0, <1>5 DEF JournalTypeOK, Busy
  <2>3. tool' \in [Requests -> ToolStates]
    <3>1. tool \in [Requests -> ToolStates] BY <1>0 DEF JournalTypeOK
    <3>2. Cut(tool[r]) \in ToolStates BY <3>1 DEF Cut, ToolStates, Over
    <3> QED BY <1>5, <3>1, <3>2
  <2> QED BY <1>0, <1>5, <2>1, <2>2, <2>3 DEF JournalTypeOK, Incidents
<1>7. Ended' = Ended /\ AtRest' BY <1>0 DEF AtRest, Ended
<1>8. Calm BY <1>0, <1>5, <1>7 DEF Calm, JournalTypeOK
<1>9. \A q \in Requests \ {r} : Untouched(q)
  BY <1>0, <1>2, <1>4, <1>5 DEF Untouched, JournalTypeOK
<1>10. Position(r)'
  <2>1. waits => r \notin Confirmed /\ by[r] = "none"
    BY <1>0, <1>15 DEF Position, JournalTypeOK
  <2>2. \A w \in writes' : w.of = r => w \in writes \/ w.op = "finish" BY <1>2, <1>4
  <2>3. at'[r] \in {"dead", "ending", "cancelling"} BY <1>5
  <2>4. /\ by[r] # "none" => at'[r] = "ending"
        /\ at'[r] = "cancelling" => r \notin Confirmed
    BY <1>0, <1>5, <2>1, <2>3 DEF Position
  <2>5. ~Pending("tool", r) => ~Pending("tool", r)'
    BY <1>2, <1>4 DEF Pending
  <2>7. /\ tool[r] \in {"recording", "running", "receipt"} => tool'[r] \in {tool[r], "settling"}
        /\ tool[r] = "failing" => tool'[r] \in {tool[r], "cut"}
        /\ tool[r] \notin {"recording", "running", "receipt", "failing"} => tool'[r] = tool[r]
        /\ tool'[r] # tool[r] => r \notin Confirmed
    BY <1>14, <2>1 DEF Cut
  <2>8. tool[r] = "failing" => "FAILED" \in outcome[r] BY <1>0 DEF Position
  <2>6. \A w \in writes' : w.of = r =>
          /\ at'[r] # "new"
          /\ w.op = "start" => step'[r] = 0 /\ tool'[r] \in {"recording", "settling"}
          /\ w.op = "receipt" =>
               /\ tool'[r] \in {"receipt", "failing", "settling", "settled", "cut"} /\ step'[r] # 0
               /\ w.status = "CANCELLED" => outcome'[r] = {} /\ tool'[r] = "settled"
               /\ w.status # "CANCELLED" => w.status \in outcome'[r]
               /\ tool'[r] \in {"failing", "cut"} => w.status = "FAILED"
    BY <1>0, <2>2, <2>3, <2>7 DEF Position
  <2> QED BY <1>0, <1>5, <2>3, <2>4, <2>5, <2>6, <2>7, <2>8 DEF Position, Over
<1>12. ASSUME r \notin strayed' PROVE Rows(r)'
  <2>1. \A w \in writes' : w.of = r /\ w.from = "tool" => w \in writes BY <1>2, <1>4
  <2>2. \A w \in writes : w.of = r /\ w.from = "tool" => w \in writes' \/ cutting BY <1>4
  <2>3. CASE ~waits
    <3>1. tool' = tool BY <1>5, <2>3
    <3>2. \A w \in writes \cup writes' : w.of = r /\ w.from = "tool" => (w \in writes <=> w \in writes')
      BY <1>17, <2>1, <2>2, <2>3
    <3> QED BY <1>0, <1>6, <1>8, <1>12, <3>1, <3>2, RowsFrame DEF Good
  <2>4. CASE waits
    <3>1. tool'[r] = Cut(tool[r]) BY <1>14, <2>4
    <3> QED BY <1>0, <1>6, <1>8, <1>12, <1>17, <2>1, <2>2, <3>1, CutRows DEF Good
  <2> QED BY <2>3, <2>4
<1>13. ASSUME r \notin (strayed \cup crossed)' PROVE Answering(r)'
  <2>1. at[r] = "working" /\ by[r] = "none" /\ crossed' = crossed
    BY <1>0, <1>5, <1>13 DEF Position, JournalTypeOK
  <2>2. \A w \in writes : w.of = r => w.op \notin {"begin", "finish"}
    BY <1>0, <1>13, <2>1 DEF Good, Answering, JournalTypeOK, WritesOK, BeginWrite, StartWrite, ReceiptWrites,
         FinishWrites, Write
  <2>3. \A w \in writes : w.of = r => w.from # "request"
    BY <1>0, <2>2 DEF JournalTypeOK, WritesOK, BeginWrite, StartWrite, ReceiptWrites, FinishWrites, Write
  <2>5. CASE ~waits
    <3>1. ~cutting BY <1>17, <2>5
    <3>2. kept = writes BY <1>3, <2>3, <3>1
    <3>3. EndRequest(r, "CANCELLED") BY <1>1, <1>5, <2>1, <2>5, <3>2 DEF EndRequest, w0
    <3> QED BY <1>0, <1>6, <1>8, <1>13, <2>1, <3>3, EndRequestGood
  <2>6. CASE waits
    <3>1. writes' \subseteq writes BY <1>1, <1>3, <2>6
    <3>2. at'[r] = "cancelling" /\ answer'[r] = "CANCELLED"
      BY <1>0, <1>5, <2>1, <2>6 DEF JournalTypeOK
    <3> QED BY <1>0, <1>13, <2>1, <2>2, <3>1, <3>2 DEF Answering, Good
  <2> QED BY <2>5, <2>6
<1> QED BY <1>6, <1>7, <1>8, <1>9, <1>10, <1>12, <1>13, OneRequest DEF Good

LEMMA CancelRequestGood ==
  ASSUME JournalInv, NEW r \in Requests, CancelRequest(r)
  PROVE  JournalInv'
<1>1. /\ budget' \in [Incidents \cup {"all"} -> Int]
      /\ budget'.crash = budget.crash
  BY SpendType DEF CancelRequest, JournalInv, Incidents
<1> QED BY <1>1, CancelGood DEF CancelRequest, Ended

LEMMA ShutdownGood ==
  ASSUME JournalInv, Shutdown
  PROVE  JournalInv'
<1> USE DEF Shutdown
<1>1. /\ budget' \in [Incidents \cup {"all"} -> Int]
      /\ budget'.crash = budget.crash
  BY SpendType DEF JournalInv, Incidents
<1>2. ~Ended /\ ~Ended' BY DEF Ended
<1>3. CASE UNCHANGED <<at, tool, answer, writes, crossed>>
  <2>1. JournalTypeOK' BY <1>1, <1>3 DEF JournalInv, JournalTypeOK, WritesOK, Incidents
  <2>2. Calm BY <1>1, <1>2, <1>3 DEF Calm, JournalInv, JournalTypeOK, Ended
  <2> QED BY <1>2, <1>3, <2>1, <2>2, NoRequest DEF Untouched, AtRest
<1>4. ASSUME NEW r \in Requests, Cancel(r) PROVE JournalInv'
  BY <1>1, <1>2, <1>4, CancelGood
<1> QED BY <1>3, <1>4

--------------------------------------------------------------------------------
(* Its tool *)

\* What is under way when a tool starts.
LEMMA StartToolGood ==
  ASSUME JournalInv, JournalTypeOK', NEW r \in Requests, StartTool(r), tool[r] = "none", ~Ended, Calm,
         UNCHANGED <<at, step, answer, outcome>>, at[r] # "new",
         \/ by' = by /\ r \notin Confirmed
         \/ by' = [by EXCEPT ![r] = "executing"] /\ r \in Confirmed /\ by[r] = "approved"
  PROVE  /\ Good(r)'
         /\ \A q \in Requests \ {r} : Untouched(q)
<1> DEFINE w0 == StartWrite(r)
<1>0. JournalTypeOK /\ Good(r) /\ Position(r) /\ AtRest'
  BY DEF JournalInv, Good, AtRest, Calm
<1>1. /\ w0.of = r /\ w0.from = "tool" /\ w0.op = "start" /\ writes' = writes \cup {w0}
      /\ tool'[r] = "recording"
  BY <1>0 DEF StartTool, StartWrite, Write, JournalTypeOK
<1>2. \A q \in Requests \ {r} : Untouched(q)
  BY <1>0, <1>1 DEF Untouched, StartTool, JournalTypeOK
<1> HIDE DEF w0
<1>3. Position(r)'
  <2>1. by'[r] # "none" => r \in Confirmed /\ at'[r] \in {"ending", "done", "dead"}
    BY <1>0 DEF Position, JournalTypeOK
  <2>2. by'[r] \notin {"none", "done"} => at'[r] # "dead" BY <1>0 DEF Position, JournalTypeOK
  <2>3. r \in Confirmed => by'[r] \in {"executing", "concluding", "done"} BY <1>0 DEF JournalTypeOK
  <2>4. \A w \in writes' : w.of = r => at'[r] # "new" /\ (w.op = "start" => step'[r] = 0 /\ tool'[r] = "recording") /\ w.op # "receipt"
    BY <1>0, <1>1 DEF Position
  <2> QED BY <1>0, <1>1, <2>1, <2>2, <2>3, <2>4 DEF Position
<1>4. ASSUME r \notin strayed' PROVE Rows(r)'
  <2>1. Rows(r) /\ step[r] = 0 /\ outcome[r] = {} BY <1>0, <1>4 DEF Good, Position, Calm
  <2>2. Tables' = Tables BY SameTables
  <2>3. \A t \in Tables : \A i \in DOMAIN t.steps : t.steps[i].of = r => StatusOK(r, t.steps[i].status)
    BY <2>1 DEF Rows
  <2>4. ASSUME NEW status, StatusOK(r, status) PROVE StatusOK(r, status)'
    BY <1>1, <2>1, <2>4 DEF StatusOK
  <2>5. StartWrite(r)' \in writes' BY <1>1 DEF w0, StartWrite
  <2> QED BY <1>1, <2>1, <2>2, <2>4, <2>5 DEF Rows, Calm
<1>5. ASSUME r \notin (strayed \cup crossed)' PROVE Answering(r)'
  <2>1. Answering(r) BY <1>0, <1>5 DEF Good, Calm
  <2>2. CASE by' = by BY <1>0, <1>1, <2>1, <2>2, AnsweringFrame
  <2>3. CASE by' = [by EXCEPT ![r] = "executing"] /\ by[r] = "approved"
    <3>1. \A status : Says(r, status)' = Says(r, status) BY SameTables
    <3>2. FinishWrite("request", r)' = FinishWrite("request", r) BY DEF FinishWrite
    <3>3. by'[r] = "executing" BY <1>0, <2>3 DEF JournalTypeOK
    <3> QED BY <1>1, <2>1, <2>3, <3>1, <3>2, <3>3 DEF Answering
  <2> QED BY <2>2, <2>3
<1> QED BY <1>2, <1>3, <1>4, <1>5 DEF Good

LEMMA CallToolGood ==
  ASSUME JournalInv, NEW r \in Requests, CallTool(r)
  PROVE  JournalInv'
<1> USE DEF CallTool, ghostVars
<1>0. JournalTypeOK /\ ~Ended BY Quiet DEF JournalInv, Busy
<1>1. JournalTypeOK' BY <1>0 DEF JournalTypeOK, WritesOK, StartTool, StartWrite, Write, ToolStates, Over
<1>2. Calm /\ Ended' = Ended BY <1>0, JournalAssumption DEF Calm, JournalTypeOK, Ended
<1>3. AtRest' BY <1>0, <1>2 DEF AtRest
<1> QED BY <1>0, <1>1, <1>2, <1>3, StartToolGood, OneRequest

LEMMA DispatchGood ==
  ASSUME JournalInv, NEW r \in Requests, Dispatch(r)
  PROVE  JournalInv'
<1> USE DEF Dispatch, ghostVars, tableVars
<1>0. JournalTypeOK /\ Good(r) /\ Position(r) /\ ~Ended BY Quiet DEF JournalInv, Good, Over
<1>1. JournalTypeOK' BY <1>0 DEF JournalTypeOK, WritesOK, ToolStates, Over
<1>2. Calm /\ Ended' = Ended BY <1>0, JournalAssumption DEF Calm, JournalTypeOK, Ended
<1>3. AtRest' BY <1>0, <1>2 DEF AtRest
<1>4. \A q \in Requests \ {r} : Untouched(q) BY <1>0 DEF Untouched, JournalTypeOK
<1>5. tool'[r] = "running" BY <1>0 DEF JournalTypeOK
<1>6. \A w \in writes : w.of = r => w.from # "tool" BY DEF Pending
<1>7. \A w \in writes : w.of = r => w.op \notin {"start", "receipt"}
  BY <1>0, <1>6 DEF JournalTypeOK, WritesOK, BeginWrite, StartWrite, ReceiptWrites, FinishWrites, Write
<1>8. Position(r)' BY <1>0, <1>5, <1>7 DEF Position, Pending, ToolStates, Over
<1>9. ASSUME r \notin strayed' PROVE Rows(r)'
  <2>1. Rows(r) BY <1>0, <1>9 DEF Good
  <2>2. Tables' = Tables /\ HasStep(r)' = HasStep(r) BY <1>2, SameTables
  <2>3. StartWrite(r) \notin writes BY <1>6 DEF StartWrite, Write
  <2>4. step[r] # 0 BY <2>1, <2>3 DEF Rows
  <2>5. ASSUME NEW status, StatusOK(r, status) PROVE StatusOK(r, status)'
    BY <1>0, <1>5, <2>5 DEF StatusOK, Pending, Position
  <2>6. \A t \in Tables' : \A i \in DOMAIN t.steps :
          t.steps[i].of = r => i = step'[r] /\ StatusOK(r, t.steps[i].status)'
    BY <2>1, <2>2, <2>5 DEF Rows
  <2> QED BY <1>5, <2>1, <2>2, <2>4, <2>6 DEF Rows
<1>10. r \notin (strayed \cup crossed)' => Answering(r)' BY <1>0, <1>1, <1>2, AnsweringFrame DEF Good
<1> QED BY <1>1, <1>2, <1>3, <1>4, <1>8, <1>9, <1>10, OneRequest DEF Good

\* The write of a receipt, when there is a step to write it to.
LEMMA ReceiptWrite ==
  ASSUME JournalTypeOK, NEW r \in Requests, NEW status \in {"COMPLETED", "FAILED", "CANCELLED"}, Receipt(r, status)
  PROVE  /\ \A w \in writes' : w \in writes \/ (/\ w.of = r /\ w.from = "tool" /\ w.op = "receipt"
                                              /\ w.status = status /\ step[r] # 0)
         /\ writes \subseteq writes'
         /\ \A w \in writes' \ writes : w \in ReceiptWrites(r, step[r])
         /\ step[r] # 0 => Pending("tool", r)'
<1> DEFINE w0 == Write("tool", "receipt", r, status, step[r])
<1>1. /\ w0.of = r /\ w0.from = "tool" /\ w0.op = "receipt" /\ w0.status = status
      /\ w0 \in ReceiptWrites(r, step[r])
  BY DEF Write, ReceiptWrites
<1>2. writes' = IF step[r] = 0 THEN writes ELSE writes \cup {w0}
  BY DEF Receipt
<1> HIDE DEF w0
<1> QED BY <1>1, <1>2 DEF Pending

LEMMA ReturnGood ==
  ASSUME JournalInv, NEW r \in Requests, Return(r)
  PROVE  JournalInv'
<1> USE DEF Return
<1> PICK status \in {"COMPLETED", "FAILED"} : Receipt(r, status) /\ outcome' = [outcome EXCEPT ![r] = {status}]
  OBVIOUS
<1>0. JournalTypeOK /\ Good(r) /\ Position(r) /\ ~Ended BY Quiet DEF JournalInv, Good, Over
<1>1. /\ \A w \in writes' : w \in writes \/ (/\ w.of = r /\ w.from = "tool" /\ w.op = "receipt"
                                           /\ w.status = status /\ step[r] # 0)
      /\ writes \subseteq writes' /\ \A w \in writes' \ writes : w \in ReceiptWrites(r, step[r])
      /\ step[r] # 0 => Pending("tool", r)'
  BY <1>0, ReceiptWrite
<1>2. JournalTypeOK' BY <1>0, <1>1 DEF JournalTypeOK, WritesOK, ToolStates, Over
<1>3. Calm /\ Ended' = Ended BY <1>0, JournalAssumption DEF Calm, JournalTypeOK, Ended
<1>4. AtRest' BY <1>0, <1>3 DEF AtRest
<1>5. \A q \in Requests \ {r} : Untouched(q) BY <1>0, <1>1 DEF Untouched, JournalTypeOK
<1>6. tool'[r] = "receipt" /\ outcome'[r] = {status} BY <1>0 DEF JournalTypeOK
<1>7. Position(r)'
  <2>1. \A w \in writes' : w.of = r =>
          /\ at'[r] # "new" /\ w.op # "start"
          /\ w.op = "receipt" => step'[r] # 0 /\ w.status = status
    BY <1>0, <1>1, <1>6 DEF Position
  <2> QED BY <1>0, <1>6, <2>1 DEF Position
<1>8. ASSUME r \notin strayed' PROVE Rows(r)'
  <2>1. Rows(r) BY <1>0, <1>8 DEF Good, Calm
  <2>2. Tables' = Tables /\ HasStep(r)' = HasStep(r) BY <1>3, SameTables
  <2>3. step[r] # 0 /\ Pending("tool", r)' BY <1>1, <2>1 DEF Rows
  <2>4. ASSUME NEW s, StatusOK(r, s) PROVE StatusOK(r, s)'
    BY <1>0, <1>6, <2>3, <2>4 DEF StatusOK, Position, Over
  <2>5. \A t \in Tables' : \A i \in DOMAIN t.steps :
          t.steps[i].of = r => i = step'[r] /\ StatusOK(r, t.steps[i].status)'
    BY <2>1, <2>2, <2>4 DEF Rows
  <2> QED BY <1>6, <2>1, <2>2, <2>3, <2>5 DEF Rows
<1>9. r \notin (strayed \cup crossed)' => Answering(r)'
  BY <1>0, <1>1, <1>2, <1>3, AnsweringFrame DEF Good, Calm
<1> QED BY <1>2, <1>3, <1>4, <1>5, <1>7, <1>8, <1>9, OneRequest DEF Good

LEMMA RaiseGood ==
  ASSUME JournalInv, NEW r \in Requests, Raise(r)
  PROVE  JournalInv'
<1> USE DEF Raise
<1>0. JournalTypeOK /\ Good(r) /\ Position(r) /\ ~Ended BY Quiet DEF JournalInv, Good, Over
<1>1. /\ \A w \in writes' : w \in writes \/ (/\ w.of = r /\ w.from = "tool" /\ w.op = "receipt"
                                           /\ w.status = "FAILED" /\ step[r] # 0)
      /\ writes \subseteq writes' /\ \A w \in writes' \ writes : w \in ReceiptWrites(r, step[r])
      /\ step[r] # 0 => Pending("tool", r)'
  BY <1>0, ReceiptWrite
<1>12. budget' \in [Incidents \cup {"all"} -> Int] /\ budget'.crash = budget.crash
  BY <1>0, SpendType DEF Incidents
<1>6. tool'[r] = "failing" /\ outcome'[r] = outcome[r] \cup {"FAILED"} BY <1>0 DEF JournalTypeOK
<1>2. JournalTypeOK'
  <2>1. tool' \in [Requests -> ToolStates] BY <1>0 DEF JournalTypeOK, ToolStates
  <2>2. outcome' \in [Requests -> SUBSET {"COMPLETED", "FAILED"}] BY <1>0 DEF JournalTypeOK
  <2> QED BY <1>0, <1>1, <1>12, <2>1, <2>2 DEF JournalTypeOK, WritesOK, Incidents
<1>3. Calm /\ Ended' = Ended BY <1>0, <1>12, JournalAssumption DEF Calm, JournalTypeOK, Ended
<1>4. AtRest' BY <1>0, <1>3 DEF AtRest
<1>5. \A q \in Requests \ {r} : Untouched(q) BY <1>0, <1>1 DEF Untouched, JournalTypeOK
<1>10. \A w \in writes : w.of = r => w.from # "tool" BY DEF Pending
<1>11. \A w \in writes : w.of = r => w.op \notin {"start", "receipt"}
  BY <1>0, <1>10 DEF JournalTypeOK, WritesOK, BeginWrite, StartWrite, ReceiptWrites, FinishWrites, Write
<1>7. Position(r)'
  <2>1. \A w \in writes' : w.of = r =>
          /\ at'[r] # "new" /\ w.op # "start"
          /\ w.op = "receipt" => step'[r] # 0 /\ w.status = "FAILED"
    BY <1>0, <1>1, <1>11 DEF Position
  <2>2. "FAILED" \in outcome'[r] BY <1>6
  <2> QED BY <1>0, <1>6, <2>1, <2>2 DEF Position
<1>8. ASSUME r \notin strayed' PROVE Rows(r)'
  <2>1. Rows(r) BY <1>0, <1>8 DEF Good, Calm
  <2>2. Tables' = Tables /\ HasStep(r)' = HasStep(r) BY <1>3, SameTables
  <2>3. StartWrite(r) \notin writes BY <1>10 DEF StartWrite, Write
  <2>4. step[r] # 0 /\ Pending("tool", r)' BY <1>1, <2>1, <2>3 DEF Rows
  <2>5. ASSUME NEW s, StatusOK(r, s) PROVE StatusOK(r, s)'
    <3>1. s # "CANCELLED" BY <2>5 DEF StatusOK
    <3> QED BY <1>6, <2>4, <2>5, <3>1 DEF StatusOK
  <2>6. \A t \in Tables' : \A i \in DOMAIN t.steps :
          t.steps[i].of = r => i = step'[r] /\ StatusOK(r, t.steps[i].status)'
    BY <2>1, <2>2, <2>5 DEF Rows
  <2> QED BY <1>6, <2>1, <2>2, <2>4, <2>6 DEF Rows
<1>9. r \notin (strayed \cup crossed)' => Answering(r)'
  BY <1>0, <1>1, <1>2, <1>3, AnsweringFrame DEF Good, Calm
<1> QED BY <1>2, <1>3, <1>4, <1>5, <1>7, <1>8, <1>9, OneRequest DEF Good

LEMMA SettleGood ==
  ASSUME JournalInv, NEW r \in Requests, Settle(r)
  PROVE  JournalInv'
<1> USE DEF Settle, ghostVars
<1>0. JournalTypeOK /\ Good(r) /\ Position(r) /\ ~Ended BY Quiet DEF JournalInv, Good, Over
<1>1. /\ \A w \in writes' : w \in writes \/ (/\ w.of = r /\ w.from = "tool" /\ w.op = "receipt"
                                           /\ w.status = "CANCELLED" /\ step[r] # 0 /\ outcome[r] = {})
      /\ writes \subseteq writes' /\ \A w \in writes' \ writes : w \in ReceiptWrites(r, step[r])
      /\ step[r] # 0 /\ outcome[r] = {} => Pending("tool", r)'
  BY <1>0, ReceiptWrite
<1>2. JournalTypeOK' BY <1>0, <1>1 DEF JournalTypeOK, WritesOK, ToolStates, Over
<1>3. Calm /\ Ended' = Ended BY <1>0, JournalAssumption DEF Calm, JournalTypeOK, Ended
<1>4. AtRest' BY <1>0, <1>3 DEF AtRest
<1>5. \A q \in Requests \ {r} : Untouched(q) BY <1>0, <1>1 DEF Untouched, JournalTypeOK
<1>6. tool'[r] = "settled" BY <1>0 DEF JournalTypeOK
<1>7. \A w \in writes : w.of = r => w.from # "tool" BY DEF Pending
<1>8. \A w \in writes : w.of = r => w.op \notin {"start", "receipt"}
  BY <1>0, <1>7 DEF JournalTypeOK, WritesOK, BeginWrite, StartWrite, ReceiptWrites, FinishWrites, Write
<1>9. Position(r)'
  <2>1. \A w \in writes' : w.of = r =>
          /\ at'[r] # "new" /\ w.op # "start"
          /\ w.op = "receipt" => step'[r] # 0 /\ outcome'[r] = {} /\ w.status = "CANCELLED"
    BY <1>0, <1>1, <1>8 DEF Position
  <2> QED BY <1>0, <1>6, <2>1 DEF Position
<1>10. ASSUME r \notin strayed' PROVE Rows(r)'
  <2>1. Rows(r) BY <1>0, <1>10 DEF Good, Calm
  <2>2. Tables' = Tables /\ HasStep(r)' = HasStep(r) BY <1>3, SameTables
  <2>3. StartWrite(r) \notin writes BY <1>7 DEF StartWrite, Write
  <2>4. step[r] # 0 BY <2>1, <2>3 DEF Rows
  <2>5. ASSUME NEW s, StatusOK(r, s) PROVE StatusOK(r, s)'
    <3>1. ~Pending("tool", r) /\ tool[r] = "settling" BY DEF Pending
    <3>2. outcome[r] \subseteq {"COMPLETED", "FAILED"} BY <1>0 DEF JournalTypeOK
    <3>3. outcome[r] = {} => Pending("tool", r)' BY <1>1, <2>4
    <3>4. outcome[r] # {} => s \in outcome[r] BY <2>5, <3>1 DEF StatusOK
    <3> QED BY <1>6, <2>5, <3>1, <3>2, <3>3, <3>4 DEF StatusOK
  <2>6. \A t \in Tables' : \A i \in DOMAIN t.steps :
          t.steps[i].of = r => i = step'[r] /\ StatusOK(r, t.steps[i].status)'
    BY <2>1, <2>2, <2>5 DEF Rows
  <2> QED BY <1>6, <2>1, <2>2, <2>4, <2>6 DEF Rows
<1>11. r \notin (strayed \cup crossed)' => Answering(r)'
  BY <1>0, <1>1, <1>2, <1>3, AnsweringFrame DEF Good, Calm
<1> QED BY <1>2, <1>3, <1>4, <1>5, <1>9, <1>10, <1>11, OneRequest DEF Good

LEMMA ToolOverGood ==
  ASSUME JournalInv, NEW r \in Requests, ToolOver(r)
  PROVE  JournalInv'
<1> USE DEF ToolOver, ghostVars, tableVars
<1>0. JournalTypeOK /\ Good(r) /\ Position(r) /\ ~Ended BY Quiet DEF JournalInv, Good, Over
<1>1. JournalTypeOK' BY <1>0 DEF JournalTypeOK, WritesOK, ToolStates, Over
<1>2. Calm /\ Ended' = Ended BY <1>0, JournalAssumption DEF Calm, JournalTypeOK, Ended
<1>3. AtRest' BY <1>0, <1>2 DEF AtRest
<1>4. \A q \in Requests \ {r} : Untouched(q) BY <1>0 DEF Untouched, JournalTypeOK
<1>5. tool'[r] = IF tool[r] = "failing" THEN "raised" ELSE "over" BY <1>0 DEF JournalTypeOK
<1>6. \A w \in writes : w.of = r => w.from # "tool" BY DEF Pending
<1>7. \A w \in writes : w.of = r => w.op \notin {"start", "receipt"}
  BY <1>0, <1>6 DEF JournalTypeOK, WritesOK, BeginWrite, StartWrite, ReceiptWrites, FinishWrites, Write
<1>8. Position(r)' BY <1>0, <1>5, <1>7 DEF Position, Over
<1>9. ASSUME r \notin strayed' PROVE Rows(r)'
  <2>1. Rows(r) BY <1>0, <1>9 DEF Good
  <2>2. Tables' = Tables /\ HasStep(r)' = HasStep(r) BY <1>2, SameTables
  <2>3. ASSUME NEW s, StatusOK(r, s) PROVE StatusOK(r, s)'
    BY <1>0, <1>5, <1>6, <2>3 DEF StatusOK, Pending
  <2>4. \A t \in Tables' : \A i \in DOMAIN t.steps :
          t.steps[i].of = r => i = step'[r] /\ StatusOK(r, t.steps[i].status)'
    BY <2>1, <2>2, <2>3 DEF Rows
  <2> QED BY <1>5, <2>1, <2>2, <2>4 DEF Rows
<1>10. r \notin (strayed \cup crossed)' => Answering(r)' BY <1>0, <1>1, <1>2, AnsweringFrame DEF Good
<1> QED BY <1>1, <1>2, <1>3, <1>4, <1>8, <1>9, <1>10, OneRequest DEF Good

--------------------------------------------------------------------------------
(* Its confirmation *)

LEMMA AskConfirmationGood ==
  ASSUME JournalInv, NEW r \in Requests, AskConfirmation(r)
  PROVE  JournalInv'
<1> USE DEF AskConfirmation, ghostVars
<1>0. JournalTypeOK /\ Good(r) /\ Position(r) /\ ~Ended /\ "WAITING" \in Replies
  BY Quiet DEF JournalInv, Good, Busy, Replies
<1>1. JournalTypeOK' BY <1>0, EndRequestType DEF JournalTypeOK
<1>2. Calm /\ Ended' = Ended BY <1>0, JournalAssumption DEF Calm, JournalTypeOK, Ended
<1>3. AtRest' BY <1>0, <1>2 DEF AtRest
<1>4. \A q \in Requests \ {r} : Untouched(q)
  BY <1>0 DEF Untouched, JournalTypeOK, EndRequest, Write
<1>5. by'[r] = "open" /\ at'[r] = "ending" BY <1>0 DEF JournalTypeOK, EndRequest
<1>6. \A w \in writes' : w \in writes \/ (w.from = "request" /\ w.op = "finish") BY DEF EndRequest, Write
<1>7. Position(r)'
  <2>1. tool[r] = "none" BY <1>0 DEF Position
  <2>2. ~Pending("tool", r)' BY <1>0, <1>6, <2>1 DEF Position, Pending
  <2> QED BY <1>0, <1>5, <1>6, <2>1, <2>2 DEF Position
<1>8. r \notin strayed' => Rows(r)'
  BY <1>0, <1>1, <1>2, <1>6, RowsFrame DEF Good, EndRequest
<1>9. r \notin (strayed \cup crossed)' => Answering(r)'
  BY <1>0, <1>1, <1>2, EndRequestGood
<1> QED BY <1>1, <1>2, <1>3, <1>4, <1>7, <1>8, <1>9, OneRequest DEF Good

LEMMA DecideGood ==
  ASSUME JournalInv, NEW r \in Requests, Decide(r)
  PROVE  JournalInv'
<1> USE DEF Decide, tableVars, Withdraw
<1>0. JournalTypeOK /\ Good(r) /\ Position(r) /\ ~Ended BY DEF JournalInv, Good, Ended
<1>1. JournalTypeOK' BY <1>0 DEF JournalTypeOK, WritesOK
<1>2. Calm /\ Ended' = Ended BY <1>0, JournalAssumption DEF Calm, JournalTypeOK, Ended
<1>3. AtRest' BY <1>0, <1>2 DEF AtRest
<1>4. \A q \in Requests \ {r} : Untouched(q)
  BY <1>0 DEF Untouched, JournalTypeOK
<1>5. by'[r] \in {"approved", "denied"} BY <1>0 DEF JournalTypeOK
<1>6. Position(r)' BY <1>0, <1>5 DEF Position, Pending
<1>7. r \notin strayed' => Rows(r)' BY <1>0, <1>1, <1>2, RowsFrame DEF Good
<1>8. ASSUME r \notin (strayed \cup crossed)' PROVE Answering(r)'
  <2>1. Answering(r) /\ at[r] # "ending" BY <1>0, <1>8 DEF Good
  <2>2. \A status : Says(r, status)' = Says(r, status) BY <1>2, SameTables
  <2> QED BY <1>0, <1>5, <2>1, <2>2 DEF Answering
<1> QED BY <1>1, <1>2, <1>3, <1>4, <1>6, <1>7, <1>8, OneRequest DEF Good

\* What is said of the end of a confirmation, when it is concluded.
LEMMA ConcludeGood ==
  ASSUME JournalInv, JournalTypeOK', NEW r \in Requests, NEW status \in Replies \ {"WAITING"}, Conclude(r, status),
         ~Ended, Calm, at' = at, step' = step, by[r] \in {"open", "approved", "denied", "executing"},
         by' = [by EXCEPT ![r] = "concluding"],
         r \notin (strayed \cup crossed)', at[r] # "ending"
  PROVE  Answering(r)'
<1> DEFINE w0 == Write("decider", "finish", r, status, 0)
<1>1. Answering(r) /\ Position(r) /\ JournalTypeOK BY DEF JournalInv, Good, Calm
<1>2. writes' = writes \cup {w0} /\ answer'[r] = status /\ by'[r] = "concluding"
  BY <1>1 DEF Conclude, JournalTypeOK
<1>3. /\ w0.of = r /\ w0.from = "decider" /\ w0.op = "finish" /\ w0.status = status
  BY EndWrite
<1>4. FinishWrite("decider", r)' = w0 BY <1>2 DEF FinishWrite
<1>5. \A w \in writes : w.of = r => w.op # "finish"
  <2> SUFFICES ASSUME NEW w \in writes, w.of = r, w.op = "finish" PROVE FALSE OBVIOUS
  <2>1. w.from \in {"request", "decider"}
    BY <1>1 DEF JournalTypeOK, WritesOK, BeginWrite, StartWrite, ReceiptWrites, FinishWrites, Write
  <2> QED BY <1>1, <2>1 DEF Answering
<1> HIDE DEF w0
<1>6. status # "none" BY DEF Replies
<1>7. \A w \in writes' : w.of = r /\ w.op = "finish" => w = w0 BY <1>2, <1>5
<1>8. \A w \in writes' : w.of = r /\ w.op = "begin" => at[r] = "beginning"
  BY <1>1, <1>2, <1>3 DEF Answering
<1> QED BY <1>2, <1>3, <1>4, <1>6, <1>7, <1>8 DEF Answering

\* And what else is said of a request then.
LEMMA ConcludeOthers ==
  ASSUME JournalInv, NEW r \in Requests, NEW status \in Replies \ {"WAITING"}, Conclude(r, status), ~Ended, Calm,
         UNCHANGED <<core, private, saved, at, tool, step, stopping, outcome, strayed, budget>>,
         by' = [by EXCEPT ![r] = "concluding"], by[r] \in {"open", "approved", "denied", "executing"},
         crossed' \in {crossed, crossed \cup {r}}, scope' = scope
  PROVE  /\ JournalTypeOK' /\ AtRest' /\ Position(r)' /\ (r \notin strayed' => Rows(r)')
         /\ \A q \in Requests \ {r} : Untouched(q)
<1> DEFINE w0 == Write("decider", "finish", r, status, 0)
<1>0. JournalTypeOK /\ Good(r) /\ Position(r) BY DEF JournalInv, Good
<1>1. /\ w0.of = r /\ w0.from = "decider" /\ w0.op = "finish" /\ w0.status = status /\ w0 \in FinishWrites(r)
  BY EndWrite
<1>2. writes' = writes \cup {w0} /\ answer' = [answer EXCEPT ![r] = status] /\ by'[r] = "concluding"
  BY <1>0 DEF Conclude, JournalTypeOK
<1> HIDE DEF w0
<1>3. JournalTypeOK'
  <2>1. WritesOK' BY <1>0, <1>1, <1>2 DEF JournalTypeOK, WritesOK
  <2> QED BY <1>0, <1>2, <2>1 DEF JournalTypeOK, Calm
<1>4. AtRest' BY DEF AtRest, Ended
<1>5. \A q \in Requests \ {r} : Untouched(q)
  BY <1>0, <1>1, <1>2 DEF Untouched, JournalTypeOK
<1>6. Position(r)'
  <2>1. tool[r] = "none" => ~Pending("tool", r)' BY <1>0, <1>1, <1>2 DEF Position, Pending
  <2>2. \A w \in writes' : w.of = r => w \in writes \/ w.op = "finish" BY <1>1, <1>2
  <2>3. at[r] \in {"ending", "done"} BY <1>0 DEF Position
  <2> QED BY <1>0, <1>2, <2>1, <2>2, <2>3 DEF Position, Calm
<1>7. r \notin strayed' => Rows(r)'
  BY <1>0, <1>1, <1>2, <1>3, RowsFrame DEF Good
<1> QED BY <1>3, <1>4, <1>5, <1>6, <1>7

LEMMA WithdrawnGood ==
  ASSUME JournalInv, NEW r \in Requests, core = "up", Withdraw(r, "concluding"),
         NEW status \in Replies \ {"WAITING"}, Conclude(r, status),
         UNCHANGED <<core, disk, ram, private, saved, at, tool, step, stopping, scope, outcome, strayed, budget>>
  PROVE  JournalInv'
<1> USE DEF Withdraw
<1>0. JournalTypeOK /\ ~Ended BY DEF JournalInv, Ended
<1>1. Calm BY <1>0, JournalAssumption DEF Calm, JournalTypeOK, Ended
<1>2. /\ JournalTypeOK' /\ AtRest' /\ Position(r)' /\ (r \notin strayed' => Rows(r)')
      /\ \A q \in Requests \ {r} : Untouched(q)
  BY <1>0, <1>1, ConcludeOthers
<1>3. ASSUME r \notin (strayed \cup crossed)' PROVE Answering(r)'
  <2>1. at[r] # "ending" BY <1>3
  <2> QED BY <1>0, <1>1, <1>2, <1>3, <2>1, ConcludeGood
<1> QED BY <1>1, <1>2, <1>3, OneRequest DEF Good

LEMMA ExpireGood ==
  ASSUME JournalInv, NEW r \in Requests, Expire(r)
  PROVE  JournalInv'
<1>1. "EXPIRED" \in Replies \ {"WAITING"} BY DEF Replies
<1> QED BY <1>1, WithdrawnGood DEF Expire

LEMMA WithdrawOpenGood ==
  ASSUME JournalInv, NEW r \in Requests, WithdrawOpen(r)
  PROVE  JournalInv'
<1>1. "CANCELLED" \in Replies \ {"WAITING"} BY DEF Replies
<1> QED BY <1>1, WithdrawnGood DEF WithdrawOpen

LEMMA DecidedGood ==
  ASSUME JournalInv, NEW r \in Requests, Decided(r)
  PROVE  JournalInv'
<1> USE DEF Decided, ghostVars
<1>0. JournalTypeOK /\ Good(r) /\ Position(r) /\ ~Ended BY Quiet DEF JournalInv, Good
<1>1. Calm /\ Ended' = Ended BY <1>0, JournalAssumption DEF Calm, JournalTypeOK, Ended
<1>2. AtRest' BY <1>0, <1>1 DEF AtRest
<1>3. /\ UNCHANGED <<disk, ram, private, saved, at, step, stopping, scope, outcome, strayed, crossed, budget, core>>
      /\ at[r] \in {"ending", "done"} /\ tool[r] = "none" /\ r \in Confirmed
  BY <1>0 DEF Position, JournalTypeOK
<1>4. CASE /\ by[r] = "approved" /\ by' = [by EXCEPT ![r] = "executing"] /\ UNCHANGED answer /\ StartTool(r)
  <2>1. JournalTypeOK' BY <1>0, <1>3, <1>4 DEF JournalTypeOK, WritesOK, StartTool, StartWrite, Write, ToolStates, Over
  <2> QED BY <1>0, <1>1, <1>2, <1>3, <1>4, <2>1, StartToolGood, OneRequest
<1>5. CASE /\ by[r] = "approved" /\ by' = [by EXCEPT ![r] = "executing"]
           /\ tool' = [tool EXCEPT ![r] = "over"] /\ UNCHANGED <<answer, writes>>
  <2>1. JournalTypeOK' BY <1>0, <1>3, <1>5 DEF JournalTypeOK, WritesOK, ToolStates, Over
  <2>2. \A q \in Requests \ {r} : Untouched(q) BY <1>0, <1>3, <1>5 DEF Untouched, JournalTypeOK
  <2>3. by'[r] = "executing" /\ tool'[r] = "over" BY <1>0, <1>5 DEF JournalTypeOK
  <2>4. Position(r)' BY <1>0, <1>3, <1>5, <2>3 DEF Position
  <2>5. ASSUME r \notin strayed' PROVE Rows(r)'
    <3>1. Rows(r) /\ step[r] = 0 /\ outcome[r] = {} /\ ~HasStep(r)'
      <4>1. Rows(r) /\ step[r] = 0 /\ outcome[r] = {} BY <1>0, <1>3, <2>5 DEF Good, Position
      <4>2. Tables' = Tables BY <1>1, SameTables
      <4>3. \A t \in Tables : \A i \in DOMAIN t.steps : i # 0
        BY <1>0 DEF Tables, JournalTypeOK, Table
      <4> QED BY <4>1, <4>2, <4>3 DEF Rows, HasStep
    <3> QED BY <1>1, <1>3, <2>3, <3>1 DEF Rows, HasStep, Calm
  <2>6. ASSUME r \notin (strayed \cup crossed)' PROVE Answering(r)'
    <3>1. \A status : Says(r, status)' = Says(r, status) BY <1>1, SameTables
    <3>2. Answering(r) BY <1>0, <1>3, <2>6 DEF Good
    <3> QED BY <1>0, <1>3, <1>5, <2>3, <3>1, <3>2 DEF Answering
  <2> QED BY <1>1, <1>2, <2>1, <2>2, <2>4, <2>5, <2>6, OneRequest DEF Good
<1>6. ASSUME NEW status \in {"CANCELLED", "DENIED"}, by' = [by EXCEPT ![r] = "concluding"], UNCHANGED tool,
             Conclude(r, status)
      PROVE  JournalInv'
  <2>1. status \in Replies \ {"WAITING"} BY DEF Replies
  <2>2. /\ JournalTypeOK' /\ AtRest' /\ Position(r)' /\ (r \notin strayed' => Rows(r)')
        /\ \A q \in Requests \ {r} : Untouched(q)
    BY <1>0, <1>1, <1>3, <1>6, <2>1, ConcludeOthers
  <2>3. ASSUME r \notin (strayed \cup crossed)' PROVE Answering(r)'
    <3>1. at[r] # "ending" BY <1>0, <1>3, <2>3 DEF Good, Answering
    <3> QED BY <1>0, <1>1, <1>3, <1>6, <2>1, <2>2, <2>3, <3>1, ConcludeGood
  <2> QED BY <1>1, <2>2, <2>3, OneRequest DEF Good
<1> QED BY <1>4, <1>5, <1>6

LEMMA ExecutedGood ==
  ASSUME JournalInv, NEW r \in Requests, Executed(r)
  PROVE  JournalInv'
<1> USE DEF Executed
<1>0. JournalTypeOK /\ Good(r) /\ Position(r) /\ ~Ended BY Quiet DEF JournalInv, Good
<1>1. Calm /\ Ended' = Ended BY <1>0, JournalAssumption DEF Calm, JournalTypeOK, Ended
<1>2. AtRest' BY <1>0, <1>1 DEF AtRest
<1>3. at[r] \in {"ending", "done"} BY <1>0 DEF Position, JournalTypeOK
<1>4. ASSUME NEW status \in {"EXECUTED", "FAILED", "CANCELLED"}, by' = [by EXCEPT ![r] = "concluding"],
             crossed' = crossed, Conclude(r, status)
      PROVE  JournalInv'
  <2>1. status \in Replies \ {"WAITING"} BY DEF Replies
  <2>2. /\ JournalTypeOK' /\ AtRest' /\ Position(r)' /\ (r \notin strayed' => Rows(r)')
        /\ \A q \in Requests \ {r} : Untouched(q)
    BY <1>0, <1>1, <1>3, <1>4, <2>1, ConcludeOthers
  <2>3. ASSUME r \notin (strayed \cup crossed)' PROVE Answering(r)'
    <3>1. at[r] # "ending" BY <1>0, <1>4, <2>3 DEF Good, Answering
    <3> QED BY <1>0, <1>1, <1>3, <1>4, <2>1, <2>2, <2>3, <3>1, ConcludeGood
  <2> QED BY <1>1, <2>2, <2>3, OneRequest DEF Good
<1>5. CASE by' = [by EXCEPT ![r] = "done"] /\ crossed' = crossed \cup {r} /\ UNCHANGED <<writes, answer>>
  <2>1. JournalTypeOK' BY <1>0, <1>5 DEF JournalTypeOK, WritesOK
  <2>2. \A q \in Requests \ {r} : Untouched(q) BY <1>0, <1>5 DEF Untouched, JournalTypeOK
  <2>3. by'[r] = "done" BY <1>0, <1>5 DEF JournalTypeOK
  <2>4. Position(r)' BY <1>0, <1>5, <2>3 DEF Position, Pending
  <2>5. r \notin strayed' => Rows(r)' BY <1>0, <1>1, <1>5, <2>1, RowsFrame DEF Good
  <2> QED BY <1>1, <1>2, <1>5, <2>1, <2>2, <2>4, <2>5, OneRequest DEF Good
<1>7. \/ tool[r] = "cut" \/ outcome[r] = {}
      \/ ~(tool[r] = "cut" \/ outcome[r] = {}) /\ outcome[r] = {"FAILED"}
      \/ ~(tool[r] = "cut" \/ outcome[r] = {}) /\ ~(outcome[r] = {"FAILED"})
  OBVIOUS
<1>6. ASSUME by' = [by EXCEPT ![r] = "concluding"], crossed' = crossed,
             Conclude(r, CASE tool[r] = "cut" \/ outcome[r] = {} -> "CANCELLED"
                           [] outcome[r] = {"FAILED"} -> "FAILED" [] OTHER -> "EXECUTED")
      PROVE  JournalInv'
  <2>1. (CASE tool[r] = "cut" \/ outcome[r] = {} -> "CANCELLED"
           [] outcome[r] = {"FAILED"} -> "FAILED" [] OTHER -> "EXECUTED")
          \in {"EXECUTED", "FAILED", "CANCELLED"}
    BY <1>7
  <2> QED BY <1>4, <1>6, <2>1
<1> QED BY <1>5, <1>6

LEMMA ConcludedGood ==
  ASSUME JournalInv, NEW r \in Requests, Concluded(r)
  PROVE  JournalInv'
<1> USE DEF Concluded, tableVars, ghostVars
<1>0. JournalTypeOK /\ Good(r) /\ Position(r) /\ ~Ended BY Quiet DEF JournalInv, Good
<1>1. JournalTypeOK' BY <1>0 DEF JournalTypeOK, WritesOK
<1>2. Calm /\ Ended' = Ended BY <1>0, JournalAssumption DEF Calm, JournalTypeOK, Ended
<1>3. AtRest' BY <1>0, <1>2 DEF AtRest
<1>4. \A q \in Requests \ {r} : Untouched(q) BY <1>0 DEF Untouched, JournalTypeOK
<1>5. by'[r] = "done" BY <1>0 DEF JournalTypeOK
<1>6. Position(r)' BY <1>0, <1>5 DEF Position, Pending
<1>7. r \notin strayed' => Rows(r)' BY <1>0, <1>1, <1>2, RowsFrame DEF Good
<1>8. ASSUME r \notin (strayed \cup crossed)' PROVE Answering(r)'
  <2>1. \A status : Says(r, status)' = Says(r, status) BY <1>2, SameTables
  <2>2. Answering(r) /\ at[r] = "done"
    BY <1>0, <1>8 DEF Good, Answering, Position
  <2>3. \A w \in writes : w.of = r => w.from # "decider" BY DEF Pending
  <2>4. FinishWrite("decider", r) \notin writes BY <2>3 DEF FinishWrite, Write
  <2>5. Says(r, answer[r]) /\ answer[r] # "none" /\ answer[r] # "WAITING" BY <2>2, <2>4 DEF Answering
  <2>6. disk.task[r] \notin Unfinished /\ ram.task[r] \notin Unfinished
    <3>1. answer[r] \notin {"WAITING", "RUNNING", "absent"}
      BY <1>0, <2>5 DEF JournalTypeOK, Replies
    <3>2. disk.task[r] = answer[r] \/ ram.task[r] = answer[r] BY <2>5 DEF Says, Tables
    <3>3. disk.task[r] = "absent" \/ ram.task[r] = "absent" BY <1>0, <1>8 DEF Good, Rows
    <3> QED BY <3>1, <3>2, <3>3 DEF Unfinished
  <2>7. ASSUME NEW w \in writes, w.of = r PROVE w.op # "finish"
    <3>1. w.op = "finish" => w.from \in {"request", "decider"}
      BY <1>0 DEF JournalTypeOK, WritesOK, BeginWrite, StartWrite, ReceiptWrites, FinishWrites, Write
    <3> QED BY <2>2, <2>3, <2>7, <3>1 DEF Answering
  <2>8. \A w \in writes' : w.of = r => w.op # "finish" /\ (w.op = "begin" => at[r] = "beginning")
    BY <2>2, <2>7 DEF Answering
  <2> QED BY <1>2, <1>5, <2>1, <2>2, <2>5, <2>6, <2>8 DEF Answering, Calm
<1> QED BY <1>1, <1>2, <1>3, <1>4, <1>6, <1>7, <1>8, OneRequest DEF Good

--------------------------------------------------------------------------------
(* Stops and the privacy mode *)

LEMMA BeginStopGood ==
  ASSUME JournalInv, NEW kind \in {"stop", "change"}, BeginStop(kind)
  PROVE  JournalInv'
<1> USE DEF BeginStop, tableVars, ghostVars
<1>0. JournalTypeOK /\ ~Ended BY DEF JournalInv, Ended
<1>1. /\ budget' \in [Incidents \cup {"all"} -> Int] /\ budget'.crash = budget.crash
  BY <1>0, SpendType DEF Incidents
<1>2. tool' = [r \in Requests |-> Cut(tool[r])] BY DEF CancelTools
<1>7. PICK lost \in SUBSET {w \in writes : w.from = "tool" /\ tool[w.of] = "failing"} : writes' = writes \ lost
  BY DEF CancelTools
<1>3. JournalTypeOK'
  <2>1. \A r \in Requests : Cut(tool[r]) \in ToolStates BY <1>0 DEF JournalTypeOK, Cut, ToolStates, Over
  <2>2. tool' \in [Requests -> ToolStates] BY <1>2, <2>1
  <2>3. WritesOK' BY <1>0, <1>7 DEF JournalTypeOK, WritesOK
  <2> QED BY <1>0, <1>1, <2>2, <2>3 DEF JournalTypeOK, Incidents
<1>4. Calm /\ Ended' = Ended BY <1>0, <1>1 DEF Calm, JournalTypeOK, Ended
<1>5. AtRest' BY <1>0, <1>4 DEF AtRest
<1>6. ASSUME NEW r \in Requests PROVE Good(r)'
  <2>0. Good(r) /\ Position(r) BY DEF JournalInv, Good
  <2>1. tool'[r] = Cut(tool[r]) BY <1>2
  <2>5. \A w \in writes' : w \in writes BY <1>7
  <2>6. \A w \in writes : w.of = r => w \in writes' \/ (w.from = "tool" /\ tool[r] = "failing") BY <1>7
  <2>2. Position(r)'
    <3>1. /\ tool[r] \in {"recording", "running", "receipt"} => tool'[r] = "settling"
          /\ tool[r] = "failing" => tool'[r] = "cut"
          /\ tool[r] \notin {"recording", "running", "receipt", "failing"} => tool'[r] = tool[r]
      BY <2>1 DEF Cut
    <3>2. ~Pending("tool", r) => ~Pending("tool", r)' BY <2>5 DEF Pending
    <3> QED BY <2>0, <2>5, <3>1, <3>2 DEF Position, Over
  <2>3. ASSUME r \notin strayed' PROVE Rows(r)'
    BY <1>0, <1>3, <1>4, <2>0, <2>1, <2>3, <2>5, <2>6, CutRows DEF Good
  <2>4. ASSUME r \notin (strayed \cup crossed)' PROVE Answering(r)'
    <3>1. \A w \in writes : w.from = "tool" => w.op \notin {"begin", "finish"}
      BY <1>0 DEF JournalTypeOK, WritesOK, BeginWrite, StartWrite, ReceiptWrites, FinishWrites, Write
    <3> QED BY <1>0, <1>3, <1>4, <2>0, <2>4, <2>5, <2>6, <3>1, AnsweringFrame DEF Good
  <2> QED BY <2>2, <2>3, <2>4 DEF Good
<1> QED BY <1>3, <1>5, <1>6 DEF JournalInv

\* The end of a stop, the save of the mode and the lock change nothing here.
LEMMA QuietStepGood ==
  ASSUME JournalInv, \/ EndStop \/ SaveMode \/ Start \/ UNCHANGED vars
  PROVE  JournalInv'
<1> USE DEF EndStop, SaveMode, Start, vars, tableVars, ghostVars
<1>0. JournalTypeOK BY DEF JournalInv
<1>1. /\ UNCHANGED <<disk, ram, private, writes, at, by, tool, step, answer, outcome, strayed, crossed, budget>>
      /\ Ended' = Ended
  BY DEF Ended
<1>2. JournalTypeOK' BY <1>0 DEF JournalTypeOK, WritesOK
<1>3. Calm BY <1>0, <1>1, JournalAssumption DEF Calm, JournalTypeOK
<1>4. AtRest' BY <1>1 DEF AtRest, JournalInv
<1> QED BY <1>1, <1>2, <1>3, <1>4, NoRequest DEF Untouched

--------------------------------------------------------------------------------
(* What the methods of the journal do to a table *)

Row == [of : Requests, status : StepStatuses]

LEMMA TableFields ==
  ASSUME NEW t \in Table
  PROVE  /\ t.task \in [Requests -> TaskStatuses] /\ t.steps \in Seq(Row)
         /\ DOMAIN t.steps = 1..Len(t.steps) /\ Len(t.steps) \in Nat
         /\ \A i \in DOMAIN t.steps : t.steps[i] \in Row /\ t.steps[i].of \in Requests /\ t.steps[i].status \in StepStatuses
         /\ t = [task |-> t.task, steps |-> t.steps]
<1>1. t.task \in [Requests -> TaskStatuses] /\ t.steps \in Seq(Row) /\ t = [task |-> t.task, steps |-> t.steps]
  BY DEF Table, Row
<1>2. DOMAIN t.steps = 1..Len(t.steps) /\ Len(t.steps) \in Nat /\ \A i \in DOMAIN t.steps : t.steps[i] \in Row
  BY <1>1, ElementOfSeq
<1> QED BY <1>1, <1>2 DEF Row

LEMMA MakeTable ==
  ASSUME NEW n \in Nat, NEW steps, DOMAIN steps = 1..n, steps = [i \in DOMAIN steps |-> steps[i]],
         \A i \in 1..n : steps[i] \in Row,
         NEW task \in [Requests -> TaskStatuses]
  PROVE  [task |-> task, steps |-> steps] \in Table /\ Len(steps) = n
<1>1. steps \in [1..n -> Row] OBVIOUS
<1>2. steps \in Seq(Row) BY <1>1, SeqDef
<1> QED BY <1>2 DEF Table, Row

LEMMA EmptyEffect == EmptyTable \in Table /\ Rooted(EmptyTable) /\ DOMAIN EmptyTable.steps = {}
                     /\ \A r \in Requests : EmptyTable.task[r] = "absent"
BY DEF EmptyTable, Table, Rooted, TaskStatuses

LEMMA BeginEffect ==
  ASSUME NEW t \in Table, Rooted(t), NEW r \in Requests
  PROVE  /\ Begin(t, r) \in Table /\ Rooted(Begin(t, r))
         /\ Begin(t, r).task = [t.task EXCEPT ![r] = "RUNNING"] /\ Begin(t, r).steps = t.steps
<1>1. Begin(t, r) = [task |-> [t.task EXCEPT ![r] = "RUNNING"], steps |-> t.steps]
  BY TableFields DEF Begin
<1> QED BY <1>1, TableFields DEF Table, Row, Rooted, TaskStatuses

LEMMA StartEffect ==
  ASSUME NEW t \in Table, Rooted(t), NEW r \in Requests, t.task[r] # "absent"
  PROVE  LET c == StartStep(t, r)
             n == Len(t.steps) + 1
         IN /\ c \in Table /\ Rooted(c) /\ c.task = t.task
            /\ DOMAIN c.steps = DOMAIN t.steps \cup {n} /\ n \notin DOMAIN t.steps /\ n \in Nat \ {0}
            /\ c.steps[n].of = r /\ c.steps[n].status = "RUNNING"
            /\ \A i \in DOMAIN t.steps : c.steps[i] = t.steps[i]
<1> DEFINE row == [of |-> r, status |-> "RUNNING"]
<1>1. StartStep(t, r) = [task |-> t.task, steps |-> Append(t.steps, row)]
  <2>1. t = [task |-> t.task, steps |-> t.steps] BY TableFields
  <2>2. StartStep(t, r) = [t EXCEPT !.steps = Append(t.steps, row)] BY DEF StartStep
  <2> HIDE DEF row
  <2> QED BY <2>1, <2>2
<1>2. row \in Row /\ row.of = r /\ row.status = "RUNNING" BY DEF Row, StepStatuses
<1> HIDE DEF row
<1>3. t.steps \in Seq(Row) /\ DOMAIN t.steps = 1..Len(t.steps) /\ Len(t.steps) \in Nat BY TableFields
<1>4. /\ Append(t.steps, row) \in Seq(Row) /\ Len(Append(t.steps, row)) = Len(t.steps) + 1
      /\ \A i \in 1..Len(t.steps) : Append(t.steps, row)[i] = t.steps[i]
      /\ Append(t.steps, row)[Len(t.steps) + 1] = row
  BY <1>2, <1>3, AppendProperties
<1>5. DOMAIN Append(t.steps, row) = 1..(Len(t.steps) + 1) BY <1>4
<1>6. StartStep(t, r) \in Table BY <1>1, <1>4, TableFields DEF Table, Row
<1>7. 1..(Len(t.steps) + 1) = 1..Len(t.steps) \cup {Len(t.steps) + 1} /\ Len(t.steps) + 1 \notin 1..Len(t.steps)
  BY <1>3
<1>8. Rooted(StartStep(t, r)) BY <1>1, <1>2, <1>3, <1>4, <1>5, <1>7 DEF Rooted
<1> QED BY <1>1, <1>2, <1>3, <1>4, <1>5, <1>6, <1>7, <1>8

LEMMA FinishStepEffect ==
  ASSUME NEW t \in Table, Rooted(t), NEW id \in Nat, NEW status \in StepStatuses
  PROVE  LET c == FinishStep(t, id, status)
         IN /\ c \in Table /\ Rooted(c) /\ c.task = t.task /\ DOMAIN c.steps = DOMAIN t.steps
            /\ \A i \in DOMAIN t.steps :
                 /\ c.steps[i].of = t.steps[i].of
                 /\ c.steps[i].status = IF i = id THEN status ELSE t.steps[i].status
<1>1. CASE id \notin DOMAIN t.steps BY <1>1 DEF FinishStep
<1>2. CASE id \in DOMAIN t.steps
  <2> DEFINE steps == [t.steps EXCEPT ![id].status = status]
  <2>1. FinishStep(t, id, status) = [task |-> t.task, steps |-> steps]
    <3>1. t = [task |-> t.task, steps |-> t.steps] BY TableFields
    <3>2. FinishStep(t, id, status) = [t EXCEPT !.steps = steps] BY <1>2 DEF FinishStep
    <3> HIDE DEF steps
    <3> QED BY <3>1, <3>2
  <2>2. DOMAIN steps = DOMAIN t.steps /\ steps = [i \in DOMAIN steps |-> steps[i]] OBVIOUS
  <2>3. \A i \in DOMAIN t.steps :
          /\ steps[i] \in Row /\ steps[i].of = t.steps[i].of
          /\ steps[i].status = IF i = id THEN status ELSE t.steps[i].status
    <3> SUFFICES ASSUME NEW i \in DOMAIN t.steps
                 PROVE  /\ steps[i] \in Row /\ steps[i].of = t.steps[i].of
                        /\ steps[i].status = IF i = id THEN status ELSE t.steps[i].status
      OBVIOUS
    <3>1. t.steps[i] \in Row BY TableFields
    <3>2. CASE i = id BY <3>1, <3>2 DEF Row
    <3>3. CASE i # id BY <3>1, <3>3
    <3> QED BY <3>2, <3>3
  <2> HIDE DEF steps
  <2>4. FinishStep(t, id, status) \in Table
    <3> DEFINE n == Len(t.steps)
    <3>1. n \in Nat /\ DOMAIN t.steps = 1..n /\ t.task \in [Requests -> TaskStatuses] BY TableFields
    <3> HIDE DEF n
    <3>2. DOMAIN steps = 1..n /\ \A i \in 1..n : steps[i] \in Row BY <2>2, <2>3, <3>1
    <3>3. [task |-> t.task, steps |-> steps] \in Table BY <2>2, <3>1, <3>2, MakeTable
    <3> QED BY <2>1, <3>3
  <2>5. Rooted(FinishStep(t, id, status)) BY <2>1, <2>2, <2>3 DEF Rooted
  <2> QED BY <2>1, <2>2, <2>3, <2>4, <2>5
<1> QED BY <1>1, <1>2

LEMMA UncertainEffect ==
  ASSUME NEW t \in Table, NEW R
  PROVE  LET steps == Uncertain(t.steps, R)
         IN /\ DOMAIN steps = DOMAIN t.steps /\ steps = [i \in DOMAIN steps |-> steps[i]]
            /\ \A i \in DOMAIN t.steps :
                 /\ steps[i] \in Row /\ steps[i].of = t.steps[i].of
                 /\ steps[i].status = IF t.steps[i].of \in R /\ t.steps[i].status = "RUNNING"
                                      THEN "INTERRUPTED_UNCERTAIN" ELSE t.steps[i].status
<1> DEFINE steps == Uncertain(t.steps, R)
<1>1. DOMAIN steps = DOMAIN t.steps /\ steps = [i \in DOMAIN steps |-> steps[i]] BY DEF Uncertain
<1>2. ASSUME NEW i \in DOMAIN t.steps
      PROVE  /\ steps[i] \in Row /\ steps[i].of = t.steps[i].of
             /\ steps[i].status = IF t.steps[i].of \in R /\ t.steps[i].status = "RUNNING"
                                  THEN "INTERRUPTED_UNCERTAIN" ELSE t.steps[i].status
  <2>1. t.steps[i] \in Row BY TableFields
  <2>2. CASE t.steps[i].of \in R /\ t.steps[i].status = "RUNNING"
    <3>1. steps[i] = [t.steps[i] EXCEPT !.status = "INTERRUPTED_UNCERTAIN"] BY <2>2 DEF Uncertain
    <3> QED BY <2>1, <2>2, <3>1 DEF Row, StepStatuses
  <2>3. CASE ~(t.steps[i].of \in R /\ t.steps[i].status = "RUNNING")
    <3>1. steps[i] = t.steps[i] BY <2>3 DEF Uncertain
    <3> QED BY <2>1, <2>3, <3>1
  <2> QED BY <2>2, <2>3
<1> HIDE DEF steps
<1> QED BY <1>1, <1>2 DEF steps

LEMMA FinishTaskEffect ==
  ASSUME NEW t \in Table, Rooted(t), NEW r \in Requests, NEW status \in Replies, t.task[r] # "absent"
  PROVE  LET c == FinishTask(t, r, status)
         IN /\ c \in Table /\ Rooted(c) /\ c.task = [t.task EXCEPT ![r] = status] /\ DOMAIN c.steps = DOMAIN t.steps
            /\ \A i \in DOMAIN t.steps :
                 /\ c.steps[i].of = t.steps[i].of
                 /\ \/ c.steps[i].status = t.steps[i].status
                    \/ /\ t.steps[i].of = r /\ t.steps[i].status = "RUNNING"
                       /\ c.steps[i].status = "INTERRUPTED_UNCERTAIN"
<1> DEFINE task == [t.task EXCEPT ![r] = status]
           steps == IF status \in Unfinished THEN t.steps ELSE Uncertain(t.steps, {r})
<1>1. FinishTask(t, r, status) = [task |-> task, steps |-> steps] BY DEF FinishTask
<1>2. task \in [Requests -> TaskStatuses] /\ task[r] # "absent" /\ \A q \in Requests : task[q] # "absent" <=> t.task[q] # "absent"
  BY TableFields DEF TaskStatuses, Replies
<1>3. /\ DOMAIN steps = DOMAIN t.steps /\ steps = [i \in DOMAIN steps |-> steps[i]]
      /\ \A i \in DOMAIN t.steps :
           /\ steps[i] \in Row /\ steps[i].of = t.steps[i].of
           /\ \/ steps[i].status = t.steps[i].status
              \/ /\ t.steps[i].of = r /\ t.steps[i].status = "RUNNING"
                 /\ steps[i].status = "INTERRUPTED_UNCERTAIN"
  <2>1. CASE status \in Unfinished
    <3>1. steps = t.steps BY <2>1
    <3>2. t.steps = [i \in DOMAIN t.steps |-> t.steps[i]] BY TableFields
    <3> QED BY <3>1, <3>2, TableFields
  <2>2. CASE status \notin Unfinished
    <3>1. steps = Uncertain(t.steps, {r}) BY <2>2
    <3> HIDE DEF steps
    <3> QED BY <3>1, UncertainEffect
  <2> QED BY <2>1, <2>2
<1> HIDE DEF task, steps
<1>4. FinishTask(t, r, status) \in Table
  <2> DEFINE n == Len(t.steps)
  <2>1. n \in Nat /\ DOMAIN t.steps = 1..n BY TableFields
  <2> HIDE DEF n
  <2>2. DOMAIN steps = 1..n /\ \A i \in 1..n : steps[i] \in Row BY <1>3, <2>1
  <2>3. task \in [Requests -> TaskStatuses] /\ steps = [i \in DOMAIN steps |-> steps[i]] BY <1>2, <1>3
  <2>4. [task |-> task, steps |-> steps] \in Table BY <2>1, <2>2, <2>3, MakeTable
  <2> QED BY <1>1, <2>4
<1>5. Rooted(FinishTask(t, r, status)) BY <1>1, <1>2, <1>3, TableFields DEF Rooted
<1> QED BY <1>1, <1>3, <1>4, <1>5 DEF task

LEMMA RecoverEffect ==
  ASSUME NEW t \in Table, Rooted(t)
  PROVE  LET c == RecoverInterrupted(t)
         IN /\ c \in Table /\ Rooted(c) /\ DOMAIN c.steps = DOMAIN t.steps
            /\ \A q \in Requests : c.task[q] = IF t.task[q] \in Unfinished THEN "INTERRUPTED" ELSE t.task[q]
            /\ \A i \in DOMAIN t.steps :
                 /\ c.steps[i].of = t.steps[i].of
                 /\ c.steps[i].status = IF t.steps[i].status = "RUNNING" THEN "INTERRUPTED_UNCERTAIN"
                                        ELSE t.steps[i].status
<1> DEFINE task == [q \in Requests |-> IF t.task[q] \in Unfinished THEN "INTERRUPTED" ELSE t.task[q]]
           steps == Uncertain(t.steps, Requests)
<1>1. RecoverInterrupted(t) = [task |-> task, steps |-> steps] BY DEF RecoverInterrupted
<1>2. task \in [Requests -> TaskStatuses] /\ \A q \in Requests : t.task[q] # "absent" => task[q] # "absent"
  BY TableFields DEF TaskStatuses
<1>3. /\ DOMAIN steps = DOMAIN t.steps /\ steps = [i \in DOMAIN steps |-> steps[i]]
      /\ \A i \in DOMAIN t.steps :
           /\ steps[i] \in Row /\ steps[i].of = t.steps[i].of
           /\ steps[i].status = IF t.steps[i].status = "RUNNING" THEN "INTERRUPTED_UNCERTAIN" ELSE t.steps[i].status
  BY UncertainEffect, TableFields
<1>4. \A q \in Requests : task[q] = IF t.task[q] \in Unfinished THEN "INTERRUPTED" ELSE t.task[q] OBVIOUS
<1> HIDE DEF task, steps
<1>5. RecoverInterrupted(t) \in Table
  <2> DEFINE n == Len(t.steps)
  <2>1. n \in Nat /\ DOMAIN t.steps = 1..n BY TableFields
  <2> HIDE DEF n
  <2>2. DOMAIN steps = 1..n /\ \A i \in 1..n : steps[i] \in Row BY <1>3, <2>1
  <2>3. task \in [Requests -> TaskStatuses] /\ steps = [i \in DOMAIN steps |-> steps[i]] BY <1>2, <1>3
  <2>4. [task |-> task, steps |-> steps] \in Table BY <2>1, <2>2, <2>3, MakeTable
  <2> QED BY <1>1, <2>4
<1>6. Rooted(RecoverInterrupted(t)) BY <1>1, <1>2, <1>3, TableFields DEF Rooted
<1> QED BY <1>1, <1>3, <1>4, <1>5, <1>6

--------------------------------------------------------------------------------
(* A table in memory that is lost: a change of the mode, the end of a process *)

LEMMA MemoryLost ==
  ASSUME JournalTypeOK, disk' = disk, ram' = EmptyTable, NEW r \in Requests, ram.task[r] = "absent"
  PROVE  /\ \A t \in Tables' : \A i \in DOMAIN t.steps : t.steps[i].of = r => t \in Tables
         /\ HasStep(r) => HasStep(r)'
         /\ \A status : status # "absent" /\ Says(r, status) => Says(r, status)'
         /\ ram'.task[r] = "absent"
<1>1. DOMAIN ram'.steps = {} /\ ram'.task[r] = "absent" BY EmptyEffect
<1>2. \A i \in DOMAIN ram.steps : ram.steps[i].of # r BY DEF JournalTypeOK, Rooted
<1>3. HasStep(r) => HasStep(r)' BY <1>2 DEF HasStep, Tables
<1> QED BY <1>1, <1>3 DEF Tables, Says

LEMMA SetPrivateGood ==
  ASSUME JournalInv, SetPrivate
  PROVE  JournalInv'
<1> USE DEF SetPrivate
<1>0. JournalTypeOK /\ ~Ended /\ Ended' = Ended BY DEF JournalInv, Ended
<1>1. JournalTypeOK'
  BY <1>0, EmptyEffect DEF JournalTypeOK, WritesOK
<1>2. AtRest' BY <1>0 DEF AtRest
<1>3. ASSUME NEW r \in Requests PROVE Good(r)'
  <2>0. Good(r) /\ Position(r) BY DEF JournalInv, Good
  <2>1. Position(r)' BY <2>0, EmptyEffect DEF Position, Pending
  <2>2. r \notin strayed' => r \notin strayed /\ ram.task[r] = "absent"
    OBVIOUS
  <2>3. ASSUME r \notin strayed' PROVE Rows(r)'
    <3>1. Rows(r) BY <2>0, <2>2, <2>3 DEF Good
    <3>2. \A t \in Tables' : \A i \in DOMAIN t.steps : t.steps[i].of = r => t \in Tables
      BY <1>0, <2>2, <2>3, MemoryLost
    <3>3. HasStep(r) => HasStep(r)' BY <1>0, <2>2, <2>3, MemoryLost
    <3>4. \A status : StatusOK(r, status) <=> StatusOK(r, status)' BY <1>0 DEF StatusOK, Pending
    <3>5. \A t \in Tables' : \A i \in DOMAIN t.steps :
            t.steps[i].of = r => i = step'[r] /\ StatusOK(r, t.steps[i].status)'
      BY <3>1, <3>2, <3>4 DEF Rows
    <3>6. ram'.task[r] = "absent" BY EmptyEffect
    <3> QED BY <3>1, <3>3, <3>5, <3>6 DEF Rows, StartWrite
  <2>4. ASSUME r \notin (strayed \cup crossed)' PROVE Answering(r)'
    <3>1. Answering(r) BY <2>0, <2>4 DEF Good
    <3>2. \A status : status # "absent" /\ Says(r, status) => Says(r, status)'
      BY <1>0, <2>2, <2>4, MemoryLost
    <3>3. answer[r] # "absent" BY <1>0 DEF JournalTypeOK, Replies
    <3>4. ram'.task[r] = "absent" BY EmptyEffect
    <3>5. \A status : status = answer[r] /\ Says(r, status) => Says(r, status)' BY <3>2, <3>3
    <3>6. Says(r, answer[r]) => Says(r, answer[r])' BY <3>5 DEF Says
    <3> QED BY <1>0, <3>1, <3>4, <3>6 DEF Answering, FinishWrite, Unfinished
  <2> QED BY <2>1, <2>3, <2>4 DEF Good
<1> QED BY <1>1, <1>2, <1>3 DEF JournalInv

\* The end of the process: a crash has lost writes, an orderly end has none left.
LEMMA PerishGood ==
  ASSUME JournalInv, Perish, budget' \in [Incidents \cup {"all"} -> Int],
         budget'.crash <= budget.crash, writes = {} \/ budget'.crash < budget.crash
  PROVE  JournalInv'
<1> USE DEF Perish
<1>0. JournalTypeOK BY DEF JournalInv
<1>1. JournalTypeOK'
  <2>1. at' \in [Requests -> Busy \cup {"new", "done", "dead"}] BY <1>0 DEF JournalTypeOK
  <2>2. by' \in [Requests -> {"none", "open", "approved", "denied", "executing", "concluding", "done"}]
        /\ tool' \in [Requests -> ToolStates]
        /\ answer' \in [Requests -> Replies \cup {"none"}]
    BY <1>0 DEF JournalTypeOK, ToolStates, Over
  <2>3. budget'.crash <= MaxCrashes
    BY <1>0, JournalAssumption DEF JournalTypeOK, Incidents
  <2>4. WritesOK' BY DEF WritesOK
  <2> QED BY <1>0, <2>1, <2>2, <2>3, <2>4, EmptyEffect DEF JournalTypeOK, Incidents
<1>2. Ended' BY DEF Ended
<1>3. AtRest' BY DEF AtRest, Busy, Over
<1>4. writes = {} \/ budget'.crash < MaxCrashes
  BY <1>0, JournalAssumption DEF JournalTypeOK, Incidents
<1>5. budget.crash < MaxCrashes => budget'.crash < MaxCrashes
  BY <1>0, JournalAssumption DEF JournalTypeOK, Incidents
<1>6. ASSUME NEW r \in Requests PROVE Good(r)'
  <2>0. Good(r) /\ Position(r) BY DEF JournalInv, Good
  <2>1. /\ at'[r] = IF at[r] \in Busy THEN "dead" ELSE at[r]
        /\ by'[r] = IF by[r] = "none" THEN "none" ELSE "done"
        /\ tool'[r] = IF tool[r] \in {"none"} \cup Over THEN tool[r] ELSE "over"
        /\ answer'[r] = IF at[r] \in Busy \/ by[r] \notin {"none", "done"} THEN "none" ELSE answer[r]
        /\ step'[r] = step[r] /\ outcome'[r] = outcome[r] /\ writes' = {}
        /\ ram'.task[r] = "absent"
    BY EmptyEffect
  <2>2. at'[r] \in {"new", "done", "dead"} /\ (at'[r] \in {"new", "done"} => at'[r] = at[r])
    BY <1>0, <2>1 DEF JournalTypeOK
  <2>3. Position(r)'
    <3>1. by'[r] # "none" => r \in Confirmed /\ at'[r] \in {"done", "dead"}
      BY <2>0, <2>1, <2>2 DEF Position, Busy
    <3>2. tool'[r] # "none" /\ r \in Confirmed => by'[r] = "done"
      BY <2>0, <2>1 DEF Position
    <3>3. tool'[r] = "none" => step'[r] = 0 /\ outcome'[r] = {} /\ ~Pending("tool", r)'
      BY <2>0, <2>1 DEF Position, Pending
    <3>4. at'[r] = "new" => tool'[r] = "none" /\ disk'.task[r] = "absent" /\ ram'.task[r] = "absent"
      BY <2>0, <2>1, <2>2 DEF Position
    <3>5. outcome'[r] # {} => tool'[r] \in Over BY <2>0, <2>1 DEF Position, Over
    <3>6. tool'[r] \in {"failing", "raised", "cut"} => "FAILED" \in outcome'[r]
      BY <2>0, <2>1 DEF Position, Over
    <3>7. tool'[r] \in {"none"} \cup Over BY <2>1 DEF Over
    <3> QED BY <2>1, <2>2, <3>1, <3>2, <3>3, <3>4, <3>5, <3>6, <3>7 DEF Position
  <2>4. r \notin strayed' => r \notin strayed /\ ram.task[r] = "absent" OBVIOUS
  <2>5. ASSUME r \notin strayed' PROVE Rows(r)'
    <3>1. Rows(r) BY <2>0, <2>4, <2>5 DEF Good
    <3>2. \A t \in Tables' : \A i \in DOMAIN t.steps : t.steps[i].of = r => t \in Tables
      BY <1>0, <2>4, <2>5, MemoryLost
    <3>3. HasStep(r) => HasStep(r)' BY <1>0, <2>4, <2>5, MemoryLost
    <3>4. ASSUME NEW status \in StepStatuses, StatusOK(r, status) PROVE StatusOK(r, status)'
      <4>1. /\ tool[r] \in Over => tool'[r] = tool[r]
            /\ tool[r] \notin {"none"} \cup Over => tool'[r] = "over"
        BY <2>1
      <4>2. status \in {"COMPLETED", "FAILED"} => status \in outcome[r] BY <3>4 DEF StatusOK
      <4>3. status = "CANCELLED" => outcome[r] = {} /\ tool'[r] \in {"settled", "over"}
        BY <3>4, <4>1 DEF StatusOK, Over
      <4>5. status = "COMPLETED" => tool'[r] # "raised" /\ tool'[r] # "failing"
        BY <2>1, <3>4, <4>1 DEF StatusOK, Over
      <4>6. tool'[r] \notin {"receipt", "settled", "failing"} BY <2>1 DEF Over
      <4>7. tool[r] = "raised" => ~Pending("tool", r)
        <5> SUFFICES ASSUME tool[r] = "raised", NEW w \in writes, w.of = r, w.from = "tool" PROVE FALSE
          BY DEF Pending
        <5>1. w.op \in {"start", "receipt"}
          BY <1>0 DEF JournalTypeOK, WritesOK, BeginWrite, StartWrite, ReceiptWrites, FinishWrites, Write
        <5> QED BY <2>0, <5>1 DEF Position
      <4>4. ASSUME outcome[r] # {}, status \notin outcome[r], tool'[r] # "cut"
            PROVE  /\ status \in {"RUNNING", "INTERRUPTED_UNCERTAIN"} /\ tool'[r] = "over"
                   /\ budget'.crash < MaxCrashes
        <5>1. status \in {"RUNNING", "INTERRUPTED_UNCERTAIN"} BY <4>2, <4>3, <4>4 DEF StepStatuses
        <5>4. tool[r] # "cut" /\ tool[r] # "none" BY <2>0, <4>1, <4>4 DEF Position, Over
        <5>5. Pending("tool", r) \/ (tool[r] = "over" /\ budget.crash < MaxCrashes)
          BY <3>4, <4>4, <5>4 DEF StatusOK
        <5>2. tool'[r] = "over" BY <4>1, <4>7, <5>4, <5>5 DEF Over
        <5>3. writes # {} \/ budget.crash < MaxCrashes BY <5>5 DEF Pending
        <5> QED BY <1>4, <1>5, <5>1, <5>2, <5>3
      <4> QED BY <1>2, <2>1, <4>2, <4>3, <4>4, <4>5, <4>6 DEF StatusOK
    <3>5. \A t \in Tables : \A i \in DOMAIN t.steps : t.steps[i].status \in StepStatuses
      BY <1>0, TableFields DEF Tables, JournalTypeOK
    <3>6. \A t \in Tables' : \A i \in DOMAIN t.steps :
            t.steps[i].of = r => i = step'[r] /\ StatusOK(r, t.steps[i].status)'
      BY <2>1, <3>1, <3>2, <3>4, <3>5 DEF Rows
    <3>7. tool'[r] \notin {"running", "receipt", "settled", "recording", "settling"} BY <2>1 DEF Over
    <3> QED BY <2>1, <3>1, <3>3, <3>6, <3>7 DEF Rows
  <2>6. ASSUME r \notin (strayed \cup crossed)' PROVE Answering(r)'
    <3>1. Answering(r) BY <2>0, <2>4, <2>6 DEF Good
    <3>2. \A status : status # "absent" /\ Says(r, status) => Says(r, status)'
      BY <1>0, <2>4, <2>6, MemoryLost
    <3>3. answer[r] # "absent" BY <1>0 DEF JournalTypeOK, Replies
    <3>4. answer'[r] # "none" => answer'[r] = answer[r] /\ at'[r] = at[r] /\ by[r] \in {"none", "done"}
      BY <2>1
    <3>5. at'[r] = "done" /\ answer'[r] # "none" => Says(r, answer[r])'
      <4> SUFFICES ASSUME at'[r] = "done", answer'[r] # "none" PROVE Says(r, answer[r])' OBVIOUS
      <4>1. Says(r, answer[r]) BY <3>1, <3>4 DEF Answering
      <4>2. answer'[r] = answer[r] BY <3>4
      <4>3. \A status : status = answer[r] => Says(r, status)' BY <3>2, <3>3, <4>1
      <4> QED BY <4>2, <4>3 DEF Says
    <3>6. answer'[r] # "WAITING" BY <3>1, <3>4 DEF Answering
    <3> QED BY <1>2, <2>1, <2>2, <3>5, <3>6 DEF Answering
  <2> QED BY <2>3, <2>5, <2>6 DEF Good
<1> QED BY <1>1, <1>3, <1>6 DEF JournalInv

LEMMA CrashGood ==
  ASSUME JournalInv, Crash
  PROVE  JournalInv'
<1>1. /\ budget' \in [Incidents \cup {"all"} -> Int] /\ budget'.crash = budget.crash - 1
  BY SpendType DEF Crash, JournalInv, Incidents
<1>2. budget.crash \in Int BY DEF JournalInv, JournalTypeOK
<1>3. budget'.crash <= budget.crash /\ budget'.crash < budget.crash BY <1>1, <1>2
<1> QED BY <1>1, <1>3, PerishGood DEF Crash

LEMMA ReleaseGood ==
  ASSUME JournalInv, Release
  PROVE  JournalInv'
<1>1. budget' \in [Incidents \cup {"all"} -> Int] BY DEF Release, JournalInv, JournalTypeOK, Incidents
<1>2. budget'.crash <= budget.crash BY DEF Release, JournalInv, JournalTypeOK
<1> QED BY <1>1, <1>2, PerishGood DEF Release

--------------------------------------------------------------------------------
(* The recovery *)

LEMMA RecoverGood ==
  ASSUME JournalInv, Recover
  PROVE  JournalInv'
<1> USE DEF Recover
<1>0. JournalTypeOK /\ Ended /\ ~Ended' BY DEF JournalInv, Ended
<1>1. ram = EmptyTable /\ writes = {} BY <1>0 DEF JournalInv, AtRest
<1>2. \A t \in Tables : t \in Table /\ Rooted(t) BY <1>0 DEF JournalTypeOK, Tables
<1>3. JournalTypeOK'
  <2>1. disk' \in Table /\ Rooted(disk)' /\ ram' \in Table /\ Rooted(ram)'
    BY <1>0, RecoverEffect DEF JournalTypeOK
  <2> QED BY <1>0, <2>1 DEF JournalTypeOK, WritesOK
<1>4. AtRest' BY <1>0 DEF AtRest
<1>5. /\ DOMAIN ram'.steps = {} /\ \A r \in Requests : ram'.task[r] = "absent" /\ ram.task[r] = "absent"
      /\ DOMAIN ram.steps = {}
  BY <1>0, <1>1, EmptyEffect, RecoverEffect DEF Unfinished
<1>6. ASSUME NEW r \in Requests PROVE Good(r)'
  <2>0. Good(r) /\ Position(r) /\ at[r] \notin Busy /\ by[r] \in {"none", "done"} /\ tool[r] \in {"none"} \cup Over
    BY <1>0 DEF JournalInv, Good, AtRest
  <2>1. Position(r)'
    <3>1. disk'.task[r] = "absent" <=> disk.task[r] = "absent"
      BY <1>0, RecoverEffect DEF JournalTypeOK, Unfinished
    <3> QED BY <1>5, <2>0, <3>1 DEF Position, Pending
  <2>2. ASSUME r \notin strayed'
        PROVE  /\ r \notin strayed /\ DOMAIN disk'.steps = DOMAIN disk.steps
               /\ disk'.task[r] = IF disk.task[r] \in Unfinished THEN "INTERRUPTED" ELSE disk.task[r]
               /\ \A i \in DOMAIN disk.steps :
                    /\ disk'.steps[i].of = r <=> disk.steps[i].of = r
                    /\ disk.steps[i].of = r =>
                         disk'.steps[i].status = IF disk.steps[i].status = "RUNNING" THEN "INTERRUPTED_UNCERTAIN"
                                                 ELSE disk.steps[i].status
    <3>1. CASE ~private BY <1>0, <2>2, <3>1, RecoverEffect DEF JournalTypeOK
    <3>2. CASE private
      <4>1. disk' = disk /\ disk.task[r] = "absent" /\ r \notin strayed BY <2>2, <3>2
      <4>2. \A i \in DOMAIN disk.steps : disk.steps[i].of # r BY <1>0, <4>1 DEF JournalTypeOK, Rooted
      <4> QED BY <4>1, <4>2 DEF Unfinished
    <3> QED BY <3>1, <3>2
  <2>3. ASSUME r \notin strayed' PROVE Rows(r)'
    <3>1. Rows(r) BY <2>0, <2>2, <2>3 DEF Good
    <3>2. ASSUME NEW i \in DOMAIN disk'.steps, disk'.steps[i].of = r
          PROVE  i = step'[r] /\ StatusOK(r, disk.steps[i].status)'
      <4>1. /\ i \in DOMAIN disk.steps /\ disk.steps[i].of = r
            /\ disk'.steps[i].status = IF disk.steps[i].status = "RUNNING" THEN "INTERRUPTED_UNCERTAIN"
                                        ELSE disk.steps[i].status
        BY <2>2, <2>3, <3>2
      <4>2. i = step[r] /\ StatusOK(r, disk.steps[i].status) BY <3>1, <4>1 DEF Rows, Tables
      <4>3. outcome[r] \subseteq {"COMPLETED", "FAILED"} BY <1>0 DEF JournalTypeOK
      <4>4. ~Pending("tool", r) BY <1>1 DEF Pending
      <4>5. tool[r] \in {"none"} \cup Over /\ tool'[r] = tool[r] /\ outcome'[r] = outcome[r] /\ budget' = budget BY <2>0
      <4>6. CASE disk.steps[i].status = "RUNNING" BY <4>1, <4>2, <4>3, <4>4, <4>5, <4>6 DEF StatusOK, Over
      <4>7. CASE disk.steps[i].status # "RUNNING" BY <4>1, <4>2, <4>3, <4>4, <4>5, <4>7 DEF StatusOK, Over
      <4> QED BY <4>2, <4>6, <4>7
    <3>3. step[r] # 0 => HasStep(r)'
      <4>1. HasStep(r) => \E i \in DOMAIN disk.steps : disk.steps[i].of = r BY <1>5 DEF HasStep, Tables
      <4>2. HasStep(r) => \E i \in DOMAIN disk'.steps : disk'.steps[i].of = r BY <2>2, <2>3, <4>1
      <4> QED BY <3>1, <4>2 DEF Rows, HasStep, Tables
    <3>4. \A t \in Tables' : \A i \in DOMAIN t.steps :
            t.steps[i].of = r => i = step'[r] /\ StatusOK(r, t.steps[i].status)'
      BY <1>5, <3>2 DEF Tables
    <3> QED BY <1>5, <2>0, <3>1, <3>3, <3>4 DEF Rows, Over
  <2>4. ASSUME r \notin (strayed \cup crossed)' PROVE Answering(r)'
    <3>1. Answering(r) BY <2>0, <2>2, <2>4 DEF Good
    <3>2. disk'.task[r] \notin Unfinished /\ ram'.task[r] \notin Unfinished
      BY <1>5, <2>2, <2>4 DEF Unfinished
    <3>3. at[r] = "done" /\ answer[r] # "none" => Says(r, answer[r])'
      <4> SUFFICES ASSUME at[r] = "done", answer[r] # "none" PROVE Says(r, answer[r])' OBVIOUS
      <4>1. Says(r, answer[r]) /\ answer[r] # "WAITING" BY <2>0, <3>1 DEF Answering
      <4>2. answer[r] \notin {"absent", "RUNNING", "WAITING"} BY <1>0, <4>1 DEF JournalTypeOK, Replies
      <4>3. disk.task[r] = answer[r] BY <1>5, <4>1, <4>2 DEF Says, Tables
      <4>4. disk'.task[r] = answer[r] BY <2>2, <2>4, <4>2, <4>3 DEF Unfinished
      <4> QED BY <4>4 DEF Says, Tables
    <3> QED BY <1>1, <2>0, <3>1, <3>2, <3>3 DEF Answering, Busy
  <2> QED BY <2>1, <2>3, <2>4 DEF Good
<1> QED BY <1>3, <1>4, <1>6 DEF JournalInv

--------------------------------------------------------------------------------
(* A thread performs a write *)

\* The table that is written to, before (a) and after (c), and the other (b).
Moved(a, b, c) ==
  \/ disk = a /\ ram = b /\ disk' = c /\ ram' = b
  \/ ram = a /\ disk = b /\ ram' = c /\ disk' = b

LEMMA MovedTables ==
  ASSUME NEW a, NEW b, NEW c, Moved(a, b, c), NEW r \in Requests
  PROVE  /\ Tables = {a, b} /\ Tables' = {c, b}
         /\ (disk.task[r] = "absent" \/ ram.task[r] = "absent") <=> (a.task[r] = "absent" \/ b.task[r] = "absent")
         /\ (disk'.task[r] = "absent" \/ ram'.task[r] = "absent") <=> (c.task[r] = "absent" \/ b.task[r] = "absent")
         /\ HasStep(r) <=> \E t \in {a, b} : \E i \in DOMAIN t.steps : t.steps[i].of = r
         /\ HasStep(r)' <=> \E t \in {c, b} : \E i \in DOMAIN t.steps : t.steps[i].of = r
         /\ \A status : /\ Says(r, status) <=> a.task[r] = status \/ b.task[r] = status
                        /\ Says(r, status)' <=> c.task[r] = status \/ b.task[r] = status
<1>1. Tables = {a, b} /\ Tables' = {c, b} BY DEF Moved, Tables
<1> QED BY <1>1 DEF Moved, HasStep, Says

\* The rows of a request are the same in two tables.
SameRows(a, c, r) ==
  /\ c.task[r] = a.task[r]
  /\ \A i \in DOMAIN a.steps : a.steps[i].of = r => i \in DOMAIN c.steps /\ c.steps[i].of = r
  /\ \A i \in DOMAIN c.steps :
       c.steps[i].of = r => i \in DOMAIN a.steps /\ a.steps[i].of = r /\ c.steps[i].status = a.steps[i].status

\* The rows of a request are kept when a thread writes for another one.
LEMMA RowsKept ==
  ASSUME JournalTypeOK, JournalTypeOK', NEW r \in Requests, Rows(r), NEW a, NEW b, NEW c, Moved(a, b, c),
         SameRows(a, c, r), Ended' = Ended, budget' = budget,
         tool'[r] = tool[r], step'[r] = step[r], outcome'[r] = outcome[r],
         \A w \in writes \cup writes' : w.of = r /\ w.from = "tool" => (w \in writes <=> w \in writes')
  PROVE  Rows(r)'
<1>1. Pending("tool", r)' <=> Pending("tool", r) BY DEF Pending
<1>2. StartWrite(r) \in writes <=> StartWrite(r) \in writes' BY DEF StartWrite, Write
<1>3. \A status : StatusOK(r, status)' <=> StatusOK(r, status) BY <1>1 DEF StatusOK
<1>4. /\ Tables = {a, b} /\ Tables' = {c, b}
      /\ (disk.task[r] = "absent" \/ ram.task[r] = "absent") <=> (a.task[r] = "absent" \/ b.task[r] = "absent")
      /\ (disk'.task[r] = "absent" \/ ram'.task[r] = "absent") <=> (c.task[r] = "absent" \/ b.task[r] = "absent")
      /\ HasStep(r) <=> \E t \in {a, b} : \E i \in DOMAIN t.steps : t.steps[i].of = r
      /\ HasStep(r)' <=> \E t \in {c, b} : \E i \in DOMAIN t.steps : t.steps[i].of = r
  BY MovedTables
<1>5. HasStep(r) => HasStep(r)' BY <1>4 DEF SameRows
<1>6. \A t \in Tables' : \A i \in DOMAIN t.steps :
        t.steps[i].of = r => i = step'[r] /\ StatusOK(r, t.steps[i].status)'
  BY <1>3, <1>4 DEF Rows, SameRows
<1> QED BY <1>2, <1>4, <1>5, <1>6 DEF Rows, SameRows, StartWrite

\* So is what is said of its answer.
LEMMA AnsweringKept ==
  ASSUME NEW r \in Requests, Answering(r), NEW a, NEW b, NEW c, Moved(a, b, c), c.task[r] = a.task[r], Ended' = Ended,
         at'[r] = at[r], by'[r] = by[r], answer'[r] = answer[r],
         \A w \in writes \cup writes' :
            w.of = r /\ w.op \in {"begin", "finish"} => (w \in writes <=> w \in writes')
  PROVE  Answering(r)'
<1>1. \A status : Says(r, status)' <=> Says(r, status) BY MovedTables
<1>2. \A from : /\ FinishWrite(from, r)' = FinishWrite(from, r)
                /\ FinishWrite(from, r) \in writes <=> FinishWrite(from, r) \in writes'
  BY DEF FinishWrite, Write
<1>3. disk'.task[r] = disk.task[r] /\ ram'.task[r] = ram.task[r] BY DEF Moved
<1> QED BY <1>1, <1>2, <1>3 DEF Answering

\* The end of a task marks its running step uncertain and changes no other.
LEMMA FinishTaskRows ==
  ASSUME NEW t \in Table, Rooted(t), NEW r \in Requests, NEW status \in Replies, t.task[r] # "absent",
         NEW c, c = FinishTask(t, r, status)
  PROVE  /\ DOMAIN c.steps = DOMAIN t.steps
         /\ \A i \in DOMAIN t.steps :
              /\ c.steps[i].of = t.steps[i].of
              /\ \/ c.steps[i].status = t.steps[i].status
                 \/ t.steps[i].status = "RUNNING" /\ c.steps[i].status = "INTERRUPTED_UNCERTAIN"
<1>1. c.steps = t.steps \/ c.steps = Uncertain(t.steps, {r}) BY DEF FinishTask
<1>2. CASE c.steps = t.steps BY <1>2
<1>3. CASE c.steps = Uncertain(t.steps, {r})
  <2> DEFINE steps == c.steps
  <2>1. steps = Uncertain(t.steps, {r}) BY <1>3
  <2> HIDE DEF steps
  <2>2. /\ DOMAIN steps = DOMAIN t.steps /\ steps = [i \in DOMAIN steps |-> steps[i]]
        /\ \A i \in DOMAIN t.steps :
             /\ steps[i] \in Row /\ steps[i].of = t.steps[i].of
             /\ steps[i].status = IF t.steps[i].of \in {r} /\ t.steps[i].status = "RUNNING"
                                  THEN "INTERRUPTED_UNCERTAIN" ELSE t.steps[i].status
    BY <2>1, UncertainEffect
  <2> QED BY <2>2 DEF steps
<1> QED BY <1>1, <1>2, <1>3

LEMMA PerformGood ==
  ASSUME JournalInv, NEW w \in writes, Perform(w)
  PROVE  JournalInv'
<1> DEFINE r0 == w.of  a == InUse  b == Other  c == After(InUse, w)
<1>0. /\ JournalTypeOK /\ ~Ended /\ ~Ended' /\ Ended' = Ended
      /\ writes' = writes \ {w} /\ strayed' = strayed \cup Strays(w)
      /\ UNCHANGED <<core, private, saved, at, by, tool, stopping, scope, answer, outcome, crossed, budget>>
  BY DEF JournalInv, AtRest, Perform, Ended
<1>1. /\ a \in Table /\ Rooted(a) /\ b \in Table /\ Rooted(b) /\ Moved(a, b, c)
  BY <1>0 DEF InUse, Other, Moved, Perform, JournalTypeOK
<1>2. r0 \in Requests /\ Position(r0) /\ Good(r0)
  BY <1>0 DEF JournalInv, JournalTypeOK, WritesOK, Good
<1>3. step' = IF w.op = "start" /\ a.task[r0] # "absent" THEN [step EXCEPT ![r0] = Len(a.steps) + 1] ELSE step
  BY DEF Perform
<1>4. \A q \in Requests : q \in Strays(w) <=>
         \/ q = r0 /\ (b.task[q] # "absent" \/ (w.op # "begin" /\ a.task[q] = "absent"))
         \/ w.op = "receipt" /\ w.id \in DOMAIN a.steps /\ a.steps[w.id].of = q /\ q # r0
  BY DEF Strays
<1>5. /\ w.op \in {"begin", "start", "receipt", "finish"}
      /\ w.op = "begin" => w.from = "request"
      /\ w.op = "start" => w = StartWrite(r0) /\ w.from = "tool" /\ step[r0] = 0 /\ tool[r0] \in {"recording", "settling"}
      /\ w.op = "receipt" => /\ w.from = "tool" /\ w.id = step[r0] /\ w.status \in {"COMPLETED", "FAILED", "CANCELLED"}
                             /\ tool[r0] \in {"receipt", "failing", "settling", "settled", "cut"} /\ step[r0] # 0
                             /\ w.status = "CANCELLED" => outcome[r0] = {} /\ tool[r0] = "settled"
                             /\ w.status # "CANCELLED" => w.status \in outcome[r0]
                             /\ tool[r0] \in {"failing", "cut"} => w.status = "FAILED"
      /\ w.op = "finish" => w.from \in {"request", "decider"} /\ w.status \in Replies
  <2>1. w \in {BeginWrite(r0), StartWrite(r0)} \cup ReceiptWrites(r0, step[r0]) \cup FinishWrites(r0)
    BY <1>0 DEF JournalTypeOK, WritesOK
  <2>2. CASE w = BeginWrite(r0) BY <2>2 DEF BeginWrite, Write
  <2>3. CASE w = StartWrite(r0) BY <1>2, <2>3 DEF StartWrite, Write, Position
  <2>4. CASE w \in ReceiptWrites(r0, step[r0]) BY <1>2, <2>4 DEF ReceiptWrites, Write, Position
  <2>5. CASE w \in FinishWrites(r0) BY <2>5 DEF FinishWrites, Write
  <2> QED BY <2>1, <2>2, <2>3, <2>4, <2>5
<1>6. c = CASE w.op = "begin" -> Begin(a, r0) [] w.op = "start" -> StartStep(a, r0)
            [] w.op = "receipt" -> FinishStep(a, w.id, w.status) [] w.op = "finish" -> FinishTask(a, r0, w.status)
  BY DEF After
<1> HIDE DEF r0, a, b, c
<1>7. step \in [Requests -> Nat] /\ step' \in [Requests -> Nat] /\ \A q \in Requests \ {r0} : step'[q] = step[q]
  BY <1>0, <1>1, <1>2, <1>3, TableFields DEF JournalTypeOK
<1>8. c \in Table /\ Rooted(c)
  <2>1. CASE w.op = "begin" BY <1>1, <1>2, <1>6, <2>1, BeginEffect
  <2>2. CASE w.op = "start"
    <3>1. c = StartStep(a, r0) BY <1>6, <2>2
    <3>2. CASE a.task[r0] = "absent" BY <1>1, <3>1, <3>2 DEF StartStep
    <3>3. CASE a.task[r0] # "absent" BY <1>1, <1>2, <3>1, <3>3, StartEffect
    <3> QED BY <3>2, <3>3
  <2>3. CASE w.op = "receipt"
    <3>1. c = FinishStep(a, w.id, w.status) BY <1>6, <2>3
    <3>2. w.id \in Nat /\ w.status \in StepStatuses BY <1>2, <1>5, <1>7, <2>3 DEF StepStatuses
    <3> QED BY <1>1, <3>1, <3>2, FinishStepEffect
  <2>4. CASE w.op = "finish"
    <3>1. c = FinishTask(a, r0, w.status) BY <1>6, <2>4
    <3>2. CASE a.task[r0] = "absent" BY <1>1, <3>1, <3>2 DEF FinishTask
    <3>3. CASE a.task[r0] # "absent" BY <1>1, <1>2, <1>5, <2>4, <3>1, <3>3, FinishTaskEffect
    <3> QED BY <3>2, <3>3
  <2> QED BY <1>5, <2>1, <2>2, <2>3, <2>4
<1>9. \A v \in writes : v.of = r0 /\ v.op = "start" /\ w.op = "start" => v = w
  BY <1>0, <1>5 DEF JournalTypeOK, WritesOK, BeginWrite, StartWrite, ReceiptWrites, FinishWrites, Write
<1>10. \A v \in writes : v.of = r0 /\ v.op = "receipt" => w.op # "start"
  BY <1>2, <1>5 DEF Position
<1>11. JournalTypeOK'
  <2>1. WritesOK'
    <3> SUFFICES ASSUME NEW v \in writes', v.of \in Requests
                 PROVE  v \in {BeginWrite(v.of), StartWrite(v.of)} \cup ReceiptWrites(v.of, step'[v.of]) \cup FinishWrites(v.of)
      BY <1>0 DEF JournalTypeOK, WritesOK
    <3>1. v \in {BeginWrite(v.of), StartWrite(v.of)} \cup ReceiptWrites(v.of, step[v.of]) \cup FinishWrites(v.of)
      BY <1>0 DEF JournalTypeOK, WritesOK
    <3>2. v \in ReceiptWrites(v.of, step[v.of]) => v.op = "receipt" BY DEF ReceiptWrites, Write
    <3>3. v \in ReceiptWrites(v.of, step[v.of]) => step'[v.of] = step[v.of] BY <1>0, <1>3, <1>7, <1>10, <3>2
    <3> QED BY <3>1, <3>3
  <2>2. disk' \in Table /\ Rooted(disk)' /\ ram' \in Table /\ Rooted(ram)' BY <1>1, <1>8 DEF Moved
  <2>3. Strays(w) \subseteq Requests BY DEF Strays
  <2> QED BY <1>0, <1>7, <2>1, <2>2, <2>3 DEF JournalTypeOK
<1>12. AtRest' BY <1>0 DEF AtRest
<1>13. ASSUME NEW q \in Requests \ {r0}
       PROVE  c.task[q] = a.task[q] /\ (q \notin Strays(w) => SameRows(a, c, q))
  <2>1. CASE w.op = "begin"
    <3>1. c = Begin(a, r0) BY <1>6, <2>1
    <3>2. c.task = [a.task EXCEPT ![r0] = "RUNNING"] /\ c.steps = a.steps BY <1>1, <1>2, <3>1, BeginEffect
    <3> QED BY <1>1, <3>2, TableFields DEF SameRows
  <2>2. CASE w.op = "start"
    <3>1. c = StartStep(a, r0) BY <1>6, <2>2
    <3>2. CASE a.task[r0] = "absent" BY <3>1, <3>2 DEF StartStep, SameRows
    <3>3. CASE a.task[r0] # "absent"
      <4> DEFINE n == Len(a.steps) + 1
      <4>1. /\ c.task = a.task /\ DOMAIN c.steps = DOMAIN a.steps \cup {n} /\ c.steps[n].of = r0
            /\ \A i \in DOMAIN a.steps : c.steps[i] = a.steps[i]
        BY <1>1, <1>2, <3>1, <3>3, StartEffect
      <4> HIDE DEF n
      <4> QED BY <4>1 DEF SameRows
    <3> QED BY <3>2, <3>3
  <2>3. CASE w.op = "receipt"
    <3>1. c = FinishStep(a, w.id, w.status) BY <1>6, <2>3
    <3>2. w.id \in Nat /\ w.status \in StepStatuses BY <1>2, <1>5, <1>7, <2>3 DEF StepStatuses
    <3>3. /\ c.task = a.task /\ DOMAIN c.steps = DOMAIN a.steps
          /\ \A i \in DOMAIN a.steps :
               /\ c.steps[i].of = a.steps[i].of
               /\ c.steps[i].status = IF i = w.id THEN w.status ELSE a.steps[i].status
      BY <1>1, <3>1, <3>2, FinishStepEffect
    <3>4. q \notin Strays(w) => \A i \in DOMAIN a.steps : i = w.id => a.steps[i].of # q
      BY <1>4, <2>3
    <3> QED BY <3>3, <3>4 DEF SameRows
  <2>4. CASE w.op = "finish"
    <3>1. c = FinishTask(a, r0, w.status) BY <1>6, <2>4
    <3>2. CASE a.task[r0] = "absent" BY <3>1, <3>2 DEF FinishTask, SameRows
    <3>3. CASE a.task[r0] # "absent"
      <4>1. /\ c.task = [a.task EXCEPT ![r0] = w.status] /\ DOMAIN c.steps = DOMAIN a.steps
            /\ \A i \in DOMAIN a.steps :
                 /\ c.steps[i].of = a.steps[i].of
                 /\ \/ c.steps[i].status = a.steps[i].status
                    \/ a.steps[i].of = r0
        BY <1>1, <1>2, <1>5, <2>4, <3>1, <3>3, FinishTaskEffect
      <4> QED BY <1>1, <4>1, TableFields DEF SameRows
    <3> QED BY <3>2, <3>3
  <2> QED BY <1>5, <2>1, <2>2, <2>3, <2>4
<1>14. \A v \in writes \cup writes' : v.of # r0 => (v \in writes <=> v \in writes')
  BY <1>0 DEF r0
<1>15. ASSUME NEW q \in Requests \ {r0} PROVE Good(q)'
  <2>1. Good(q) /\ Position(q) BY DEF JournalInv, Good
  <2>2. step'[q] = step[q] BY <1>7
  <2>3. disk'.task[q] = disk.task[q] /\ ram'.task[q] = ram.task[q] BY <1>1, <1>13 DEF Moved
  <2>4. Position(q)'
    <3>1. \A v \in writes' : v \in writes BY <1>0
    <3> QED BY <1>0, <2>1, <2>2, <2>3, <3>1 DEF Position, Pending
  <2>5. q \notin strayed' => q \notin strayed /\ q \notin Strays(w) BY <1>0
  <2>6. q \notin strayed' => Rows(q)'
    BY <1>0, <1>1, <1>11, <1>13, <1>14, <2>1, <2>2, <2>5, RowsKept DEF Good
  <2>7. q \notin (strayed \cup crossed)' => Answering(q)'
    BY <1>0, <1>1, <1>13, <1>14, <2>1, <2>5, AnsweringKept DEF Good
  <2> QED BY <2>4, <2>6, <2>7 DEF Good
<1>16. Position(r0)'
  <2>1. \A v \in writes' : v \in writes /\ v # w BY <1>0
  <2>2. ~(at[r0] = "new") BY <1>2 DEF Position, r0
  <2>3. tool[r0] = "none" => w.op # "start" /\ step'[r0] = 0 /\ outcome[r0] = {} /\ ~Pending("tool", r0)'
    BY <1>2, <1>3, <1>5, <2>1 DEF Position, Pending
  <2>4. \A v \in writes' : v.of = r0 =>
          /\ v.op = "start" => step'[r0] = 0 /\ tool[r0] \in {"recording", "settling"}
          /\ v.op = "receipt" =>
               /\ tool[r0] \in {"receipt", "failing", "settling", "settled", "cut"} /\ step'[r0] # 0
               /\ v.status = "CANCELLED" => outcome[r0] = {} /\ tool[r0] = "settled"
               /\ v.status # "CANCELLED" => v.status \in outcome[r0]
               /\ tool[r0] \in {"failing", "cut"} => v.status = "FAILED"
    <3> SUFFICES ASSUME NEW v \in writes', v.of = r0
                 PROVE  /\ v.op = "start" => step'[r0] = 0 /\ tool[r0] \in {"recording", "settling"}
                        /\ v.op = "receipt" =>
                             /\ tool[r0] \in {"receipt", "failing", "settling", "settled", "cut"} /\ step'[r0] # 0
                             /\ v.status = "CANCELLED" => outcome[r0] = {} /\ tool[r0] = "settled"
                             /\ v.status # "CANCELLED" => v.status \in outcome[r0]
                             /\ tool[r0] \in {"failing", "cut"} => v.status = "FAILED"
      OBVIOUS
    <3>1. v \in writes /\ v # w BY <2>1
    <3>2. v.op \in {"start", "receipt"} => w.op # "start" BY <1>9, <1>10, <3>1
    <3>3. v.op \in {"start", "receipt"} => step'[r0] = step[r0] BY <1>3, <3>2
    <3> QED BY <1>2, <3>1, <3>3 DEF Position
  <2> QED BY <1>0, <1>2, <2>2, <2>3, <2>4 DEF Position
<1>17. ASSUME r0 \notin strayed'
       PROVE  /\ r0 \notin strayed /\ b.task[r0] = "absent" /\ (w.op = "begin" \/ a.task[r0] # "absent")
              /\ \A i \in DOMAIN b.steps : b.steps[i].of # r0
  BY <1>0, <1>1, <1>2, <1>4, <1>17 DEF Rooted
<1>18. \A v \in writes \cup writes' : v # w => (v \in writes <=> v \in writes') BY <1>0
<1>19. ASSUME r0 \notin strayed' PROVE Rows(r0)'
  <2>0. /\ Rows(r0) /\ Position(r0) /\ b.task[r0] = "absent" /\ \A i \in DOMAIN b.steps : b.steps[i].of # r0
        /\ w.op # "begin" => a.task[r0] # "absent"
    BY <1>2, <1>17, <1>19 DEF Good
  <2>1. /\ Tables' = {c, b} /\ (disk'.task[r0] = "absent" \/ ram'.task[r0] = "absent")
        /\ HasStep(r0) <=> \E i \in DOMAIN a.steps : a.steps[i].of = r0
        /\ HasStep(r0)' <=> \E i \in DOMAIN c.steps : c.steps[i].of = r0
        /\ Tables = {a, b}
    BY <1>1, <1>2, <2>0, MovedTables
  <2>2. \A i \in DOMAIN a.steps :
          /\ a.steps[i].of = r0 => i = step[r0] /\ StatusOK(r0, a.steps[i].status)
          /\ i # 0
    BY <1>1, <2>0, <2>1, TableFields DEF Rows
  <2>3. StartWrite(r0)' = StartWrite(r0) /\ StartWrite(r0).op = "start" BY DEF StartWrite, Write
  <2>4. outcome[r0] \subseteq {"COMPLETED", "FAILED"} BY <1>0, <1>2 DEF JournalTypeOK
  <2>5. CASE w.op \in {"begin", "finish"}
    <3>1. w.from # "tool" /\ step' = step BY <1>3, <1>5, <2>5
    <3>2. Pending("tool", r0)' <=> Pending("tool", r0) BY <1>0, <3>1 DEF Pending
    <3>3. \A status : StatusOK(r0, status) => StatusOK(r0, status)' BY <1>0, <3>2 DEF StatusOK
    <3>4. StatusOK(r0, "RUNNING") => StatusOK(r0, "INTERRUPTED_UNCERTAIN")
      BY <2>4 DEF StatusOK
    <3>5. /\ DOMAIN c.steps = DOMAIN a.steps
          /\ \A i \in DOMAIN a.steps :
               /\ c.steps[i].of = a.steps[i].of
               /\ \/ c.steps[i].status = a.steps[i].status
                  \/ a.steps[i].status = "RUNNING" /\ c.steps[i].status = "INTERRUPTED_UNCERTAIN"
      <4>1. CASE w.op = "begin"
        <5>1. c = Begin(a, r0) BY <1>6, <4>1
        <5> QED BY <1>1, <1>2, <5>1, BeginEffect
      <4>2. CASE w.op = "finish"
        <5>1. c = FinishTask(a, r0, w.status) /\ a.task[r0] # "absent" /\ w.status \in Replies
          BY <1>5, <1>6, <2>0, <4>2
        <5> QED BY <1>1, <1>2, <5>1, FinishTaskRows
      <4> QED BY <2>5, <4>1, <4>2
    <3>6. \A t \in Tables' : \A i \in DOMAIN t.steps :
            t.steps[i].of = r0 => i = step'[r0] /\ StatusOK(r0, t.steps[i].status)'
      <4>1. ASSUME NEW i \in DOMAIN c.steps, c.steps[i].of = r0, NEW status, status = c.steps[i].status
            PROVE  i = step[r0] /\ StatusOK(r0, status)'
        <5>1. i = step[r0] /\ StatusOK(r0, a.steps[i].status) BY <2>2, <3>5, <4>1
        <5>2. CASE status = a.steps[i].status BY <3>3, <5>1, <5>2
        <5>3. CASE a.steps[i].status = "RUNNING" /\ status = "INTERRUPTED_UNCERTAIN"
          <6>1. StatusOK(r0, "RUNNING") BY <5>1, <5>3
          <6>2. StatusOK(r0, "INTERRUPTED_UNCERTAIN")' BY <3>3, <3>4, <6>1
          <6>3. status = "INTERRUPTED_UNCERTAIN" BY <5>3
          <6> QED BY <5>1, <6>2, <6>3 DEF StatusOK
        <5> QED BY <3>5, <4>1, <5>2, <5>3
      <4>2. \A i \in DOMAIN c.steps : c.steps[i].of = r0 =>
              i = step[r0] /\ \A status : status = c.steps[i].status => StatusOK(r0, status)'
        BY <4>1
      <4>3. \A t \in Tables' : \A i \in DOMAIN t.steps : t.steps[i].of = r0 => t = c
        BY <2>0, <2>1
      <4> QED BY <3>1, <4>2, <4>3
    <3>7. HasStep(r0) <=> HasStep(r0)' BY <2>1, <3>5
    <3>8. StartWrite(r0) \in writes => StartWrite(r0) \in writes' BY <1>0, <2>3, <2>5
    <3> QED BY <1>0, <2>0, <2>1, <2>3, <3>1, <3>6, <3>7, <3>8 DEF Rows
  <2>6. CASE w.op = "start"
    <3> DEFINE n == Len(a.steps) + 1
    <3>1. c = StartStep(a, r0) /\ step[r0] = 0 /\ tool[r0] \in {"recording", "settling"} BY <1>5, <1>6, <2>6
    <3>2. /\ c.task = a.task /\ DOMAIN c.steps = DOMAIN a.steps \cup {n} /\ n \in Nat \ {0}
          /\ c.steps[n].of = r0 /\ c.steps[n].status = "RUNNING"
          /\ \A i \in DOMAIN a.steps : c.steps[i] = a.steps[i]
      BY <1>1, <1>2, <2>0, <2>6, <3>1, StartEffect
    <3>3. step'[r0] = n BY <1>2, <1>3, <1>7, <2>0, <2>6
    <3> HIDE DEF n
    <3>4. \A i \in DOMAIN a.steps : a.steps[i].of # r0 BY <2>2, <3>1
    <3>5. outcome[r0] = {} BY <2>0, <3>1 DEF Rows
    <3>6. StatusOK(r0, "RUNNING")' BY <1>0, <3>1, <3>5 DEF StatusOK
    <3>7. \A i \in DOMAIN c.steps : c.steps[i].of = r0 => i = n BY <3>2, <3>4
    <3>8. \A t \in Tables' : \A i \in DOMAIN t.steps :
            t.steps[i].of = r0 => i = step'[r0] /\ StatusOK(r0, t.steps[i].status)'
      BY <2>0, <2>1, <3>2, <3>3, <3>6, <3>7
    <3>9. HasStep(r0)' BY <2>1, <3>2
    <3> QED BY <1>0, <2>1, <3>2, <3>3, <3>8, <3>9 DEF Rows
  <2>7. CASE w.op = "receipt"
    <3>1. /\ c = FinishStep(a, w.id, w.status) /\ w.from = "tool" /\ w.id = step[r0]
          /\ tool[r0] \in {"receipt", "failing", "settling", "settled", "cut"} /\ step[r0] # 0
          /\ w.status = "CANCELLED" => outcome[r0] = {} /\ tool[r0] = "settled"
          /\ w.status # "CANCELLED" => w.status \in outcome[r0]
          /\ tool[r0] \in {"failing", "cut"} => w.status = "FAILED"
      BY <1>5, <1>6, <2>7
    <3>2. w.id \in Nat /\ w.status \in StepStatuses BY <1>2, <1>5, <1>7, <2>7 DEF StepStatuses
    <3>3. /\ c.task = a.task /\ DOMAIN c.steps = DOMAIN a.steps
          /\ \A i \in DOMAIN a.steps :
               /\ c.steps[i].of = a.steps[i].of
               /\ c.steps[i].status = IF i = w.id THEN w.status ELSE a.steps[i].status
      BY <1>1, <3>1, <3>2, FinishStepEffect
    <3>4. step' = step BY <1>3, <2>7
    <3>5. StatusOK(r0, w.status)' BY <1>0, <2>4, <3>1 DEF StatusOK
    <3>6. \A t \in Tables' : \A i \in DOMAIN t.steps :
            t.steps[i].of = r0 => i = step'[r0] /\ StatusOK(r0, t.steps[i].status)'
      BY <2>0, <2>1, <2>2, <3>1, <3>3, <3>4, <3>5
    <3>7. HasStep(r0) <=> HasStep(r0)' BY <2>1, <3>3
    <3> QED BY <1>0, <2>0, <2>1, <3>1, <3>4, <3>6, <3>7 DEF Rows
  <2> QED BY <1>5, <2>5, <2>6, <2>7
<1>20. ASSUME r0 \notin (strayed \cup crossed)' PROVE Answering(r0)'
  <2>0. /\ Answering(r0) /\ Position(r0) /\ b.task[r0] = "absent"
        /\ w.op # "begin" => a.task[r0] # "absent"
    BY <1>0, <1>2, <1>17, <1>20 DEF Good
  <2>1. CASE w.op \in {"start", "receipt"}
    <3>1. c.task[r0] = a.task[r0]
      <4>1. CASE w.op = "start"
        <5>1. c = StartStep(a, r0) BY <1>6, <4>1
        <5> QED BY <1>1, <1>2, <2>0, <4>1, <5>1, StartEffect
      <4>2. CASE w.op = "receipt"
        <5>1. c = FinishStep(a, w.id, w.status) BY <1>6, <4>2
        <5>2. w.id \in Nat /\ w.status \in StepStatuses BY <1>2, <1>5, <1>7, <4>2 DEF StepStatuses
        <5> QED BY <1>1, <5>1, <5>2, FinishStepEffect
      <4> QED BY <2>1, <4>1, <4>2
    <3>2. \A v \in writes \cup writes' :
            v.of = r0 /\ v.op \in {"begin", "finish"} => (v \in writes <=> v \in writes')
      BY <1>18, <2>1
    <3> QED BY <1>0, <1>1, <1>2, <2>0, <3>1, <3>2, AnsweringKept
  <2>2. CASE w.op = "begin"
    <3>1. at[r0] = "beginning" BY <2>0, <2>2 DEF Answering, r0
    <3>2. by[r0] = "none" BY <2>0, <3>1 DEF Position
    <3>3. \A v \in writes' : v \in writes BY <1>0
    <3> QED BY <1>0, <2>0, <3>1, <3>2, <3>3 DEF Answering
  <2>3. CASE w.op = "finish"
    <3>1. c = FinishTask(a, r0, w.status) /\ w.status \in Replies BY <1>5, <1>6, <2>3
    <3>2. c.task = [a.task EXCEPT ![r0] = w.status] BY <1>1, <1>2, <2>0, <2>3, <3>1, FinishTaskEffect
    <3>3. c.task[r0] = w.status BY <1>1, <1>2, <3>2, TableFields
    <3>4. /\ w.status = answer[r0]
          /\ at[r0] = "ending" \/ by[r0] = "concluding"
      BY <1>5, <2>0, <2>3 DEF Answering, r0
    <3>5. \A status : Says(r0, status)' <=> c.task[r0] = status \/ b.task[r0] = status
      BY <1>1, <1>2, MovedTables
    <3>6. Says(r0, w.status)' BY <3>3, <3>5
    <3>7. Says(r0, answer[r0])' BY <1>0, <3>4, <3>6 DEF Says
    <3>8. \A v \in writes' : v \in writes BY <1>0
    <3>9. ~(at[r0] \in {"done", "dead", "new"} /\ by[r0] \in {"none", "done"}) BY <3>4
    <3> QED BY <1>0, <2>0, <3>7, <3>8, <3>9 DEF Answering
  <2> QED BY <1>5, <2>1, <2>2, <2>3
<1> QED BY <1>11, <1>12, <1>15, <1>16, <1>19, <1>20 DEF JournalInv, Good

--------------------------------------------------------------------------------
(* The invariant and the theorems *)

LEMMA InitGood == Init => JournalInv
<1> SUFFICES ASSUME Init PROVE JournalInv OBVIOUS
<1> USE DEF Init
<1>0. disk = EmptyTable /\ ram = EmptyTable /\ writes = {} /\ Ended BY DEF Ended
<1>1. JournalTypeOK
  <2>1. WritesOK BY DEF WritesOK
  <2>2. /\ budget \in [{"crash", "shutdown", "stop", "change", "cancel", "error", "all"} -> Int]
        /\ budget.crash <= MaxCrashes
    BY JournalAssumption
  <2> QED BY <2>1, <2>2, EmptyEffect DEF JournalTypeOK, ToolStates, Over
<1>2. AtRest BY <1>0 DEF AtRest, Busy
<1>3. ASSUME NEW r \in Requests PROVE Good(r)
  <2>1. Position(r) BY EmptyEffect DEF Position, Pending
  <2>2. ~HasStep(r) /\ disk.task[r] = "absent" /\ \A t \in Tables : DOMAIN t.steps = {}
    BY EmptyEffect DEF HasStep, Tables
  <2>3. Rows(r) BY <2>2 DEF Rows
  <2>4. Answering(r) BY <1>0 DEF Answering
  <2> QED BY <2>1, <2>3, <2>4 DEF Good
<1> QED BY <1>1, <1>2, <1>3 DEF JournalInv

LEMMA NextGood == JournalInv /\ [Next]_vars => JournalInv'
<1> SUFFICES ASSUME JournalInv, [Next]_vars PROVE JournalInv' OBVIOUS
<1>1. CASE \E w \in writes : Perform(w) BY <1>1, PerformGood
<1>2. ASSUME NEW r \in Requests,
             \/ Submit(r) \/ Begun(r) \/ Answer(r) \/ Answered(r) \/ CancelRequest(r) \/ Cancelled(r)
      PROVE  JournalInv'
  BY <1>2, SubmitGood, BegunGood, AnswerGood, AnsweredGood, CancelRequestGood, CancelledGood
<1>3. ASSUME NEW r \in Requests,
             \/ CallTool(r) \/ Dispatch(r) \/ Return(r) \/ Raise(r) \/ Settle(r) \/ ToolOver(r)
      PROVE  JournalInv'
  BY <1>3, CallToolGood, DispatchGood, ReturnGood, RaiseGood, SettleGood, ToolOverGood
<1>4. ASSUME NEW r \in Requests,
             \/ AskConfirmation(r) \/ Decide(r) \/ Decided(r) \/ Executed(r) \/ Expire(r) \/ Concluded(r)
             \/ WithdrawOpen(r)
      PROVE  JournalInv'
  BY <1>4, AskConfirmationGood, DecideGood, DecidedGood, ExecutedGood, ExpireGood, ConcludedGood, WithdrawOpenGood
<1>5. CASE \E kind \in {"stop", "change"} : BeginStop(kind) BY <1>5, BeginStopGood
<1>6. CASE EndStop \/ SaveMode \/ Start \/ UNCHANGED vars BY <1>6, QuietStepGood
<1>7. CASE SetPrivate \/ Crash \/ Recover \/ Shutdown \/ Release
  BY <1>7, SetPrivateGood, CrashGood, RecoverGood, ShutdownGood, ReleaseGood
<1> QED BY <1>1, <1>2, <1>3, <1>4, <1>5, <1>6, <1>7 DEF Next

\* JournalInv holds: the rows of a request are in one table unless a change of
\* the table in use has split them, each of its pending writes belongs to the
\* point where its tasks wait, and its answer is written or about to be.
THEOREM JournalHolds == Spec => []JournalInv
BY InitGood, NextGood, PTL DEF Spec

LEMMA ReceiptsHonest == JournalInv => HonestReceipts
<1> SUFFICES ASSUME JournalInv, NEW r \in Requests \ strayed
             PROVE  /\ \A table \in Tables : \A i \in DOMAIN table.steps :
                         table.steps[i].of = r =>
                           /\ table.steps[i].status \in {"COMPLETED", "FAILED"} => table.steps[i].status \in outcome[r]
                           /\ table.steps[i].status = "CANCELLED" => outcome[r] = {}
                           /\ table.steps[i].status = "COMPLETED" => tool[r] # "raised"
                           /\ core = "up" /\ table.steps[i].status = "RUNNING" => tool[r] \notin {"over", "raised"}
                    /\ core = "up" /\ outcome[r] # {} /\ tool[r] \in {"over", "raised"} =>
                         \E table \in Tables : \E i \in DOMAIN table.steps :
                           /\ table.steps[i].of = r
                           /\ \/ table.steps[i].status \in outcome[r]
                              \/ table.steps[i].status = "INTERRUPTED_UNCERTAIN" /\ budget.crash < MaxCrashes
  BY DEF HonestReceipts
<1>0. Position(r) /\ Rows(r) BY DEF JournalInv, Good
<1>1. \A table \in Tables : \A i \in DOMAIN table.steps :
        table.steps[i].of = r => StatusOK(r, table.steps[i].status)
  BY <1>0 DEF Rows
<1>2. core = "up" => ~Ended BY DEF Ended
<1>3. ASSUME NEW table \in Tables, NEW i \in DOMAIN table.steps, table.steps[i].of = r
      PROVE  /\ table.steps[i].status \in {"COMPLETED", "FAILED"} => table.steps[i].status \in outcome[r]
             /\ table.steps[i].status = "CANCELLED" => outcome[r] = {}
             /\ table.steps[i].status = "COMPLETED" => tool[r] # "raised"
             /\ core = "up" /\ table.steps[i].status = "RUNNING" => tool[r] \notin {"over", "raised"}
  BY <1>1, <1>2, <1>3 DEF StatusOK
<1>4. ASSUME core = "up", outcome[r] # {}, tool[r] \in {"over", "raised"}
      PROVE  \E table \in Tables : \E i \in DOMAIN table.steps :
               /\ table.steps[i].of = r
               /\ \/ table.steps[i].status \in outcome[r]
                  \/ table.steps[i].status = "INTERRUPTED_UNCERTAIN" /\ budget.crash < MaxCrashes
  <2>1. PICK table \in Tables : \E i \in DOMAIN table.steps : table.steps[i].of = r
    BY <1>0, <1>4 DEF Rows, HasStep
  <2>2. PICK i \in DOMAIN table.steps : table.steps[i].of = r BY <2>1
  <2>3. ~Pending("tool", r)
    <3> SUFFICES ASSUME NEW w \in writes, w.of = r, w.from = "tool" PROVE FALSE BY DEF Pending
    <3>1. w.op \in {"start", "receipt"}
      BY DEF JournalInv, JournalTypeOK, WritesOK, BeginWrite, StartWrite, ReceiptWrites, FinishWrites, Write
    <3> QED BY <1>0, <1>4, <3>1 DEF Position
  <2>4. table.steps[i].status # "RUNNING" BY <1>3, <1>4, <2>2
  <2>5. StatusOK(r, table.steps[i].status) BY <1>1, <2>2
  <2> QED BY <1>4, <2>2, <2>3, <2>4, <2>5 DEF StatusOK
<1> QED BY <1>3, <1>4

\* HonestReceipts holds: what the journal says of a tool is what became of it,
\* whatever writes of its request, of its decision and of its recovery race with
\* its own (finish_step, finish, record_cancellation of _execute_tool).
THEOREM Receipts == Spec => []HonestReceipts
BY JournalHolds, ReceiptsHonest, PTL

LEMMA NoneLeftOver == JournalInv => NoZombies
<1> SUFFICES ASSUME JournalInv, core = "up", NEW r \in Requests \ (strayed \cup crossed),
                    NEW table \in Tables, table.task[r] \in Unfinished, at[r] \notin Busy
             PROVE  by[r] \notin {"none", "done"}
  BY DEF NoZombies
<1>1. Answering(r) /\ ~Ended BY DEF JournalInv, Good, Ended
<1>2. at[r] \in {"done", "dead", "new"} BY DEF JournalInv, JournalTypeOK
<1> QED BY <1>1, <1>2 DEF Answering, Tables

\* NoZombies holds: while the core runs, a task the journal calls running or
\* waiting is at work or can still be decided, after any number of restarts
\* (begin, finish, recover_interrupted).
THEOREM NoTaskLeftOver == Spec => []NoZombies
BY JournalHolds, NoneLeftOver, PTL

LEMMA AnswerWritten == JournalInv => AnswerStands
<1> SUFFICES ASSUME JournalInv, NEW r \in Requests \ (strayed \cup crossed),
                    at[r] = "done", by[r] \in {"none", "open", "done"}, answer[r] # "none"
             PROVE  \E table \in Tables : table.task[r] = answer[r]
  BY DEF AnswerStands
<1>1. Answering(r) BY DEF JournalInv, Good
<1> QED BY <1>1 DEF Answering, Says

\* AnswerStands holds: what a request was answered with is what the journal says
\* of it from then on (_run_journaled_request, resolve_confirmation).
THEOREM AnswersLast == Spec => []AnswerStands
BY JournalHolds, AnswerWritten, PTL

================================================================================
