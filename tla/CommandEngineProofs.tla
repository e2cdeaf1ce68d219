-------------------------- MODULE CommandEngineProofs --------------------------
(***************************************************************************)
(* The properties of CommandEngine hold for every number of commands, of   *)
(* calls in a turn, of suspensions and of stops.  One invariant carries    *)
(* them, a predicate of each command: until its confirmation is withdrawn  *)
(* a command that has begun is in _tool_history, which counts its calls,   *)
(* and a withdrawn confirmation finds the command suspended, or about to   *)
(* be, with nobody to continue it.                                         *)
(***************************************************************************)
EXTENDS CommandEngine, TLAPS

Working == {"preparing", "asking", "advancing", "calling", "recording", "completing"}

\* A call has been made that the history does not know.
Open == {"calling", "recording", "suspended", "resuming"}

Places == Working \cup Open \cup {"new", "queued", "done"}

TypeOK ==
  /\ at \in [Commands -> Places] /\ lock \in SUBSET Commands
  /\ turn \in [Commands -> Nat] /\ call \in [Commands -> Nat]
  /\ outputs \in [Commands -> Seq(Nat)] /\ made \in [Commands -> Seq(Nat)]
  /\ kept \in SUBSET Commands /\ history \in [Commands -> Nat] /\ pending \in SUBSET Commands
  /\ live \in SUBSET Commands /\ expired \in SUBSET Commands
  /\ resolver \in [Commands -> {"none", "deciding", "executing"}]
  /\ stops \in Nat /\ overtaken \in SUBSET (Commands \X {"call", "decision"})
  /\ called \in [Commands -> Nat] /\ asked \in [Commands -> Nat]
  /\ withdrawn \in SUBSET Commands /\ abandoned \in SUBSET Commands

Holding(c) == at[c] \in Working => lock = {c}

\* The calls of a turn, and the results so far.
Turns(c) ==
  /\ made[c] = Upto(call[c])
  /\ at[c] \in {"new", "queued", "preparing"}
       => turn[c] = 0 /\ call[c] = 0 /\ outputs[c] = <<>>
  /\ at[c] = "asking" => call[c] = turn[c] /\ outputs[c] = Upto(turn[c])
  /\ at[c] = "advancing" => turn[c] > 0 /\ call[c] <= turn[c] /\ outputs[c] = Upto(call[c])
  /\ at[c] \in Open => call[c] > 0 /\ call[c] <= turn[c] /\ outputs[c] = Upto(call[c] - 1)

\* A confirmation is live, being decided, withdrawn, or none of these.
Broker(c) ==
  /\ c \in live \cup expired \cup withdrawn \/ resolver[c] # "none"
       => at[c] \in {"recording", "suspended", "done"}
  /\ c \in pending => at[c] = "suspended"
  /\ c \in live \cup withdrawn => resolver[c] = "none"
  /\ c \in expired => c \in withdrawn
  /\ c \in withdrawn => c \notin live

Remembered(c) ==
  /\ at[c] \in (Working \cup Open) /\ c \notin withdrawn => c \in kept
  /\ c \in kept \ abandoned => at[c] \notin {"new", "queued", "done"}
  /\ c \in abandoned => at[c] = "done"

Counts(c) ==
  /\ called[c] <= max_tool_calls /\ asked[c] <= max_tool_calls + 1
  /\ at[c] \in {"new", "queued", "preparing"} => called[c] = 0 /\ asked[c] = 0
  /\ at[c] \in {"asking", "advancing"} => called[c] <= history[c]
  /\ at[c] \in Open => called[c] <= history[c] + 1
  /\ at[c] = "asking" => asked[c] <= called[c] + 1
  /\ at[c] \in {"advancing"} \cup Open => asked[c] <= called[c] + (IF call[c] = 0 THEN 1 ELSE 0)

Good(c) == Turns(c) /\ Broker(c) /\ Remembered(c) /\ Counts(c)

IInv == TypeOK /\ \A c \in Commands : Holding(c) /\ Good(c)

USE DEF Goto, Call, Decision, Working, Open, Places,
        vars, turnVars, historyVars, brokerVars, stopVars, ghostVars

LEMMA UptoZero == Upto(0) = <<>>
  BY DEF Upto

LEMMA AppendUpto == ASSUME NEW n \in Nat PROVE Append(Upto(n), n + 1) = Upto(n + 1)
  BY DEF Upto

LEMMA InitIInv == Init => IInv
  BY UptoZero DEF Init, IInv, TypeOK, Holding, Good, Turns, Broker, Remembered, Counts, max_tool_calls

\* What a step does not touch of a command stays good.
Same(c) ==
  /\ at'[c] = at[c] /\ turn'[c] = turn[c] /\ call'[c] = call[c]
  /\ outputs'[c] = outputs[c] /\ made'[c] = made[c] /\ history'[c] = history[c]
  /\ resolver'[c] = resolver[c] /\ called'[c] = called[c] /\ asked'[c] = asked[c]
  /\ c \in kept' <=> c \in kept
  /\ c \in pending' <=> c \in pending
  /\ c \in live' <=> c \in live
  /\ c \in expired' <=> c \in expired
  /\ c \in withdrawn' <=> c \in withdrawn
  /\ c \in abandoned' <=> c \in abandoned

LEMMA Frame == ASSUME NEW c \in Commands, Good(c), Same(c) PROVE Good(c)'
<1>1. Turns(c)'
  BY DEF Good, Same, Turns, Upto
<1>2. Broker(c)'
  BY DEF Good, Same, Broker
<1>3. Remembered(c)'
  BY DEF Good, Same, Remembered
<1>4. Counts(c)'
  BY DEF Good, Same, Counts, max_tool_calls
<1> QED
  BY <1>1, <1>2, <1>3, <1>4 DEF Good

LEMMA StepIInv == IInv /\ [Next]_vars => IInv'
<1> SUFFICES ASSUME IInv, [Next]_vars PROVE IInv'
  OBVIOUS
<1>0. TypeOK /\ \A c \in Commands : Holding(c) /\ Good(c)
  BY DEF IInv
<1>1. ASSUME NEW c \in Commands, Submit(c) PROVE IInv'
  <2>0. Holding(c) /\ Turns(c) /\ Broker(c) /\ Remembered(c) /\ Counts(c)
    BY <1>0 DEF Good
  <2>1. TypeOK'
    BY <1>1, <1>0 DEF TypeOK, Submit
  <2>2. \A d \in Commands : Holding(d)'
    BY <1>1, <1>0 DEF TypeOK, Holding, Submit
  <2>3. ASSUME NEW d \in Commands, d # c PROVE Good(d)'
    BY <1>1, <1>0, <2>3, Frame DEF TypeOK, Same, Submit
  <2>4. Good(c)'
    <3>1. Turns(c)'
      BY <1>1, <1>0, <2>0, UptoZero, AppendUpto DEF TypeOK, Turns, Broker, Submit
    <3>2. Broker(c)'
      BY <1>1, <1>0, <2>0 DEF TypeOK, Broker, Submit
    <3>3. Remembered(c)'
      BY <1>1, <1>0, <2>0 DEF TypeOK, Broker, Remembered, Submit
    <3>4. Counts(c)'
      BY <1>1, <1>0, <2>0 DEF TypeOK, Turns, Broker, Remembered, Counts, max_tool_calls, Submit
    <3> QED
      BY <3>1, <3>2, <3>3, <3>4 DEF Good
  <2> QED
    BY <2>1, <2>2, <2>3, <2>4 DEF IInv
<1>2. ASSUME NEW c \in Commands, Enter(c) PROVE IInv'
  <2>0. Holding(c) /\ Turns(c) /\ Broker(c) /\ Remembered(c) /\ Counts(c)
    BY <1>0 DEF Good
  <2>1. TypeOK'
    BY <1>2, <1>0 DEF TypeOK, Enter
  <2>2. \A d \in Commands : Holding(d)'
    BY <1>2, <1>0 DEF TypeOK, Holding, Enter
  <2>3. ASSUME NEW d \in Commands, d # c PROVE Good(d)'
    BY <1>2, <1>0, <2>3, Frame DEF TypeOK, Same, Enter
  <2>4. Good(c)'
    <3>1. Turns(c)'
      BY <1>2, <1>0, <2>0, UptoZero, AppendUpto DEF TypeOK, Turns, Broker, Enter
    <3>2. Broker(c)'
      BY <1>2, <1>0, <2>0 DEF TypeOK, Broker, Enter
    <3>3. Remembered(c)'
      BY <1>2, <1>0, <2>0 DEF TypeOK, Broker, Remembered, Enter
    <3>4. Counts(c)'
      BY <1>2, <1>0, <2>0 DEF TypeOK, Turns, Broker, Remembered, Counts, max_tool_calls, Enter
    <3> QED
      BY <3>1, <3>2, <3>3, <3>4 DEF Good
  <2> QED
    BY <2>1, <2>2, <2>3, <2>4 DEF IInv
<1>3. ASSUME NEW c \in Commands, Prepare(c) PROVE IInv'
  <2>0. Holding(c) /\ Turns(c) /\ Broker(c) /\ Remembered(c) /\ Counts(c)
    BY <1>0 DEF Good
  <2>1. TypeOK'
    <3>1. asked' \in [Commands -> Nat]
      BY <1>3, <1>0 DEF TypeOK, Prepare
    <3> QED
      BY <1>3, <1>0, <3>1 DEF TypeOK, Prepare
  <2>2. \A d \in Commands : Holding(d)'
    BY <1>3, <1>0 DEF TypeOK, Holding, Prepare
  <2>3. ASSUME NEW d \in Commands, d # c PROVE Good(d)'
    BY <1>3, <1>0, <2>3, Frame DEF TypeOK, Same, Prepare
  <2>4. Good(c)'
    <3>1. Turns(c)'
      BY <1>3, <1>0, <2>0, UptoZero, AppendUpto DEF TypeOK, Turns, Broker, Prepare
    <3>2. Broker(c)'
      BY <1>3, <1>0, <2>0 DEF TypeOK, Broker, Prepare
    <3>3. Remembered(c)'
      BY <1>3, <1>0, <2>0 DEF TypeOK, Broker, Remembered, Prepare
    <3>4. Counts(c)'
      BY <1>3, <1>0, <2>0 DEF TypeOK, Turns, Broker, Remembered, Counts, max_tool_calls, Prepare
    <3> QED
      BY <3>1, <3>2, <3>3, <3>4 DEF Good
  <2> QED
    BY <2>1, <2>2, <2>3, <2>4 DEF IInv
<1>4. ASSUME NEW c \in Commands, Reply(c) PROVE IInv'
  <2>0. Holding(c) /\ Turns(c) /\ Broker(c) /\ Remembered(c) /\ Counts(c)
    BY <1>0 DEF Good
  <2>1. TypeOK'
    <3>1. <<>> \in Seq(Nat)
      OBVIOUS
    <3>2. CASE UNCHANGED turnVars
      BY <1>4, <1>0, <3>2 DEF TypeOK, Reply
    <3>3. ASSUME NEW n \in Nat \ {0}, turn' = [turn EXCEPT ![c] = n],
                 call' = [call EXCEPT ![c] = 0],
                 outputs' = [outputs EXCEPT ![c] = <<>>], made' = [made EXCEPT ![c] = <<>>]
          PROVE TypeOK'
      <4>1. outputs' \in [Commands -> Seq(Nat)] /\ made' \in [Commands -> Seq(Nat)]
        BY <1>0, <3>1, <3>3 DEF TypeOK
      <4>2. turn' \in [Commands -> Nat] /\ call' \in [Commands -> Nat]
        BY <1>0, <3>3 DEF TypeOK
      <4> QED
        BY ZenonT(60), <1>4, <1>0, <4>1, <4>2 DEF TypeOK, Reply
    <3> QED
      BY <1>4, <3>2, <3>3 DEF Reply
  <2>2. \A d \in Commands : Holding(d)'
    BY <1>4, <1>0 DEF TypeOK, Holding, Reply
  <2>3. ASSUME NEW d \in Commands, d # c PROVE Good(d)'
    BY <1>4, <1>0, <2>3, Frame DEF TypeOK, Same, Reply
  <2>4. Good(c)'
    <3>1. Turns(c)'
      <4>1. \/ UNCHANGED turnVars /\ at'[c] = "completing"
            \/ /\ at'[c] = "advancing" /\ turn'[c] > 0 /\ turn'[c] \in Nat /\ call'[c] = 0
               /\ outputs'[c] = <<>> /\ made'[c] = <<>>
        BY <1>4, <1>0 DEF TypeOK, Reply
      <4>2. CASE UNCHANGED turnVars /\ at'[c] = "completing"
        BY <2>0, <4>2 DEF Turns, Upto
      <4>3. CASE /\ at'[c] = "advancing" /\ turn'[c] > 0 /\ turn'[c] \in Nat /\ call'[c] = 0
                 /\ outputs'[c] = <<>> /\ made'[c] = <<>>
        BY <4>3, UptoZero DEF Turns
      <4> QED
        BY <4>1, <4>2, <4>3
    <3>2. Broker(c)'
      BY <1>4, <1>0, <2>0 DEF TypeOK, Broker, Reply
    <3>3. Remembered(c)'
      BY <1>4, <1>0, <2>0 DEF TypeOK, Broker, Remembered, Reply
    <3>4. Counts(c)'
      BY <1>4, <1>0, <2>0 DEF TypeOK, Turns, Broker, Remembered, Counts, max_tool_calls, Reply
    <3> QED
      BY <3>1, <3>2, <3>3, <3>4 DEF Good
  <2> QED
    BY <2>1, <2>2, <2>3, <2>4 DEF IInv
<1>5. ASSUME NEW c \in Commands, Exhaust(c) PROVE IInv'
  <2>0. Holding(c) /\ Turns(c) /\ Broker(c) /\ Remembered(c) /\ Counts(c)
    BY <1>0 DEF Good
  <2>1. TypeOK'
    BY <1>5, <1>0 DEF TypeOK, Exhaust
  <2>2. \A d \in Commands : Holding(d)'
    BY <1>5, <1>0 DEF TypeOK, Holding, Exhaust
  <2>3. ASSUME NEW d \in Commands, d # c PROVE Good(d)'
    BY <1>5, <1>0, <2>3, Frame DEF TypeOK, Same, Exhaust
  <2>4. Good(c)'
    <3>1. Turns(c)'
      BY <1>5, <1>0, <2>0, UptoZero, AppendUpto DEF TypeOK, Turns, Broker, Exhaust
    <3>2. Broker(c)'
      BY <1>5, <1>0, <2>0 DEF TypeOK, Broker, Exhaust
    <3>3. Remembered(c)'
      BY <1>5, <1>0, <2>0 DEF TypeOK, Broker, Remembered, Exhaust
    <3>4. Counts(c)'
      BY <1>5, <1>0, <2>0 DEF TypeOK, Turns, Broker, Remembered, Counts, max_tool_calls, Exhaust
    <3> QED
      BY <3>1, <3>2, <3>3, <3>4 DEF Good
  <2> QED
    BY <2>1, <2>2, <2>3, <2>4 DEF IInv
<1>6. ASSUME NEW c \in Commands, MakeCall(c) PROVE IInv'
  <2>0. Holding(c) /\ Turns(c) /\ Broker(c) /\ Remembered(c) /\ Counts(c)
    BY <1>0 DEF Good
  <2>1. TypeOK'
    <3>1. Append(made[c], call[c] + 1) \in Seq(Nat)
      BY <1>0 DEF TypeOK
    <3>2. made' \in [Commands -> Seq(Nat)]
      BY <1>6, <1>0, <3>1 DEF TypeOK, MakeCall
    <3>3. call' \in [Commands -> Nat] /\ called' \in [Commands -> Nat]
      BY <1>6, <1>0 DEF TypeOK, MakeCall
    <3> QED
      BY <1>6, <1>0, <3>2, <3>3 DEF TypeOK, MakeCall
  <2>2. \A d \in Commands : Holding(d)'
    BY <1>6, <1>0 DEF TypeOK, Holding, MakeCall
  <2>3. ASSUME NEW d \in Commands, d # c PROVE Good(d)'
    BY <1>6, <1>0, <2>3, Frame DEF TypeOK, Same, MakeCall
  <2>4. Good(c)'
    <3>1. Turns(c)'
      <4>1. made'[c] = Append(made[c], call[c] + 1) /\ call'[c] = call[c] + 1 /\ call[c] \in Nat
        BY <1>6, <1>0 DEF TypeOK, MakeCall
      <4>2. made'[c] = Upto(call'[c])
        BY <4>1, <2>0, AppendUpto DEF Turns
      <4>3. /\ at[c] = "advancing" /\ at'[c] = "calling" /\ turn'[c] = turn[c]
            /\ outputs'[c] = outputs[c] /\ call[c] < turn[c] /\ turn[c] \in Nat
        BY <1>6, <1>0 DEF TypeOK, MakeCall
      <4>4. outputs'[c] = Upto(call[c]) /\ call'[c] - 1 = call[c]
        BY <4>1, <4>3, <2>0 DEF Turns
      <4>5. outputs'[c] = Upto(call'[c] - 1)
        BY <4>4
      <4> QED
        BY <4>1, <4>2, <4>3, <4>5 DEF Turns
    <3>2. Broker(c)'
      BY <1>6, <1>0, <2>0 DEF TypeOK, Broker, MakeCall
    <3>3. Remembered(c)'
      BY <1>6, <1>0, <2>0 DEF TypeOK, Broker, Remembered, MakeCall
    <3>4. Counts(c)'
      BY <1>6, <1>0, <2>0 DEF TypeOK, Turns, Broker, Remembered, Counts, max_tool_calls, MakeCall
    <3> QED
      BY <3>1, <3>2, <3>3, <3>4 DEF Good
  <2> QED
    BY <2>1, <2>2, <2>3, <2>4 DEF IInv
<1>7. ASSUME NEW c \in Commands, Answered(c) PROVE IInv'
  <2>0. Holding(c) /\ Turns(c) /\ Broker(c) /\ Remembered(c) /\ Counts(c)
    BY <1>0 DEF Good
  <2>1. TypeOK'
    <3>1. Append(outputs[c], call[c]) \in Seq(Nat)
      BY <1>0 DEF TypeOK
    <3>2. outputs' \in [Commands -> Seq(Nat)]
      BY <1>7, <1>0, <3>1 DEF TypeOK, Answered
    <3>3. history' \in [Commands -> Nat]
      BY <1>7, <1>0 DEF TypeOK, Answered
    <3> QED
      BY <1>7, <1>0, <3>2, <3>3 DEF TypeOK, Answered
  <2>2. \A d \in Commands : Holding(d)'
    BY <1>7, <1>0 DEF TypeOK, Holding, Answered
  <2>3. ASSUME NEW d \in Commands, d # c PROVE Good(d)'
    BY <1>7, <1>0, <2>3, Frame DEF TypeOK, Same, Answered
  <2>4. Good(c)'
    <3>1. Turns(c)'
      <4>1. /\ at[c] = "calling" /\ at'[c] = "advancing" /\ call'[c] = call[c] /\ turn'[c] = turn[c]
            /\ made'[c] = made[c] /\ outputs'[c] = Append(outputs[c], call[c])
            /\ call[c] \in Nat /\ turn[c] \in Nat
        BY <1>7, <1>0 DEF TypeOK, Answered
      <4>2. call[c] > 0 /\ call[c] <= turn[c] /\ outputs[c] = Upto(call[c] - 1)
        BY <4>1, <2>0 DEF Turns
      <4>3. call[c] - 1 \in Nat /\ (call[c] - 1) + 1 = call[c]
        BY <4>1, <4>2
      <4>4. Append(Upto(call[c] - 1), call[c]) = Upto(call[c])
        BY <4>3, AppendUpto
      <4> QED
        BY <4>1, <4>2, <4>4, <2>0 DEF Turns
    <3>2. Broker(c)'
      BY <1>7, <1>0, <2>0 DEF TypeOK, Broker, Answered
    <3>3. Remembered(c)'
      BY <1>7, <1>0, <2>0 DEF TypeOK, Broker, Remembered, Answered
    <3>4. Counts(c)'
      BY <1>7, <1>0, <2>0 DEF TypeOK, Turns, Broker, Remembered, Counts, max_tool_calls, Answered
    <3> QED
      BY <3>1, <3>2, <3>3, <3>4 DEF Good
  <2> QED
    BY <2>1, <2>2, <2>3, <2>4 DEF IInv
<1>8. ASSUME NEW c \in Commands, Cancelled(c) PROVE IInv'
  <2>0. Holding(c) /\ Turns(c) /\ Broker(c) /\ Remembered(c) /\ Counts(c)
    BY <1>0 DEF Good
  <2>1. TypeOK'
    BY <1>8, <1>0 DEF TypeOK, Cancelled
  <2>2. \A d \in Commands : Holding(d)'
    BY <1>8, <1>0 DEF TypeOK, Holding, Cancelled
  <2>3. ASSUME NEW d \in Commands, d # c PROVE Good(d)'
    BY <1>8, <1>0, <2>3, Frame DEF TypeOK, Same, Cancelled
  <2>4. Good(c)'
    <3>1. Turns(c)'
      BY <1>8, <1>0, <2>0, UptoZero, AppendUpto DEF TypeOK, Turns, Broker, Cancelled
    <3>2. Broker(c)'
      BY <1>8, <1>0, <2>0 DEF TypeOK, Broker, Cancelled
    <3>3. Remembered(c)'
      BY <1>8, <1>0, <2>0 DEF TypeOK, Broker, Remembered, Cancelled
    <3>4. Counts(c)'
      BY <1>8, <1>0, <2>0 DEF TypeOK, Turns, Broker, Remembered, Counts, max_tool_calls, Cancelled
    <3> QED
      BY <3>1, <3>2, <3>3, <3>4 DEF Good
  <2> QED
    BY <2>1, <2>2, <2>3, <2>4 DEF IInv
<1>9. ASSUME NEW c \in Commands, NeedConfirmation(c) PROVE IInv'
  <2>0. Holding(c) /\ Turns(c) /\ Broker(c) /\ Remembered(c) /\ Counts(c)
    BY <1>0 DEF Good
  <2>1. TypeOK'
    BY <1>9, <1>0 DEF TypeOK, NeedConfirmation
  <2>2. \A d \in Commands : Holding(d)'
    BY <1>9, <1>0 DEF TypeOK, Holding, NeedConfirmation
  <2>3. ASSUME NEW d \in Commands, d # c PROVE Good(d)'
    BY <1>9, <1>0, <2>3, Frame DEF TypeOK, Same, NeedConfirmation
  <2>4. Good(c)'
    <3>1. Turns(c)'
      BY <1>9, <1>0, <2>0, UptoZero, AppendUpto DEF TypeOK, Turns, Broker, NeedConfirmation
    <3>2. Broker(c)'
      BY <1>9, <1>0, <2>0 DEF TypeOK, Broker, NeedConfirmation
    <3>3. Remembered(c)'
      BY <1>9, <1>0, <2>0 DEF TypeOK, Broker, Remembered, NeedConfirmation
    <3>4. Counts(c)'
      BY <1>9, <1>0, <2>0 DEF TypeOK, Turns, Broker, Remembered, Counts, max_tool_calls, NeedConfirmation
    <3> QED
      BY <3>1, <3>2, <3>3, <3>4 DEF Good
  <2> QED
    BY <2>1, <2>2, <2>3, <2>4 DEF IInv
<1>10. ASSUME NEW c \in Commands, Suspend(c) PROVE IInv'
  <2>0. Holding(c) /\ Turns(c) /\ Broker(c) /\ Remembered(c) /\ Counts(c)
    BY <1>0 DEF Good
  <2>1. TypeOK'
    BY <1>10, <1>0 DEF TypeOK, Suspend
  <2>2. \A d \in Commands : Holding(d)'
    BY <1>10, <1>0 DEF TypeOK, Holding, Suspend
  <2>3. ASSUME NEW d \in Commands, d # c PROVE Good(d)'
    BY <1>10, <1>0, <2>3, Frame DEF TypeOK, Same, Suspend
  <2>4. Good(c)'
    <3>1. Turns(c)'
      BY <1>10, <1>0, <2>0, UptoZero, AppendUpto DEF TypeOK, Turns, Broker, Suspend
    <3>2. Broker(c)'
      BY <1>10, <1>0, <2>0 DEF TypeOK, Broker, Suspend
    <3>3. Remembered(c)'
      BY <1>10, <1>0, <2>0 DEF TypeOK, Broker, Remembered, Suspend
    <3>4. Counts(c)'
      BY <1>10, <1>0, <2>0 DEF TypeOK, Turns, Broker, Remembered, Counts, max_tool_calls, Suspend
    <3> QED
      BY <3>1, <3>2, <3>3, <3>4 DEF Good
  <2> QED
    BY <2>1, <2>2, <2>3, <2>4 DEF IInv
<1>11. ASSUME NEW c \in Commands, AskAgain(c) PROVE IInv'
  <2>0. Holding(c) /\ Turns(c) /\ Broker(c) /\ Remembered(c) /\ Counts(c)
    BY <1>0 DEF Good
  <2>1. TypeOK'
    <3>1. asked' \in [Commands -> Nat]
      BY <1>11, <1>0 DEF TypeOK, AskAgain
    <3> QED
      BY <1>11, <1>0, <3>1 DEF TypeOK, AskAgain
  <2>2. \A d \in Commands : Holding(d)'
    BY <1>11, <1>0 DEF TypeOK, Holding, AskAgain
  <2>3. ASSUME NEW d \in Commands, d # c PROVE Good(d)'
    BY <1>11, <1>0, <2>3, Frame DEF TypeOK, Same, AskAgain
  <2>4. Good(c)'
    <3>1. Turns(c)'
      BY <1>11, <1>0, <2>0, UptoZero, AppendUpto DEF TypeOK, Turns, Broker, AskAgain
    <3>2. Broker(c)'
      BY <1>11, <1>0, <2>0 DEF TypeOK, Broker, AskAgain
    <3>3. Remembered(c)'
      BY <1>11, <1>0, <2>0 DEF TypeOK, Broker, Remembered, AskAgain
    <3>4. Counts(c)'
      BY <1>11, <1>0, <2>0 DEF TypeOK, Turns, Broker, Remembered, Counts, max_tool_calls, AskAgain
    <3> QED
      BY <3>1, <3>2, <3>3, <3>4 DEF Good
  <2> QED
    BY <2>1, <2>2, <2>3, <2>4 DEF IInv
<1>12. ASSUME NEW c \in Commands, Decide(c) PROVE IInv'
  <2>0. Holding(c) /\ Turns(c) /\ Broker(c) /\ Remembered(c) /\ Counts(c)
    BY <1>0 DEF Good
  <2>1. TypeOK'
    BY <1>12, <1>0 DEF TypeOK, Decide
  <2>2. \A d \in Commands : Holding(d)'
    BY <1>12, <1>0 DEF TypeOK, Holding, Decide
  <2>3. ASSUME NEW d \in Commands, d # c PROVE Good(d)'
    BY <1>12, <1>0, <2>3, Frame DEF TypeOK, Same, Decide
  <2>4. Good(c)'
    <3>1. Turns(c)'
      BY <1>12, <1>0, <2>0, UptoZero, AppendUpto DEF TypeOK, Turns, Broker, Decide
    <3>2. Broker(c)'
      BY <1>12, <1>0, <2>0 DEF TypeOK, Broker, Decide
    <3>3. Remembered(c)'
      BY <1>12, <1>0, <2>0 DEF TypeOK, Broker, Remembered, Decide
    <3>4. Counts(c)'
      BY <1>12, <1>0, <2>0 DEF TypeOK, Turns, Broker, Remembered, Counts, max_tool_calls, Decide
    <3> QED
      BY <3>1, <3>2, <3>3, <3>4 DEF Good
  <2> QED
    BY <2>1, <2>2, <2>3, <2>4 DEF IInv
<1>13. ASSUME NEW c \in Commands, Voided(c) PROVE IInv'
  <2>0. Holding(c) /\ Turns(c) /\ Broker(c) /\ Remembered(c) /\ Counts(c)
    BY <1>0 DEF Good
  <2>1. TypeOK'
    BY <1>13, <1>0 DEF TypeOK, Voided
  <2>2. \A d \in Commands : Holding(d)'
    BY <1>13, <1>0 DEF TypeOK, Holding, Voided
  <2>3. ASSUME NEW d \in Commands, d # c PROVE Good(d)'
    BY <1>13, <1>0, <2>3, Frame DEF TypeOK, Same, Voided
  <2>4. Good(c)'
    <3>1. Turns(c)'
      BY <1>13, <1>0, <2>0, UptoZero, AppendUpto DEF TypeOK, Turns, Broker, Voided
    <3>2. Broker(c)'
      BY <1>13, <1>0, <2>0 DEF TypeOK, Broker, Voided
    <3>3. Remembered(c)'
      BY <1>13, <1>0, <2>0 DEF TypeOK, Broker, Remembered, Voided
    <3>4. Counts(c)'
      BY <1>13, <1>0, <2>0 DEF TypeOK, Turns, Broker, Remembered, Counts, max_tool_calls, Voided
    <3> QED
      BY <3>1, <3>2, <3>3, <3>4 DEF Good
  <2> QED
    BY <2>1, <2>2, <2>3, <2>4 DEF IInv
<1>14. ASSUME NEW c \in Commands, Resume(c) PROVE IInv'
  <2>0. Holding(c) /\ Turns(c) /\ Broker(c) /\ Remembered(c) /\ Counts(c)
    BY <1>0 DEF Good
  <2>1. TypeOK'
    BY <1>14, <1>0 DEF TypeOK, Resume
  <2>2. \A d \in Commands : Holding(d)'
    BY <1>14, <1>0 DEF TypeOK, Holding, Resume
  <2>3. ASSUME NEW d \in Commands, d # c PROVE Good(d)'
    BY <1>14, <1>0, <2>3, Frame DEF TypeOK, Same, Resume
  <2>4. Good(c)'
    <3>1. Turns(c)'
      BY <1>14, <1>0, <2>0, UptoZero, AppendUpto DEF TypeOK, Turns, Broker, Resume
    <3>2. Broker(c)'
      BY <1>14, <1>0, <2>0 DEF TypeOK, Broker, Resume
    <3>3. Remembered(c)'
      BY <1>14, <1>0, <2>0 DEF TypeOK, Broker, Remembered, Resume
    <3>4. Counts(c)'
      BY <1>14, <1>0, <2>0 DEF TypeOK, Turns, Broker, Remembered, Counts, max_tool_calls, Resume
    <3> QED
      BY <3>1, <3>2, <3>3, <3>4 DEF Good
  <2> QED
    BY <2>1, <2>2, <2>3, <2>4 DEF IInv
<1>15. ASSUME NEW c \in Commands, ResolverFails(c) PROVE IInv'
  <2>0. Holding(c) /\ Turns(c) /\ Broker(c) /\ Remembered(c) /\ Counts(c)
    BY <1>0 DEF Good
  <2>1. TypeOK'
    BY <1>15, <1>0 DEF TypeOK, ResolverFails
  <2>2. \A d \in Commands : Holding(d)'
    BY <1>15, <1>0 DEF TypeOK, Holding, ResolverFails
  <2>3. ASSUME NEW d \in Commands, d # c PROVE Good(d)'
    BY <1>15, <1>0, <2>3, Frame DEF TypeOK, Same, ResolverFails
  <2>4. Good(c)'
    <3>1. Turns(c)'
      BY <1>15, <1>0, <2>0, UptoZero, AppendUpto DEF TypeOK, Turns, Broker, ResolverFails
    <3>2. Broker(c)'
      BY <1>15, <1>0, <2>0 DEF TypeOK, Broker, ResolverFails
    <3>3. Remembered(c)'
      BY <1>15, <1>0, <2>0 DEF TypeOK, Broker, Remembered, ResolverFails
    <3>4. Counts(c)'
      BY <1>15, <1>0, <2>0 DEF TypeOK, Turns, Broker, Remembered, Counts, max_tool_calls, ResolverFails
    <3> QED
      BY <3>1, <3>2, <3>3, <3>4 DEF Good
  <2> QED
    BY <2>1, <2>2, <2>3, <2>4 DEF IInv
<1>16. ASSUME NEW c \in Commands, TakeSession(c) PROVE IInv'
  <2>0. Holding(c) /\ Turns(c) /\ Broker(c) /\ Remembered(c) /\ Counts(c)
    BY <1>0 DEF Good
  <2>1. TypeOK'
    BY <1>16, <1>0 DEF TypeOK, TakeSession
  <2>2. \A d \in Commands : Holding(d)'
    BY <1>16, <1>0 DEF TypeOK, Holding, TakeSession
  <2>3. ASSUME NEW d \in Commands, d # c PROVE Good(d)'
    BY <1>16, <1>0, <2>3, Frame DEF TypeOK, Same, TakeSession
  <2>4. Good(c)'
    <3>1. Turns(c)'
      BY <1>16, <1>0, <2>0, UptoZero, AppendUpto DEF TypeOK, Turns, Broker, TakeSession
    <3>2. Broker(c)'
      BY <1>16, <1>0, <2>0 DEF TypeOK, Broker, TakeSession
    <3>3. Remembered(c)'
      BY <1>16, <1>0, <2>0 DEF TypeOK, Broker, Remembered, TakeSession
    <3>4. Counts(c)'
      BY <1>16, <1>0, <2>0 DEF TypeOK, Turns, Broker, Remembered, Counts, max_tool_calls, TakeSession
    <3> QED
      BY <3>1, <3>2, <3>3, <3>4 DEF Good
  <2> QED
    BY <2>1, <2>2, <2>3, <2>4 DEF IInv
<1>17. ASSUME NEW c \in Commands, Continue(c) PROVE IInv'
  <2>0. Holding(c) /\ Turns(c) /\ Broker(c) /\ Remembered(c) /\ Counts(c)
    BY <1>0 DEF Good
  <2>1. TypeOK'
    <3>1. Append(outputs[c], call[c]) \in Seq(Nat)
      BY <1>0 DEF TypeOK
    <3>2. outputs' \in [Commands -> Seq(Nat)]
      BY <1>17, <1>0, <3>1 DEF TypeOK, Continue
    <3>3. history' \in [Commands -> Nat]
      BY <1>17, <1>0 DEF TypeOK, Continue
    <3> QED
      BY <1>17, <1>0, <3>2, <3>3 DEF TypeOK, Continue
  <2>2. \A d \in Commands : Holding(d)'
    BY <1>17, <1>0 DEF TypeOK, Holding, Continue
  <2>3. ASSUME NEW d \in Commands, d # c PROVE Good(d)'
    BY <1>17, <1>0, <2>3, Frame DEF TypeOK, Same, Continue
  <2>4. Good(c)'
    <3>1. Turns(c)'
      <4>1. /\ at[c] = "resuming" /\ at'[c] = "advancing" /\ call'[c] = call[c] /\ turn'[c] = turn[c]
            /\ made'[c] = made[c] /\ outputs'[c] = Append(outputs[c], call[c])
            /\ call[c] \in Nat /\ turn[c] \in Nat
        BY <1>17, <1>0 DEF TypeOK, Continue
      <4>2. call[c] > 0 /\ call[c] <= turn[c] /\ outputs[c] = Upto(call[c] - 1)
        BY <4>1, <2>0 DEF Turns
      <4>3. call[c] - 1 \in Nat /\ (call[c] - 1) + 1 = call[c]
        BY <4>1, <4>2
      <4>4. Append(Upto(call[c] - 1), call[c]) = Upto(call[c])
        BY <4>3, AppendUpto
      <4> QED
        BY <4>1, <4>2, <4>4, <2>0 DEF Turns
    <3>2. Broker(c)'
      BY <1>17, <1>0, <2>0 DEF TypeOK, Broker, Continue
    <3>3. Remembered(c)'
      BY <1>17, <1>0, <2>0 DEF TypeOK, Broker, Remembered, Continue
    <3>4. Counts(c)'
      BY <1>17, <1>0, <2>0 DEF TypeOK, Turns, Broker, Remembered, Counts, max_tool_calls, Continue
    <3> QED
      BY <3>1, <3>2, <3>3, <3>4 DEF Good
  <2> QED
    BY <2>1, <2>2, <2>3, <2>4 DEF IInv
<1>18. ASSUME NEW c \in Commands, Complete(c) PROVE IInv'
  <2>0. Holding(c) /\ Turns(c) /\ Broker(c) /\ Remembered(c) /\ Counts(c)
    BY <1>0 DEF Good
  <2>1. TypeOK'
    BY <1>18, <1>0 DEF TypeOK, Complete
  <2>2. \A d \in Commands : Holding(d)'
    BY <1>18, <1>0 DEF TypeOK, Holding, Complete
  <2>3. ASSUME NEW d \in Commands, d # c PROVE Good(d)'
    BY <1>18, <1>0, <2>3, Frame DEF TypeOK, Same, Complete
  <2>4. Good(c)'
    <3>1. Turns(c)'
      BY <1>18, <1>0, <2>0, UptoZero, AppendUpto DEF TypeOK, Turns, Broker, Complete
    <3>2. Broker(c)'
      BY <1>18, <1>0, <2>0 DEF TypeOK, Broker, Complete
    <3>3. Remembered(c)'
      BY <1>18, <1>0, <2>0 DEF TypeOK, Broker, Remembered, Complete
    <3>4. Counts(c)'
      BY <1>18, <1>0, <2>0 DEF TypeOK, Turns, Broker, Remembered, Counts, max_tool_calls, Complete
    <3> QED
      BY <3>1, <3>2, <3>3, <3>4 DEF Good
  <2> QED
    BY <2>1, <2>2, <2>3, <2>4 DEF IInv
<1>19. ASSUME NEW c \in Commands, Fail(c) PROVE IInv'
  <2>0. Holding(c) /\ Turns(c) /\ Broker(c) /\ Remembered(c) /\ Counts(c)
    BY <1>0 DEF Good
  <2>1. TypeOK'
    BY <1>19, <1>0 DEF TypeOK, Fail
  <2>2. \A d \in Commands : Holding(d)'
    BY <1>19, <1>0 DEF TypeOK, Holding, Fail
  <2>3. ASSUME NEW d \in Commands, d # c PROVE Good(d)'
    BY <1>19, <1>0, <2>3, Frame DEF TypeOK, Same, Fail
  <2>4. Good(c)'
    <3>1. Turns(c)'
      BY <1>19, <1>0, <2>0, UptoZero, AppendUpto DEF TypeOK, Turns, Broker, Fail
    <3>2. Broker(c)'
      BY <1>19, <1>0, <2>0 DEF TypeOK, Broker, Fail
    <3>3. Remembered(c)'
      BY <1>19, <1>0, <2>0 DEF TypeOK, Broker, Remembered, Fail
    <3>4. Counts(c)'
      BY <1>19, <1>0, <2>0 DEF TypeOK, Turns, Broker, Remembered, Counts, max_tool_calls, Fail
    <3> QED
      BY <3>1, <3>2, <3>3, <3>4 DEF Good
  <2> QED
    BY <2>1, <2>2, <2>3, <2>4 DEF IInv
<1>20. ASSUME NEW c \in Commands, CancelWaiting(c) PROVE IInv'
  <2>0. Holding(c) /\ Turns(c) /\ Broker(c) /\ Remembered(c) /\ Counts(c)
    BY <1>0 DEF Good
  <2>1. TypeOK'
    BY <1>20, <1>0 DEF TypeOK, CancelWaiting
  <2>2. \A d \in Commands : Holding(d)'
    BY <1>20, <1>0 DEF TypeOK, Holding, CancelWaiting
  <2>3. ASSUME NEW d \in Commands, d # c PROVE Good(d)'
    BY <1>20, <1>0, <2>3, Frame DEF TypeOK, Same, CancelWaiting
  <2>4. Good(c)'
    <3>1. Turns(c)'
      BY <1>20, <1>0, <2>0, UptoZero, AppendUpto DEF TypeOK, Turns, Broker, CancelWaiting
    <3>2. Broker(c)'
      BY <1>20, <1>0, <2>0 DEF TypeOK, Broker, CancelWaiting
    <3>3. Remembered(c)'
      BY <1>20, <1>0, <2>0 DEF TypeOK, Broker, Remembered, CancelWaiting
    <3>4. Counts(c)'
      BY <1>20, <1>0, <2>0 DEF TypeOK, Turns, Broker, Remembered, Counts, max_tool_calls, CancelWaiting
    <3> QED
      BY <3>1, <3>2, <3>3, <3>4 DEF Good
  <2> QED
    BY <2>1, <2>2, <2>3, <2>4 DEF IInv
<1>21. ASSUME NEW c \in Commands, Revoke(c) PROVE IInv'
  <2>0. Holding(c) /\ Turns(c) /\ Broker(c) /\ Remembered(c) /\ Counts(c)
    BY <1>0 DEF Good
  <2>1. TypeOK'
    BY <1>21, <1>0 DEF TypeOK, Revoke
  <2>2. \A d \in Commands : Holding(d)'
    BY <1>21, <1>0 DEF TypeOK, Holding, Revoke
  <2>3. ASSUME NEW d \in Commands, d # c PROVE Good(d)'
    BY <1>21, <1>0, <2>3, Frame DEF TypeOK, Same, Revoke
  <2>4. Good(c)'
    <3>1. Turns(c)'
      BY <1>21, <1>0, <2>0, UptoZero, AppendUpto DEF TypeOK, Turns, Broker, Revoke
    <3>2. Broker(c)'
      BY <1>21, <1>0, <2>0 DEF TypeOK, Broker, Revoke
    <3>3. Remembered(c)'
      BY <1>21, <1>0, <2>0 DEF TypeOK, Broker, Remembered, Revoke
    <3>4. Counts(c)'
      BY <1>21, <1>0, <2>0 DEF TypeOK, Turns, Broker, Remembered, Counts, max_tool_calls, Revoke
    <3> QED
      BY <3>1, <3>2, <3>3, <3>4 DEF Good
  <2> QED
    BY <2>1, <2>2, <2>3, <2>4 DEF IInv
<1>22. ASSUME NEW c \in Commands, Expire(c) PROVE IInv'
  <2>0. Holding(c) /\ Turns(c) /\ Broker(c) /\ Remembered(c) /\ Counts(c)
    BY <1>0 DEF Good
  <2>1. TypeOK'
    BY <1>22, <1>0 DEF TypeOK, Expire
  <2>2. \A d \in Commands : Holding(d)'
    BY <1>22, <1>0 DEF TypeOK, Holding, Expire
  <2>3. ASSUME NEW d \in Commands, d # c PROVE Good(d)'
    BY <1>22, <1>0, <2>3, Frame DEF TypeOK, Same, Expire
  <2>4. Good(c)'
    <3>1. Turns(c)'
      BY <1>22, <1>0, <2>0, UptoZero, AppendUpto DEF TypeOK, Turns, Broker, Expire
    <3>2. Broker(c)'
      BY <1>22, <1>0, <2>0 DEF TypeOK, Broker, Expire
    <3>3. Remembered(c)'
      BY <1>22, <1>0, <2>0 DEF TypeOK, Broker, Remembered, Expire
    <3>4. Counts(c)'
      BY <1>22, <1>0, <2>0 DEF TypeOK, Turns, Broker, Remembered, Counts, max_tool_calls, Expire
    <3> QED
      BY <3>1, <3>2, <3>3, <3>4 DEF Good
  <2> QED
    BY <2>1, <2>2, <2>3, <2>4 DEF IInv
<1>23. ASSUME NEW c \in Commands, Prune(c) PROVE IInv'
  <2>0. Holding(c) /\ Turns(c) /\ Broker(c) /\ Remembered(c) /\ Counts(c)
    BY <1>0 DEF Good
  <2>1. TypeOK'
    BY <1>23, <1>0 DEF TypeOK, Prune
  <2>2. \A d \in Commands : Holding(d)'
    BY <1>23, <1>0 DEF TypeOK, Holding, Prune
  <2>3. ASSUME NEW d \in Commands, d # c PROVE Good(d)'
    BY <1>23, <1>0, <2>3, Frame DEF TypeOK, Same, Prune
  <2>4. Good(c)'
    <3>1. Turns(c)'
      BY <1>23, <1>0, <2>0, UptoZero, AppendUpto DEF TypeOK, Turns, Broker, Prune
    <3>2. Broker(c)'
      BY <1>23, <1>0, <2>0 DEF TypeOK, Broker, Prune
    <3>3. Remembered(c)'
      BY <1>23, <1>0, <2>0 DEF TypeOK, Broker, Remembered, Prune
    <3>4. Counts(c)'
      BY <1>23, <1>0, <2>0 DEF TypeOK, Turns, Broker, Remembered, Counts, max_tool_calls, Prune
    <3> QED
      BY <3>1, <3>2, <3>3, <3>4 DEF Good
  <2> QED
    BY <2>1, <2>2, <2>3, <2>4 DEF IInv
<1>24. CASE BeginStop \/ EndStop \/ UNCHANGED vars
  <2>1. TypeOK'
    BY <1>24, <1>0 DEF TypeOK, BeginStop, EndStop
  <2>2. ASSUME NEW d \in Commands PROVE Holding(d)' /\ Good(d)'
    BY <1>24, <1>0, <2>2, Frame DEF Holding, Same, BeginStop, EndStop
  <2> QED
    BY <2>1, <2>2 DEF IInv
<1> QED
  BY <1>1, <1>2, <1>3, <1>4, <1>5, <1>6, <1>7, <1>8, <1>9, <1>10, <1>11, <1>12, <1>13, <1>14,
     <1>15, <1>16, <1>17, <1>18, <1>19, <1>20, <1>21, <1>22, <1>23, <1>24 DEF Next

LEMMA Invariance == Spec => []IInv
  BY InitIInv, StepIInv, PTL DEF Spec

\* However a command is suspended and continued, it makes at most 48 calls and
\* asks the model at most 49 times (_advance, resume_confirmation).
THEOREM BudgetHolds == Spec => []Budget
<1>1. IInv => Budget
  BY DEF IInv, Good, Counts, Budget
<1> QED
  BY <1>1, Invariance, PTL

\* Each call of a turn is made once and in order, and the model gets the results
\* of all of them (continue_with_tools).
THEOREM WholeTurnsHolds == Spec => []WholeTurns
<1>1. IInv => WholeTurns
  BY DEF IInv, Good, Turns, WholeTurns
<1> QED
  BY <1>1, Invariance, PTL

\* The history of a command is forgotten when it ends (_recover_failed_command),
\* but for one that is cancelled as it waits to be continued.
THEOREM HistoryEndsHolds == Spec => []HistoryEnds
<1>1. IInv => HistoryEnds
  BY DEF IInv, TypeOK, Good, Remembered, HistoryEnds
<1> QED
  BY <1>1, Invariance, PTL

\* Two commands are never at work at once, whether they were submitted or are
\* continued by a decision (_command_lock).
THEOREM OneCommandHolds == Spec => []OneCommand
<1>1. IInv => OneCommand
  BY DEF IInv, Holding, OneCommand
<1> QED
  BY <1>1, Invariance, PTL

\* A withdrawn confirmation ends its command: it makes no call and asks nothing any
\* more (_finish_stop_all_actions, _prune_expired_confirmations).
THEOREM WithdrawnEndsHolds == Spec => WithdrawnEnds
<1> DEFINE Quiet == \A c \in withdrawn : called'[c] = called[c] /\ asked'[c] = asked[c]
<1>1. IInv /\ [Next]_vars => [Quiet]_vars
  <2> SUFFICES ASSUME IInv, [Next]_vars, NEW c \in withdrawn
               PROVE called'[c] = called[c] /\ asked'[c] = asked[c]
    OBVIOUS
  <2>1. /\ c \in Commands /\ at[c] \notin {"preparing", "advancing"}
        /\ called \in [Commands -> Nat] /\ asked \in [Commands -> Nat]
    BY DEF IInv, TypeOK, Good, Broker
  <2>2. ASSUME NEW d \in Commands, Prepare(d) \/ MakeCall(d) \/ AskAgain(d)
        PROVE called'[c] = called[c] /\ asked'[c] = asked[c]
    BY <2>1, <2>2 DEF Prepare, MakeCall, AskAgain
  <2>3. ASSUME UNCHANGED <<called, asked>>
        PROVE called'[c] = called[c] /\ asked'[c] = asked[c]
    BY <2>3
  <2> QED
    BY ZenonT(60), <2>2, <2>3 DEF Next, Submit, Enter, Reply, Exhaust, Answered, Cancelled, NeedConfirmation,
      Suspend, Decide, Voided, Resume, ResolverFails, TakeSession, Continue, Complete, Fail,
      CancelWaiting, BeginStop, EndStop, Revoke, Expire, Prune
<1> QED
  BY <1>1, Invariance, PTL DEF Spec, WithdrawnEnds

================================================================================
