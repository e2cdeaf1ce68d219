-------------------------- MODULE DesktopInputProofs --------------------------
(***************************************************************************)
(* The properties of DesktopInput hold for all inputs and any number of    *)
(* operations, cancellations, failures and threads.  One invariant carries *)
(* them: what the compositor holds down is what the operation is to        *)
(* release, unless a release has failed or a close is on its way.          *)
(***************************************************************************)
EXTENDS DesktopInput, TLAPS

Sending == {"sending", "settling"}
Unsending == {"unsending", "unsettling"}
Resting == {"free", "closing", "revoking"}
Places == Sending \cup Unsending \cup Resting \cup {"between", "targeting", "releasing"}

TypeOK ==
  /\ at \in Places /\ held \in SUBSET Inputs /\ errors \in BOOLEAN
  /\ call \in SUBSET Calls /\ result \in {"none", "ok", "error"}
  /\ strays \in SUBSET Calls /\ closes \in Nat
  /\ connected \in BOOLEAN /\ cancelled \in BOOLEAN /\ down \in SUBSET Inputs
  /\ strayed \in SUBSET Inputs /\ late \in Nat

\* There is one call at a time; one of the body is about an input that is to be released.
CallOK ==
  /\ at \notin Sending \cup Unsending => call = {}
  /\ \A c, d \in call : c = d
  /\ at \in Sending => \A c \in call : c[1] \in held
  /\ at \in Unsending => \A c \in call : c[2] = FALSE
  /\ at \in Resting => held = {}

\* A release that was acknowledged has taken effect.
Released == result = "ok" => \A k \in down \ strayed : <<k, FALSE>> \notin call

Strays == \A k \in Inputs : <<k, TRUE>> \in strays => k \in strayed

Failed == errors /\ at \in {"releasing"} \cup Unsending

Covered ==
  /\ closes = 0 /\ ~Failed => \A k \in down \ strayed : k \in held \/ <<k, FALSE>> \in call
  /\ at = "closing" /\ closes < 2 => down \subseteq strayed

Late == cancelled => late <= 1 /\ (at = "targeting" => late = 0)

IInv == TypeOK /\ CallOK /\ Released /\ Strays /\ Covered /\ Late

USE DEF Sending, Unsending, Resting, Places, opVars, portalVars, vars, SetCancelled

LEMMA Parts == \A c \in Calls : c[1] \in Inputs /\ c[2] \in BOOLEAN /\ c = <<c[1], c[2]>>
  BY DEF Calls

LEMMA Pairs == \A k \in Inputs, b \in BOOLEAN : <<k, b>> \in Calls
  BY DEF Calls

\* What a call may do to the session and the flag.
LEMMA Outcome ==
  ASSUME TypeOK, Late, NEW c \in Calls, Accepted(c) \/ Refused \/ Broken
  PROVE  /\ connected' \in BOOLEAN /\ cancelled' \in BOOLEAN
         /\ down' \in SUBSET Inputs /\ late' \in Nat
         /\ cancelled' => late' = 0 \/ (cancelled /\ late' = late)
<1>1. CASE Accepted(c)
  <2>1. down' \in SUBSET Inputs
    BY <1>1, Parts DEF TypeOK, Accepted, Apply
  <2> QED
    BY <1>1, <2>1 DEF TypeOK, Accepted
<1>2. CASE Refused
  <2>1. CASE SetCancelled
    BY <1>2, <2>1 DEF TypeOK, Refused
  <2>2. CASE UNCHANGED <<cancelled, late>>
    BY <1>2, <2>2 DEF TypeOK, Refused
  <2> QED
    BY <1>2, <2>1, <2>2 DEF Refused
<1>3. CASE Broken
  BY <1>3 DEF TypeOK, Broken
<1> QED
  BY <1>1, <1>2, <1>3

LEMMA InitIInv == Init => IInv
<1> SUFFICES ASSUME Init PROVE IInv
  OBVIOUS
<1>1. TypeOK /\ CallOK /\ Strays
  BY DEF Init, TypeOK, CallOK, Strays
<1>2. Released /\ Covered /\ Late
  BY DEF Init, Released, Covered, Late
<1> QED
  BY <1>1, <1>2 DEF IInv

LEMMA StepIInv == IInv /\ [Next]_vars => IInv'
<1> SUFFICES ASSUME IInv, [Next]_vars PROVE IInv'
  OBVIOUS
<1>0. TypeOK /\ CallOK /\ Released /\ Strays /\ Covered /\ Late
  BY DEF IInv
<1>1. ASSUME Start PROVE IInv'
  <2>1. TypeOK'
    BY <1>1, <1>0 DEF TypeOK, Start
  <2>2. CallOK'
    BY <1>1, <1>0 DEF TypeOK, CallOK, Start
  <2>3. Released'
    BY <1>1, <1>0 DEF TypeOK, CallOK, Released, Strays, Start
  <2>4. Strays'
    BY <1>1, <1>0 DEF TypeOK, Strays, Start
  <2>5. Covered'
    BY <1>1, <1>0 DEF TypeOK, CallOK, Released, Strays, Failed, Covered, Start
  <2>6. Late'
    BY <1>1, <1>0 DEF TypeOK, Late, Start
  <2> QED
    BY <2>1, <2>2, <2>3, <2>4, <2>5, <2>6 DEF IInv
<1>2. ASSUME CheckEvent PROVE IInv'
  <2>1. TypeOK'
    BY <1>2, <1>0 DEF TypeOK, CheckEvent
  <2>2. CallOK'
    BY <1>2, <1>0 DEF TypeOK, CallOK, CheckEvent
  <2>3. Released'
    BY <1>2, <1>0 DEF TypeOK, CallOK, Released, Strays, CheckEvent
  <2>4. Strays'
    BY <1>2, <1>0 DEF TypeOK, Strays, CheckEvent
  <2>5. Covered'
    BY <1>2, <1>0 DEF TypeOK, CallOK, Released, Strays, Failed, Covered, CheckEvent
  <2>6. Late'
    BY <1>2, <1>0 DEF TypeOK, Late, CheckEvent
  <2> QED
    BY <2>1, <2>2, <2>3, <2>4, <2>5, <2>6 DEF IInv
<1>3. ASSUME Pass PROVE IInv'
  <2>1. TypeOK'
    BY <1>3, <1>0 DEF TypeOK, Pass
  <2>2. CallOK'
    BY <1>3, <1>0 DEF TypeOK, CallOK, Pass
  <2>3. Released'
    BY <1>3, <1>0 DEF TypeOK, CallOK, Released, Strays, Pass
  <2>4. Strays'
    BY <1>3, <1>0 DEF TypeOK, Strays, Pass
  <2>5. Covered'
    BY <1>3, <1>0 DEF TypeOK, CallOK, Released, Strays, Failed, Covered, Pass
  <2>6. Late'
    BY <1>3, <1>0 DEF TypeOK, Late, Pass
  <2> QED
    BY <2>1, <2>2, <2>3, <2>4, <2>5, <2>6 DEF IInv
<1>4. ASSUME Leave PROVE IInv'
  <2>1. TypeOK'
    BY <1>4, <1>0 DEF TypeOK, Leave
  <2>2. CallOK'
    BY <1>4, <1>0 DEF TypeOK, CallOK, Leave
  <2>3. Released'
    BY <1>4, <1>0 DEF TypeOK, CallOK, Released, Strays, Leave
  <2>4. Strays'
    BY <1>4, <1>0 DEF TypeOK, Strays, Leave
  <2>5. Covered'
    BY <1>4, <1>0 DEF TypeOK, CallOK, Released, Strays, Failed, Covered, Leave
  <2>6. Late'
    BY <1>4, <1>0 DEF TypeOK, Late, Leave
  <2> QED
    BY <2>1, <2>2, <2>3, <2>4, <2>5, <2>6 DEF IInv
<1>5. ASSUME Sent PROVE IInv'
  <2>1. TypeOK'
    BY <1>5, <1>0 DEF TypeOK, Sent
  <2>2. CallOK'
    BY <1>5, <1>0 DEF TypeOK, CallOK, Sent
  <2>3. Released'
    BY <1>5, <1>0 DEF TypeOK, CallOK, Released, Strays, Sent
  <2>4. Strays'
    BY <1>5, <1>0 DEF TypeOK, Strays, Sent
  <2>5. Covered'
    BY <1>5, <1>0 DEF TypeOK, CallOK, Released, Strays, Failed, Covered, Sent
  <2>6. Late'
    BY <1>5, <1>0 DEF TypeOK, Late, Sent
  <2> QED
    BY <2>1, <2>2, <2>3, <2>4, <2>5, <2>6 DEF IInv
<1>6. ASSUME SendEnds PROVE IInv'
  <2>1. TypeOK'
    BY <1>6, <1>0 DEF TypeOK, SendEnds
  <2>2. CallOK'
    BY <1>6, <1>0 DEF TypeOK, CallOK, SendEnds
  <2>3. Released'
    BY <1>6, <1>0 DEF TypeOK, CallOK, Released, Strays, SendEnds
  <2>4. Strays'
    BY <1>6, <1>0 DEF TypeOK, Strays, SendEnds
  <2>5. Covered'
    BY <1>6, <1>0 DEF TypeOK, CallOK, Released, Strays, Failed, Covered, SendEnds
  <2>6. Late'
    BY <1>6, <1>0 DEF TypeOK, Late, SendEnds
  <2> QED
    BY <2>1, <2>2, <2>3, <2>4, <2>5, <2>6 DEF IInv
<1>7. ASSUME CancelSend PROVE IInv'
  <2>1. TypeOK'
    BY <1>7, <1>0 DEF TypeOK, CancelSend
  <2>2. CallOK'
    BY <1>7, <1>0 DEF TypeOK, CallOK, CancelSend
  <2>3. Released'
    BY <1>7, <1>0 DEF TypeOK, CallOK, Released, Strays, CancelSend
  <2>4. Strays'
    BY <1>7, <1>0 DEF TypeOK, Strays, CancelSend
  <2>5. Covered'
    BY <1>7, <1>0 DEF TypeOK, CallOK, Released, Strays, Failed, Covered, CancelSend
  <2>6. Late'
    BY <1>7, <1>0 DEF TypeOK, Late, CancelSend
  <2> QED
    BY <2>1, <2>2, <2>3, <2>4, <2>5, <2>6 DEF IInv
<1>8. ASSUME Abandon PROVE IInv'
  <2>1. TypeOK'
    BY <1>8, <1>0 DEF TypeOK, Abandon
  <2>2. CallOK'
    BY <1>8, <1>0 DEF TypeOK, CallOK, Abandon
  <2>3. Released'
    BY <1>8, <1>0 DEF TypeOK, CallOK, Released, Strays, Abandon
  <2>4. Strays'
    BY <1>8, <1>0 DEF TypeOK, Strays, Abandon
  <2>5. Covered'
    <3>1. CASE at = "settling"
      <4>1. ASSUME NEW k \in down' \ strayed', closes = 0 PROVE k \in held
        <5>1. k \in down \ strayed /\ k \in Inputs
          BY <1>8, <1>0, <4>1 DEF TypeOK, Abandon
        <5>2. k \in held \/ <<k, FALSE>> \in call
          BY <1>0, <3>1, <4>1, <5>1 DEF Covered, Failed
        <5> QED
          BY <1>0, <3>1, <5>2 DEF CallOK
      <4> QED
        BY <1>8, <4>1 DEF Covered, Abandon
    <3>2. CASE at = "unsettling"
      <4>1. Failed'
        BY <1>8, <3>2 DEF Failed, Abandon
      <4> QED
        BY <1>8, <4>1 DEF Covered, Abandon
    <3> QED
      BY <1>8, <3>1, <3>2 DEF Abandon
  <2>6. Late'
    BY <1>8, <1>0 DEF TypeOK, Late, Abandon
  <2> QED
    BY <2>1, <2>2, <2>3, <2>4, <2>5, <2>6 DEF IInv
<1>9. ASSUME ReleaseEnds PROVE IInv'
  <2>1. TypeOK'
    BY <1>9, <1>0 DEF TypeOK, ReleaseEnds
  <2>2. CallOK'
    BY <1>9, <1>0 DEF TypeOK, CallOK, ReleaseEnds
  <2>3. Released'
    BY <1>9, <1>0 DEF TypeOK, CallOK, Released, Strays, ReleaseEnds
  <2>4. Strays'
    BY <1>9, <1>0 DEF TypeOK, Strays, ReleaseEnds
  <2>5. Covered'
    BY <1>9, <1>0 DEF TypeOK, CallOK, Released, Strays, Failed, Covered, ReleaseEnds
  <2>6. Late'
    BY <1>9, <1>0 DEF TypeOK, Late, ReleaseEnds
  <2> QED
    BY <2>1, <2>2, <2>3, <2>4, <2>5, <2>6 DEF IInv
<1>10. ASSUME ReleasesEnd PROVE IInv'
  <2>1. TypeOK'
    BY <1>10, <1>0 DEF TypeOK, ReleasesEnd
  <2>2. CallOK'
    BY <1>10, <1>0 DEF TypeOK, CallOK, ReleasesEnd
  <2>3. Released'
    BY <1>10, <1>0 DEF TypeOK, CallOK, Released, Strays, ReleasesEnd
  <2>4. Strays'
    BY <1>10, <1>0 DEF TypeOK, Strays, ReleasesEnd
  <2>5. Covered'
    <3>1. CASE errors
      <4>1. closes' # 0
        BY <1>10, <1>0, <3>1 DEF TypeOK, ReleasesEnd
      <4> QED
        BY <1>10, <3>1, <4>1 DEF Covered, ReleasesEnd
    <3>2. CASE ~errors
      BY <1>10, <1>0, <3>2 DEF TypeOK, CallOK, Failed, Covered, ReleasesEnd
    <3> QED
      BY <3>1, <3>2
  <2>6. Late'
    BY <1>10, <1>0 DEF TypeOK, Late, ReleasesEnd
  <2> QED
    BY <2>1, <2>2, <2>3, <2>4, <2>5, <2>6 DEF IInv
<1>11. ASSUME Revoked PROVE IInv'
  <2>1. TypeOK'
    BY <1>11, <1>0 DEF TypeOK, Revoked
  <2>2. CallOK'
    BY <1>11, <1>0 DEF TypeOK, CallOK, Revoked
  <2>3. Released'
    BY <1>11, <1>0 DEF TypeOK, CallOK, Released, Strays, Revoked
  <2>4. Strays'
    BY <1>11, <1>0 DEF TypeOK, Strays, Revoked
  <2>5. Covered'
    BY <1>11, <1>0 DEF TypeOK, CallOK, Released, Strays, Failed, Covered, Revoked
  <2>6. Late'
    BY <1>11, <1>0 DEF TypeOK, Late, Revoked
  <2> QED
    BY <2>1, <2>2, <2>3, <2>4, <2>5, <2>6 DEF IInv
<1>12. ASSUME Connect PROVE IInv'
  <2>1. TypeOK'
    BY <1>12, <1>0 DEF TypeOK, Connect
  <2>2. CallOK'
    BY <1>12, <1>0 DEF TypeOK, CallOK, Connect
  <2>3. Released'
    BY <1>12, <1>0 DEF TypeOK, CallOK, Released, Strays, Connect
  <2>4. Strays'
    BY <1>12, <1>0 DEF TypeOK, Strays, Connect
  <2>5. Covered'
    BY <1>12, <1>0 DEF TypeOK, CallOK, Released, Strays, Failed, Covered, Connect
  <2>6. Late'
    BY <1>12, <1>0 DEF TypeOK, Late, Connect
  <2> QED
    BY <2>1, <2>2, <2>3, <2>4, <2>5, <2>6 DEF IInv
<1>13. ASSUME ClearCancelled PROVE IInv'
  <2>1. TypeOK'
    BY <1>13, <1>0 DEF TypeOK, ClearCancelled
  <2>2. CallOK'
    BY <1>13, <1>0 DEF TypeOK, CallOK, ClearCancelled
  <2>3. Released'
    BY <1>13, <1>0 DEF TypeOK, CallOK, Released, Strays, ClearCancelled
  <2>4. Strays'
    BY <1>13, <1>0 DEF TypeOK, Strays, ClearCancelled
  <2>5. Covered'
    BY <1>13, <1>0 DEF TypeOK, CallOK, Released, Strays, Failed, Covered, ClearCancelled
  <2>6. Late'
    BY <1>13, <1>0 DEF TypeOK, Late, ClearCancelled
  <2> QED
    BY <2>1, <2>2, <2>3, <2>4, <2>5, <2>6 DEF IInv
<1>14. ASSUME CancelCurrent PROVE IInv'
  <2>1. TypeOK'
    BY <1>14, <1>0 DEF TypeOK, CancelCurrent
  <2>2. CallOK'
    BY <1>14, <1>0 DEF TypeOK, CallOK, CancelCurrent
  <2>3. Released'
    BY <1>14, <1>0 DEF TypeOK, CallOK, Released, Strays, CancelCurrent
  <2>4. Strays'
    BY <1>14, <1>0 DEF TypeOK, Strays, CancelCurrent
  <2>5. Covered'
    BY <1>14, <1>0 DEF TypeOK, CallOK, Released, Strays, Failed, Covered, CancelCurrent
  <2>6. Late'
    BY <1>14, <1>0 DEF TypeOK, Late, CancelCurrent
  <2> QED
    BY <2>1, <2>2, <2>3, <2>4, <2>5, <2>6 DEF IInv
<1>15. ASSUME Close PROVE IInv'
  <2>1. TypeOK'
    BY <1>15, <1>0 DEF TypeOK, Close
  <2>2. CallOK'
    BY <1>15, <1>0 DEF TypeOK, CallOK, Close
  <2>3. Released'
    BY <1>15, <1>0 DEF TypeOK, CallOK, Released, Strays, Close
  <2>4. Strays'
    BY <1>15, <1>0 DEF TypeOK, Strays, Close
  <2>5. Covered'
    <3>1. closes' # 0 /\ (closes' < 2 => closes = 0)
      BY <1>15, <1>0 DEF TypeOK, Close
    <3> QED
      BY <1>15, <1>0, <3>1 DEF TypeOK, CallOK, Failed, Covered, Close
  <2>6. Late'
    BY <1>15, <1>0 DEF TypeOK, Late, Close
  <2> QED
    BY <2>1, <2>2, <2>3, <2>4, <2>5, <2>6 DEF IInv
<1>16. ASSUME CloseEnds PROVE IInv'
  <2>1. TypeOK'
    BY <1>16, <1>0 DEF TypeOK, CloseEnds
  <2>2. CallOK'
    BY <1>16, <1>0 DEF TypeOK, CallOK, CloseEnds
  <2>3. Released'
    BY <1>16, <1>0 DEF TypeOK, CallOK, Released, Strays, CloseEnds
  <2>4. Strays'
    BY <1>16, <1>0 DEF TypeOK, Strays, CloseEnds
  <2>5. Covered'
    <3>1. closes' = 0 => closes < 2
      BY <1>16, <1>0 DEF TypeOK, CloseEnds
    <3> QED
      BY <1>16, <1>0, <3>1 DEF TypeOK, CallOK, Failed, Covered, CloseEnds
  <2>6. Late'
    BY <1>16, <1>0 DEF TypeOK, Late, CloseEnds
  <2> QED
    BY <2>1, <2>2, <2>3, <2>4, <2>5, <2>6 DEF IInv
<1>17. ASSUME CloseSession PROVE IInv'
  <2>0. closes' \in Nat /\ late' \in Nat
    BY <1>17, <1>0 DEF TypeOK, CloseSession
  <2>1. TypeOK'
    BY <1>17, <1>0, <2>0 DEF TypeOK, CloseSession
  <2>2. CallOK'
    BY <1>17, <1>0 DEF TypeOK, CallOK, CloseSession
  <2>3. Released'
    BY <1>17, <1>0 DEF TypeOK, CallOK, Released, Strays, CloseSession
  <2>4. Strays'
    BY <1>17, <1>0 DEF TypeOK, Strays, CloseSession
  <2>5. Covered'
    BY <1>17, <1>0 DEF TypeOK, CallOK, Released, Strays, Failed, Covered, CloseSession
  <2>6. Late'
    BY <1>17, <1>0 DEF TypeOK, Late, CloseSession
  <2> QED
    BY <2>1, <2>2, <2>3, <2>4, <2>5, <2>6 DEF IInv
<1>18. ASSUME SessionClosed PROVE IInv'
  <2>1. TypeOK'
    BY <1>18, <1>0 DEF TypeOK, SessionClosed
  <2>2. CallOK'
    BY <1>18, <1>0 DEF TypeOK, CallOK, SessionClosed
  <2>3. Released'
    BY <1>18, <1>0 DEF TypeOK, CallOK, Released, Strays, SessionClosed
  <2>4. Strays'
    BY <1>18, <1>0 DEF TypeOK, Strays, SessionClosed
  <2>5. Covered'
    BY <1>18, <1>0 DEF TypeOK, CallOK, Released, Strays, Failed, Covered, SessionClosed
  <2>6. Late'
    BY <1>18, <1>0 DEF TypeOK, Late, SessionClosed
  <2> QED
    BY <2>1, <2>2, <2>3, <2>4, <2>5, <2>6 DEF IInv
<1>19. ASSUME NEW k \in Inputs, Press(k) PROVE IInv'
  <2>0. late' \in Nat
    BY <1>19, <1>0 DEF TypeOK, Press
  <2>1. call' \in SUBSET Calls /\ held' \in SUBSET Inputs
    BY <1>19, <1>0, Pairs DEF TypeOK, Press
  <2>7. TypeOK'
    BY <1>19, <1>0, <2>0, <2>1 DEF TypeOK, Press
  <2>2. CallOK'
    BY <1>19, <1>0 DEF TypeOK, CallOK, Press
  <2>3. Released'
    BY <1>19, <1>0 DEF TypeOK, CallOK, Released, Strays, Press
  <2>4. Strays'
    BY <1>19, <1>0 DEF TypeOK, Strays, Press
  <2>5. Covered'
    BY <1>19, <1>0 DEF TypeOK, CallOK, Released, Strays, Failed, Covered, Press
  <2>6. Late'
    BY <1>19, <1>0 DEF TypeOK, Late, Press
  <2> QED
    BY <2>7, <2>2, <2>3, <2>4, <2>5, <2>6 DEF IInv
<1>20. ASSUME NEW k \in Inputs, Release(k) PROVE IInv'
  <2>1. TypeOK'
    BY <1>20, <1>0, Pairs DEF TypeOK, Release
  <2>2. CallOK'
    BY <1>20, <1>0 DEF TypeOK, CallOK, Release
  <2>3. Released'
    BY <1>20, <1>0 DEF TypeOK, CallOK, Released, Strays, Release
  <2>4. Strays'
    BY <1>20, <1>0 DEF TypeOK, Strays, Release
  <2>5. Covered'
    BY <1>20, <1>0 DEF TypeOK, CallOK, Released, Strays, Failed, Covered, Release
  <2>6. Late'
    BY <1>20, <1>0 DEF TypeOK, Late, Release
  <2> QED
    BY <2>1, <2>2, <2>3, <2>4, <2>5, <2>6 DEF IInv
<1>21. ASSUME NEW k \in Inputs, ReleaseNext(k) PROVE IInv'
  <2>1. TypeOK'
    BY <1>21, <1>0, Pairs DEF TypeOK, ReleaseNext
  <2>2. CallOK'
    BY <1>21, <1>0 DEF TypeOK, CallOK, ReleaseNext
  <2>3. Released'
    BY <1>21, <1>0 DEF TypeOK, CallOK, Released, Strays, ReleaseNext
  <2>4. Strays'
    BY <1>21, <1>0 DEF TypeOK, Strays, ReleaseNext
  <2>5. Covered'
    BY <1>21, <1>0 DEF TypeOK, CallOK, Released, Strays, Failed, Covered, ReleaseNext
  <2>6. Late'
    BY <1>21, <1>0 DEF TypeOK, Late, ReleaseNext
  <2> QED
    BY <2>1, <2>2, <2>3, <2>4, <2>5, <2>6 DEF IInv
<1>22. ASSUME NEW c \in Calls, Deliver(c) PROVE IInv'
  <2>0. /\ connected' \in BOOLEAN /\ cancelled' \in BOOLEAN
        /\ down' \in SUBSET Inputs /\ late' \in Nat
        /\ cancelled' => late' = 0 \/ (cancelled /\ late' = late)
    BY <1>22, <1>0, Outcome DEF Deliver
  <2>1. TypeOK'
    BY <1>22, <1>0, <2>0 DEF TypeOK, Deliver
  <2>2. CallOK'
    BY <1>22, <1>0, Parts DEF TypeOK, CallOK, Deliver, Accepted, Refused,
                             Broken, Apply
  <2>3. Released'
    <3>1. CASE Accepted(c)
      <4>1. ASSUME NEW k \in down' \ strayed' PROVE <<k, FALSE>> \notin call'
        <5>1. k \in Inputs /\ k \notin strayed
          BY <1>22, <1>0, <2>0, <4>1 DEF Deliver
        <5>2. SUFFICES ASSUME c = <<k, FALSE>> PROVE FALSE
          BY <1>22, <1>0 DEF Deliver, CallOK
        <5>3. down' = down \ {k}
          BY <3>1, <5>2 DEF Accepted, Apply
        <5> QED
          BY <4>1, <5>3
      <4> QED
        BY <4>1 DEF Released
    <3>2. CASE result' = "error"
      BY <3>2 DEF Released
    <3> QED
      BY <1>22, <3>1, <3>2 DEF Deliver
  <2>4. Strays'
    BY <1>22, <1>0, Parts DEF TypeOK, Strays, Deliver, Accepted, Refused,
                             Broken, Apply
  <2>5. Covered'
    BY ZenonT(60), <1>22, <1>0, Parts DEF TypeOK, CallOK, Released, Strays, Failed, Covered, Deliver, Accepted, Refused,
                             Broken, Apply
  <2>6. Late'
    BY <1>22, <1>0, <2>0 DEF TypeOK, Late, Deliver
  <2> QED
    BY <2>1, <2>2, <2>3, <2>4, <2>5, <2>6 DEF IInv
<1>23. ASSUME NEW c \in Calls, DeliverStray(c) PROVE IInv'
  <2>0. /\ connected' \in BOOLEAN /\ cancelled' \in BOOLEAN
        /\ down' \in SUBSET Inputs /\ late' \in Nat
        /\ cancelled' => late' = 0 \/ (cancelled /\ late' = late)
    BY <1>23, <1>0, Outcome DEF DeliverStray
  <2>1. TypeOK'
    BY <1>23, <1>0, <2>0 DEF TypeOK, DeliverStray
  <2>2. CallOK'
    BY <1>23, <1>0, Parts DEF TypeOK, CallOK, DeliverStray, Accepted, Refused,
                             Broken, Apply
  <2>3. Released'
    BY ZenonT(60), <1>23, <1>0, Parts DEF TypeOK, CallOK, Released, Strays, DeliverStray, Accepted, Refused,
                             Broken, Apply
  <2>4. Strays'
    BY <1>23, <1>0, Parts DEF TypeOK, Strays, DeliverStray, Accepted, Refused,
                             Broken, Apply
  <2>5. Covered'
    BY ZenonT(60), <1>23, <1>0, Parts DEF TypeOK, CallOK, Released, Strays, Failed, Covered,
                             DeliverStray, Accepted, Refused, Broken, Apply
  <2>6. Late'
    BY <1>23, <1>0, <2>0 DEF TypeOK, Late, DeliverStray
  <2> QED
    BY <2>1, <2>2, <2>3, <2>4, <2>5, <2>6 DEF IInv
<1>24. CASE UNCHANGED vars
  <2>1. TypeOK' /\ CallOK' /\ Strays'
    BY <1>24, <1>0 DEF TypeOK, CallOK, Strays
  <2>2. Released' /\ Covered' /\ Late'
    BY <1>24, <1>0 DEF Released, Failed, Covered, Late
  <2> QED
    BY <2>1, <2>2 DEF IInv
<1> QED
  BY <1>1, <1>2, <1>3, <1>4, <1>5, <1>6, <1>7, <1>8, <1>9, <1>10, <1>11, <1>12, <1>13,
     <1>14, <1>15, <1>16, <1>17, <1>18, <1>19, <1>20, <1>21, <1>22, <1>23, <1>24 DEF Next

LEMMA Invariance == Spec => []IInv
  BY InitIInv, StepIInv, PTL DEF Spec

\* No operation leaves a key or button pressed, unless a thread is about to close the
\* session, or the press was abandoned by a second cancellation (_release_inputs).
THEOREM HeldReleasedHolds == Spec => []HeldReleased
<1>1. IInv => HeldReleased
  BY DEF IInv, CallOK, Failed, Covered, HeldReleased
<1> QED
  BY <1>1, Invariance, PTL

\* At most one press is begun after cancel_current, until connect clears the flag
\* (_raise_if_cancelled, gesture).
THEOREM PressesStopHolds == Spec => []PressesStop
<1>1. IInv => PressesStop
  BY DEF IInv, Late, PressesStop
<1> QED
  BY <1>1, Invariance, PTL

--------------------------------------------------------------------------------
(* A screen recording (Recording) keeps its properties for every number of    *)
(* captures, and wherever they are cancelled or cut off.  One invariant       *)
(* carries them: a capture that is neither in progress nor cut off by a crash *)
(* has nothing left, and what command has collected is what the worker has    *)
(* written.                                                                   *)

CONSTANT Clips

VARIABLES up, stage, clip, begun, interrupted, report, worker, pending, final, crashed, unbound

R == INSTANCE Recording WITH at <- stage

Stages == {"idle", "probing", "spawning", "reading", "cleaning", "verifying", "settling"}
Files == {"none", "partial", "whole"}

CaptureTypeOK ==
  /\ up \in BOOLEAN /\ stage \in Stages /\ clip \in SUBSET Clips /\ begun \in SUBSET Clips
  /\ interrupted \in BOOLEAN /\ report \in {"none", "clip", "error"}
  /\ worker \in [Clips -> R!Ended \cup R!Capturing \cup {"starting", "asking", "bound"}]
  /\ pending \in [Clips -> Files] /\ final \in [Clips -> Files]
  /\ crashed \in SUBSET Clips /\ unbound \in SUBSET Clips

\* The capture in progress is one that has begun and is not cut off.
Progress ==
  /\ stage \in {"idle", "probing"} <=> clip = {}
  /\ \A c, d \in clip : c = d
  /\ clip \cup crashed \subseteq begun /\ clip \cap crashed = {} /\ unbound \subseteq crashed
  /\ \A c \in Clips \ begun : worker[c] = "none" /\ pending[c] = "none" /\ final[c] = "none"
  /\ \A c \in clip \cup crashed : final[c] = "none"

BoundOwned == \A c \in Clips \ unbound : worker[c] \in {"bound"} \cup R!Capturing => c \in clip

\* A report stands for a whole file, as long as the capture goes on.
Reports ==
  /\ \A c \in Clips : worker[c] = "whole" => pending[c] = "whole"
  /\ \A c \in clip : worker[c] = "reported" => pending[c] = "whole"
  /\ stage \in {"verifying", "settling"} => report = "clip"
  /\ stage \in {"spawning", "reading"} => report = "none"
  /\ report = "clip" => \A c \in clip : worker[c] = "reported"

CaptureInv == CaptureTypeOK /\ Progress /\ BoundOwned /\ Reports /\ R!NothingLeft /\ R!WholeClips

HIDE DEF Sending, Unsending, Resting, Places, opVars, portalVars, vars, SetCancelled

USE DEF Stages, Files, R!Ended, R!Capturing, R!Become, R!Unlink, R!Discard, R!Bound,
        R!coreVars, R!ghostVars, R!vars

LEMMA InitCapture == R!Init => CaptureInv
  BY DEF R!Init, CaptureInv, CaptureTypeOK, Progress, BoundOwned, Reports, R!NothingLeft, R!WholeClips

LEMMA StepCapture == CaptureInv /\ [R!Next]_(R!vars) => CaptureInv'
<1> SUFFICES ASSUME CaptureInv, [R!Next]_(R!vars) PROVE CaptureInv'
  OBVIOUS
<1>0. CaptureTypeOK /\ Progress /\ BoundOwned /\ Reports /\ R!NothingLeft /\ R!WholeClips
  BY DEF CaptureInv
<1>1. ASSUME R!Capture PROVE CaptureInv'
  <2>1. CaptureTypeOK'
    BY <1>1, <1>0 DEF CaptureTypeOK, R!Capture
  <2>2. Progress'
    BY <1>1, <1>0 DEF CaptureTypeOK, Progress, R!Capture
  <2>3. BoundOwned'
    BY <1>1, <1>0 DEF CaptureTypeOK, Progress, BoundOwned, R!Capture
  <2>4. Reports'
    BY <1>1, <1>0 DEF CaptureTypeOK, Progress, Reports, R!Capture
  <2>5. R!NothingLeft'
    BY <1>1, <1>0 DEF CaptureTypeOK, Progress, R!NothingLeft, R!Capture
  <2>6. R!WholeClips'
    BY <1>1, <1>0 DEF CaptureTypeOK, Progress, Reports, R!WholeClips, R!Capture
  <2> QED
    BY <2>1, <2>2, <2>3, <2>4, <2>5, <2>6 DEF CaptureInv
<1>2. ASSUME R!Unavailable PROVE CaptureInv'
  <2>1. CaptureTypeOK'
    BY <1>2, <1>0 DEF CaptureTypeOK, R!Unavailable
  <2>2. Progress'
    BY <1>2, <1>0 DEF CaptureTypeOK, Progress, R!Unavailable
  <2>3. BoundOwned'
    BY <1>2, <1>0 DEF CaptureTypeOK, Progress, BoundOwned, R!Unavailable
  <2>4. Reports'
    BY <1>2, <1>0 DEF CaptureTypeOK, Progress, Reports, R!Unavailable
  <2>5. R!NothingLeft'
    BY <1>2, <1>0 DEF CaptureTypeOK, Progress, R!NothingLeft, R!Unavailable
  <2>6. R!WholeClips'
    BY <1>2, <1>0 DEF CaptureTypeOK, Progress, Reports, R!WholeClips, R!Unavailable
  <2> QED
    BY <2>1, <2>2, <2>3, <2>4, <2>5, <2>6 DEF CaptureInv
<1>3. ASSUME R!GiveUp PROVE CaptureInv'
  <2>1. CaptureTypeOK'
    BY <1>3, <1>0 DEF CaptureTypeOK, R!GiveUp
  <2>2. Progress'
    BY <1>3, <1>0 DEF CaptureTypeOK, Progress, R!GiveUp
  <2>3. BoundOwned'
    BY <1>3, <1>0 DEF CaptureTypeOK, Progress, BoundOwned, R!GiveUp
  <2>4. Reports'
    BY <1>3, <1>0 DEF CaptureTypeOK, Progress, Reports, R!GiveUp
  <2>5. R!NothingLeft'
    BY <1>3, <1>0 DEF CaptureTypeOK, Progress, R!NothingLeft, R!GiveUp
  <2>6. R!WholeClips'
    BY <1>3, <1>0 DEF CaptureTypeOK, Progress, Reports, R!WholeClips, R!GiveUp
  <2> QED
    BY <2>1, <2>2, <2>3, <2>4, <2>5, <2>6 DEF CaptureInv
<1>4. ASSUME R!Cancel PROVE CaptureInv'
  <2>1. CaptureTypeOK'
    BY <1>4, <1>0 DEF CaptureTypeOK, R!Cancel
  <2>2. Progress'
    BY <1>4, <1>0 DEF CaptureTypeOK, Progress, R!Cancel
  <2>3. BoundOwned'
    BY <1>4, <1>0 DEF CaptureTypeOK, Progress, BoundOwned, R!Cancel
  <2>4. Reports'
    BY <1>4, <1>0 DEF CaptureTypeOK, Progress, Reports, R!Cancel
  <2>5. R!NothingLeft'
    BY <1>4, <1>0 DEF CaptureTypeOK, Progress, R!NothingLeft, R!Cancel
  <2>6. R!WholeClips'
    BY <1>4, <1>0 DEF CaptureTypeOK, Progress, Reports, R!WholeClips, R!Cancel
  <2> QED
    BY <2>1, <2>2, <2>3, <2>4, <2>5, <2>6 DEF CaptureInv
<1>5. ASSUME R!CancelVerification PROVE CaptureInv'
  <2>1. CaptureTypeOK'
    BY <1>5, <1>0 DEF CaptureTypeOK, R!CancelVerification
  <2>2. Progress'
    BY <1>5, <1>0 DEF CaptureTypeOK, Progress, R!CancelVerification
  <2>3. BoundOwned'
    BY <1>5, <1>0 DEF CaptureTypeOK, Progress, BoundOwned, R!CancelVerification
  <2>4. Reports'
    BY <1>5, <1>0 DEF CaptureTypeOK, Progress, Reports, R!CancelVerification
  <2>5. R!NothingLeft'
    BY <1>5, <1>0 DEF CaptureTypeOK, Progress, R!NothingLeft, R!CancelVerification
  <2>6. R!WholeClips'
    BY <1>5, <1>0 DEF CaptureTypeOK, Progress, Reports, R!WholeClips, R!CancelVerification
  <2> QED
    BY <2>1, <2>2, <2>3, <2>4, <2>5, <2>6 DEF CaptureInv
<1>6. ASSUME R!Crash PROVE CaptureInv'
  <2>1. CaptureTypeOK'
    BY <1>6, <1>0 DEF CaptureTypeOK, R!Crash
  <2>2. Progress'
    BY <1>6, <1>0 DEF CaptureTypeOK, Progress, R!Crash
  <2>3. BoundOwned'
    BY <1>6, <1>0 DEF CaptureTypeOK, Progress, BoundOwned, R!Crash
  <2>4. Reports'
    BY <1>6, <1>0 DEF CaptureTypeOK, Progress, Reports, R!Crash
  <2>5. R!NothingLeft'
    BY <1>6, <1>0 DEF CaptureTypeOK, Progress, R!NothingLeft, R!Crash
  <2>6. R!WholeClips'
    BY <1>6, <1>0 DEF CaptureTypeOK, Progress, Reports, R!WholeClips, R!Crash
  <2> QED
    BY <2>1, <2>2, <2>3, <2>4, <2>5, <2>6 DEF CaptureInv
<1>7. ASSUME R!Restart PROVE CaptureInv'
  <2>1. CaptureTypeOK'
    BY <1>7, <1>0 DEF CaptureTypeOK, R!Restart
  <2>2. Progress'
    BY <1>7, <1>0 DEF CaptureTypeOK, Progress, R!Restart
  <2>3. BoundOwned'
    BY <1>7, <1>0 DEF CaptureTypeOK, Progress, BoundOwned, R!Restart
  <2>4. Reports'
    BY <1>7, <1>0 DEF CaptureTypeOK, Progress, Reports, R!Restart
  <2>5. R!NothingLeft'
    BY <1>7, <1>0 DEF CaptureTypeOK, Progress, R!NothingLeft, R!Restart
  <2>6. R!WholeClips'
    BY <1>7, <1>0 DEF CaptureTypeOK, Progress, Reports, R!WholeClips, R!Restart
  <2> QED
    BY <2>1, <2>2, <2>3, <2>4, <2>5, <2>6 DEF CaptureInv
<1>8. ASSUME NEW c \in Clips, R!Begin(c) PROVE CaptureInv'
  <2>1. CaptureTypeOK'
    BY <1>8, <1>0 DEF CaptureTypeOK, R!Begin
  <2>2. Progress'
    BY <1>8, <1>0 DEF CaptureTypeOK, Progress, R!Begin
  <2>3. BoundOwned'
    BY <1>8, <1>0 DEF CaptureTypeOK, Progress, BoundOwned, R!Begin
  <2>4. Reports'
    BY <1>8, <1>0 DEF CaptureTypeOK, Progress, Reports, R!Begin
  <2>5. R!NothingLeft'
    BY <1>8, <1>0 DEF CaptureTypeOK, Progress, R!NothingLeft, R!Begin
  <2>6. R!WholeClips'
    BY <1>8, <1>0 DEF CaptureTypeOK, Progress, Reports, R!WholeClips, R!Begin
  <2> QED
    BY <2>1, <2>2, <2>3, <2>4, <2>5, <2>6 DEF CaptureInv
<1>9. ASSUME NEW c \in Clips, R!Fork(c) PROVE CaptureInv'
  <2>1. CaptureTypeOK'
    BY <1>9, <1>0 DEF CaptureTypeOK, R!Fork
  <2>2. Progress'
    BY <1>9, <1>0 DEF CaptureTypeOK, Progress, R!Fork
  <2>3. BoundOwned'
    BY <1>9, <1>0 DEF CaptureTypeOK, Progress, BoundOwned, R!Fork
  <2>4. Reports'
    BY <1>9, <1>0 DEF CaptureTypeOK, Progress, Reports, R!Fork
  <2>5. R!NothingLeft'
    BY <1>9, <1>0 DEF CaptureTypeOK, Progress, R!NothingLeft, R!Fork
  <2>6. R!WholeClips'
    BY <1>9, <1>0 DEF CaptureTypeOK, Progress, Reports, R!WholeClips, R!Fork
  <2> QED
    BY <2>1, <2>2, <2>3, <2>4, <2>5, <2>6 DEF CaptureInv
<1>10. ASSUME NEW c \in Clips, R!Spawned(c) PROVE CaptureInv'
  <2>1. CaptureTypeOK'
    BY <1>10, <1>0 DEF CaptureTypeOK, R!Spawned
  <2>2. Progress'
    BY <1>10, <1>0 DEF CaptureTypeOK, Progress, R!Spawned
  <2>3. BoundOwned'
    BY <1>10, <1>0 DEF CaptureTypeOK, Progress, BoundOwned, R!Spawned
  <2>4. Reports'
    BY <1>10, <1>0 DEF CaptureTypeOK, Progress, Reports, R!Spawned
  <2>5. R!NothingLeft'
    BY <1>10, <1>0 DEF CaptureTypeOK, Progress, R!NothingLeft, R!Spawned
  <2>6. R!WholeClips'
    BY <1>10, <1>0 DEF CaptureTypeOK, Progress, Reports, R!WholeClips, R!Spawned
  <2> QED
    BY <2>1, <2>2, <2>3, <2>4, <2>5, <2>6 DEF CaptureInv
<1>11. ASSUME NEW c \in Clips, R!SpawnFails(c) PROVE CaptureInv'
  <2>1. CaptureTypeOK'
    BY <1>11, <1>0 DEF CaptureTypeOK, R!SpawnFails
  <2>2. Progress'
    BY <1>11, <1>0 DEF CaptureTypeOK, Progress, R!SpawnFails
  <2>3. BoundOwned'
    BY <1>11, <1>0 DEF CaptureTypeOK, Progress, BoundOwned, R!SpawnFails
  <2>4. Reports'
    BY <1>11, <1>0 DEF CaptureTypeOK, Progress, Reports, R!SpawnFails
  <2>5. R!NothingLeft'
    BY <1>11, <1>0 DEF CaptureTypeOK, Progress, R!NothingLeft, R!SpawnFails
  <2>6. R!WholeClips'
    BY <1>11, <1>0 DEF CaptureTypeOK, Progress, Reports, R!WholeClips, R!SpawnFails
  <2> QED
    BY <2>1, <2>2, <2>3, <2>4, <2>5, <2>6 DEF CaptureInv
<1>12. ASSUME NEW c \in Clips, R!Collect(c) PROVE CaptureInv'
  <2>1. CaptureTypeOK'
    BY <1>12, <1>0 DEF CaptureTypeOK, R!Collect
  <2>2. Progress'
    BY <1>12, <1>0 DEF CaptureTypeOK, Progress, R!Collect
  <2>3. BoundOwned'
    BY <1>12, <1>0 DEF CaptureTypeOK, Progress, BoundOwned, R!Collect
  <2>4. Reports'
    BY <1>12, <1>0 DEF CaptureTypeOK, Progress, Reports, R!Collect
  <2>5. R!NothingLeft'
    BY <1>12, <1>0 DEF CaptureTypeOK, Progress, R!NothingLeft, R!Collect
  <2>6. R!WholeClips'
    BY <1>12, <1>0 DEF CaptureTypeOK, Progress, Reports, R!WholeClips, R!Collect
  <2> QED
    BY <2>1, <2>2, <2>3, <2>4, <2>5, <2>6 DEF CaptureInv
<1>13. ASSUME NEW c \in Clips, R!Kill(c) PROVE CaptureInv'
  <2>1. CaptureTypeOK'
    BY <1>13, <1>0 DEF CaptureTypeOK, R!Kill
  <2>2. Progress'
    BY <1>13, <1>0 DEF CaptureTypeOK, Progress, R!Kill
  <2>3. BoundOwned'
    BY <1>13, <1>0 DEF CaptureTypeOK, Progress, BoundOwned, R!Kill
  <2>4. Reports'
    BY <1>13, <1>0 DEF CaptureTypeOK, Progress, Reports, R!Kill
  <2>5. R!NothingLeft'
    BY <1>13, <1>0 DEF CaptureTypeOK, Progress, R!NothingLeft, R!Kill
  <2>6. R!WholeClips'
    BY <1>13, <1>0 DEF CaptureTypeOK, Progress, Reports, R!WholeClips, R!Kill
  <2> QED
    BY <2>1, <2>2, <2>3, <2>4, <2>5, <2>6 DEF CaptureInv
<1>14. ASSUME NEW c \in Clips, R!Cleaned(c) PROVE CaptureInv'
  <2>1. CaptureTypeOK'
    BY <1>14, <1>0 DEF CaptureTypeOK, R!Cleaned
  <2>2. Progress'
    BY <1>14, <1>0 DEF CaptureTypeOK, Progress, R!Cleaned
  <2>3. BoundOwned'
    BY <1>14, <1>0 DEF CaptureTypeOK, Progress, BoundOwned, R!Cleaned
  <2>4. Reports'
    BY <1>14, <1>0 DEF CaptureTypeOK, Progress, Reports, R!Cleaned
  <2>5. R!NothingLeft'
    BY <1>14, <1>0 DEF CaptureTypeOK, Progress, R!NothingLeft, R!Cleaned
  <2>6. R!WholeClips'
    BY <1>14, <1>0 DEF CaptureTypeOK, Progress, Reports, R!WholeClips, R!Cleaned
  <2> QED
    BY <2>1, <2>2, <2>3, <2>4, <2>5, <2>6 DEF CaptureInv
<1>15. ASSUME NEW c \in Clips, R!Publish(c) PROVE CaptureInv'
  <2>1. CaptureTypeOK'
    BY <1>15, <1>0 DEF CaptureTypeOK, R!Publish
  <2>2. Progress'
    BY <1>15, <1>0 DEF CaptureTypeOK, Progress, R!Publish
  <2>3. BoundOwned'
    BY <1>15, <1>0 DEF CaptureTypeOK, Progress, BoundOwned, Reports, R!Publish
  <2>4. Reports'
    BY <1>15, <1>0 DEF CaptureTypeOK, Progress, Reports, R!Publish
  <2>5. R!NothingLeft'
    BY <1>15, <1>0 DEF CaptureTypeOK, Progress, Reports, R!NothingLeft, R!Publish
  <2>6. R!WholeClips'
    BY <1>15, <1>0 DEF CaptureTypeOK, Progress, Reports, R!WholeClips, R!Publish
  <2> QED
    BY <2>1, <2>2, <2>3, <2>4, <2>5, <2>6 DEF CaptureInv
<1>16. ASSUME NEW c \in Clips, R!Reject(c) PROVE CaptureInv'
  <2>1. CaptureTypeOK'
    BY <1>16, <1>0 DEF CaptureTypeOK, R!Reject
  <2>2. Progress'
    BY <1>16, <1>0 DEF CaptureTypeOK, Progress, R!Reject
  <2>3. BoundOwned'
    BY <1>16, <1>0 DEF CaptureTypeOK, Progress, BoundOwned, Reports, R!Reject
  <2>4. Reports'
    BY <1>16, <1>0 DEF CaptureTypeOK, Progress, Reports, R!Reject
  <2>5. R!NothingLeft'
    BY <1>16, <1>0 DEF CaptureTypeOK, Progress, Reports, R!NothingLeft, R!Reject
  <2>6. R!WholeClips'
    BY <1>16, <1>0 DEF CaptureTypeOK, Progress, Reports, R!WholeClips, R!Reject
  <2> QED
    BY <2>1, <2>2, <2>3, <2>4, <2>5, <2>6 DEF CaptureInv
<1>17. ASSUME NEW c \in Clips, R!Settled(c) PROVE CaptureInv'
  <2>1. CaptureTypeOK'
    BY <1>17, <1>0 DEF CaptureTypeOK, R!Settled
  <2>2. Progress'
    BY <1>17, <1>0 DEF CaptureTypeOK, Progress, R!Settled
  <2>3. BoundOwned'
    BY <1>17, <1>0 DEF CaptureTypeOK, Progress, BoundOwned, Reports, R!Settled
  <2>4. Reports'
    BY <1>17, <1>0 DEF CaptureTypeOK, Progress, Reports, R!Settled
  <2>5. R!NothingLeft'
    BY <1>17, <1>0 DEF CaptureTypeOK, Progress, Reports, R!NothingLeft, R!Settled
  <2>6. R!WholeClips'
    BY <1>17, <1>0 DEF CaptureTypeOK, Progress, Reports, R!WholeClips, R!Settled
  <2> QED
    BY <2>1, <2>2, <2>3, <2>4, <2>5, <2>6 DEF CaptureInv
<1>18. ASSUME NEW c \in Clips, R!Delete(c) PROVE CaptureInv'
  <2>1. CaptureTypeOK'
    BY <1>18, <1>0 DEF CaptureTypeOK, R!Delete
  <2>2. Progress'
    BY <1>18, <1>0 DEF CaptureTypeOK, Progress, R!Delete
  <2>3. BoundOwned'
    BY <1>18, <1>0 DEF CaptureTypeOK, Progress, BoundOwned, R!Delete
  <2>4. Reports'
    BY <1>18, <1>0 DEF CaptureTypeOK, Progress, Reports, R!Delete
  <2>5. R!NothingLeft'
    BY <1>18, <1>0 DEF CaptureTypeOK, Progress, R!NothingLeft, R!Delete
  <2>6. R!WholeClips'
    BY <1>18, <1>0 DEF CaptureTypeOK, Progress, Reports, R!WholeClips, R!Delete
  <2> QED
    BY <2>1, <2>2, <2>3, <2>4, <2>5, <2>6 DEF CaptureInv
<1>19. ASSUME NEW c \in Clips, R!ReadParent(c) PROVE CaptureInv'
  <2>1. CaptureTypeOK'
    BY <1>19, <1>0 DEF CaptureTypeOK, R!ReadParent
  <2>2. Progress'
    BY <1>19, <1>0 DEF CaptureTypeOK, Progress, R!ReadParent
  <2>3. BoundOwned'
    BY <1>19, <1>0 DEF CaptureTypeOK, Progress, BoundOwned, R!ReadParent
  <2>4. Reports'
    BY <1>19, <1>0 DEF CaptureTypeOK, Progress, Reports, R!ReadParent
  <2>5. R!NothingLeft'
    BY <1>19, <1>0 DEF CaptureTypeOK, Progress, R!NothingLeft, R!ReadParent
  <2>6. R!WholeClips'
    BY <1>19, <1>0 DEF CaptureTypeOK, Progress, Reports, R!WholeClips, R!ReadParent
  <2> QED
    BY <2>1, <2>2, <2>3, <2>4, <2>5, <2>6 DEF CaptureInv
<1>20. ASSUME NEW c \in Clips, R!Bind(c) PROVE CaptureInv'
  <2>1. CaptureTypeOK'
    BY <1>20, <1>0 DEF CaptureTypeOK, R!Bind
  <2>2. Progress'
    BY <1>20, <1>0 DEF CaptureTypeOK, Progress, R!Bind
  <2>3. BoundOwned'
    BY <1>20, <1>0 DEF CaptureTypeOK, Progress, BoundOwned, R!NothingLeft, R!Bind
  <2>4. Reports'
    BY <1>20, <1>0 DEF CaptureTypeOK, Progress, Reports, R!Bind
  <2>5. R!NothingLeft'
    BY <1>20, <1>0 DEF CaptureTypeOK, Progress, R!NothingLeft, R!Bind
  <2>6. R!WholeClips'
    BY <1>20, <1>0 DEF CaptureTypeOK, Progress, Reports, R!WholeClips, R!Bind
  <2> QED
    BY <2>1, <2>2, <2>3, <2>4, <2>5, <2>6 DEF CaptureInv
<1>21. ASSUME NEW c \in Clips, R!Grant(c) PROVE CaptureInv'
  <2>1. CaptureTypeOK'
    BY <1>21, <1>0 DEF CaptureTypeOK, R!Grant
  <2>2. Progress'
    BY <1>21, <1>0 DEF CaptureTypeOK, Progress, R!Grant
  <2>3. BoundOwned'
    BY <1>21, <1>0 DEF CaptureTypeOK, Progress, BoundOwned, R!Grant
  <2>4. Reports'
    BY <1>21, <1>0 DEF CaptureTypeOK, Progress, Reports, R!Grant
  <2>5. R!NothingLeft'
    BY <1>21, <1>0 DEF CaptureTypeOK, Progress, R!NothingLeft, R!Grant
  <2>6. R!WholeClips'
    BY <1>21, <1>0 DEF CaptureTypeOK, Progress, Reports, R!WholeClips, R!Grant
  <2> QED
    BY <2>1, <2>2, <2>3, <2>4, <2>5, <2>6 DEF CaptureInv
<1>22. ASSUME NEW c \in Clips, R!Open(c) PROVE CaptureInv'
  <2>1. CaptureTypeOK'
    BY <1>22, <1>0 DEF CaptureTypeOK, R!Open
  <2>2. Progress'
    BY <1>22, <1>0 DEF CaptureTypeOK, Progress, R!Open
  <2>3. BoundOwned'
    BY <1>22, <1>0 DEF CaptureTypeOK, Progress, BoundOwned, R!Open
  <2>4. Reports'
    BY <1>22, <1>0 DEF CaptureTypeOK, Progress, Reports, R!Open
  <2>5. R!NothingLeft'
    BY <1>22, <1>0 DEF CaptureTypeOK, Progress, R!NothingLeft, R!Open
  <2>6. R!WholeClips'
    BY <1>22, <1>0 DEF CaptureTypeOK, Progress, Reports, R!WholeClips, R!Open
  <2> QED
    BY <2>1, <2>2, <2>3, <2>4, <2>5, <2>6 DEF CaptureInv
<1>23. ASSUME NEW c \in Clips, R!Finish(c) PROVE CaptureInv'
  <2>1. CaptureTypeOK'
    BY <1>23, <1>0 DEF CaptureTypeOK, R!Finish
  <2>2. Progress'
    BY <1>23, <1>0 DEF CaptureTypeOK, Progress, R!Finish
  <2>3. BoundOwned'
    BY <1>23, <1>0 DEF CaptureTypeOK, Progress, BoundOwned, R!Finish
  <2>4. Reports'
    BY <1>23, <1>0 DEF CaptureTypeOK, Progress, Reports, R!Finish
  <2>5. R!NothingLeft'
    BY <1>23, <1>0 DEF CaptureTypeOK, Progress, R!NothingLeft, R!Finish
  <2>6. R!WholeClips'
    BY <1>23, <1>0 DEF CaptureTypeOK, Progress, Reports, R!WholeClips, R!Finish
  <2> QED
    BY <2>1, <2>2, <2>3, <2>4, <2>5, <2>6 DEF CaptureInv
<1>24. ASSUME NEW c \in Clips, R!Report(c) PROVE CaptureInv'
  <2>1. CaptureTypeOK'
    BY <1>24, <1>0 DEF CaptureTypeOK, R!Report
  <2>2. Progress'
    BY <1>24, <1>0 DEF CaptureTypeOK, Progress, R!Report
  <2>3. BoundOwned'
    BY <1>24, <1>0 DEF CaptureTypeOK, Progress, BoundOwned, R!Report
  <2>4. Reports'
    BY <1>24, <1>0 DEF CaptureTypeOK, Progress, Reports, R!Report
  <2>5. R!NothingLeft'
    BY <1>24, <1>0 DEF CaptureTypeOK, Progress, R!NothingLeft, R!Report
  <2>6. R!WholeClips'
    BY <1>24, <1>0 DEF CaptureTypeOK, Progress, Reports, R!WholeClips, R!Report
  <2> QED
    BY <2>1, <2>2, <2>3, <2>4, <2>5, <2>6 DEF CaptureInv
<1>25. ASSUME NEW c \in Clips, R!WorkerFails(c) PROVE CaptureInv'
  <2>1. CaptureTypeOK'
    BY <1>25, <1>0 DEF CaptureTypeOK, R!WorkerFails
  <2>2. Progress'
    BY <1>25, <1>0 DEF CaptureTypeOK, Progress, R!WorkerFails
  <2>3. BoundOwned'
    BY <1>25, <1>0 DEF CaptureTypeOK, Progress, BoundOwned, R!WorkerFails
  <2>4. Reports'
    BY <1>25, <1>0 DEF CaptureTypeOK, Progress, Reports, R!WorkerFails
  <2>5. R!NothingLeft'
    BY <1>25, <1>0 DEF CaptureTypeOK, Progress, R!NothingLeft, R!WorkerFails
  <2>6. R!WholeClips'
    BY <1>25, <1>0 DEF CaptureTypeOK, Progress, Reports, R!WholeClips, R!WorkerFails
  <2> QED
    BY <2>1, <2>2, <2>3, <2>4, <2>5, <2>6 DEF CaptureInv
<1>26. ASSUME NEW c \in Clips, R!WorkerDies(c) PROVE CaptureInv'
  <2>1. CaptureTypeOK'
    BY <1>26, <1>0 DEF CaptureTypeOK, R!WorkerDies
  <2>2. Progress'
    BY <1>26, <1>0 DEF CaptureTypeOK, Progress, R!WorkerDies
  <2>3. BoundOwned'
    BY <1>26, <1>0 DEF CaptureTypeOK, Progress, BoundOwned, R!WorkerDies
  <2>4. Reports'
    BY <1>26, <1>0 DEF CaptureTypeOK, Progress, Reports, R!WorkerDies
  <2>5. R!NothingLeft'
    BY <1>26, <1>0 DEF CaptureTypeOK, Progress, R!NothingLeft, R!WorkerDies
  <2>6. R!WholeClips'
    BY <1>26, <1>0 DEF CaptureTypeOK, Progress, Reports, R!WholeClips, R!WorkerDies
  <2> QED
    BY <2>1, <2>2, <2>3, <2>4, <2>5, <2>6 DEF CaptureInv
<1>27. CASE UNCHANGED R!vars
  BY <1>27, <1>0 DEF CaptureInv, CaptureTypeOK, Progress, BoundOwned, Reports, R!NothingLeft, R!WholeClips
<1> QED
  BY <1>1, <1>2, <1>3, <1>4, <1>5, <1>6, <1>7, <1>8, <1>9, <1>10, <1>11, <1>12, <1>13, <1>14,
     <1>15, <1>16, <1>17, <1>18, <1>19, <1>20, <1>21, <1>22, <1>23, <1>24, <1>25, <1>26, <1>27 DEF R!Next

LEMMA AlwaysCapture == R!Spec => []CaptureInv
  BY InitCapture, StepCapture, PTL DEF R!Spec

\* Cancelled anywhere and any number of times, a capture leaves no worker and no
\* pending file (capture, command).
THEOREM NothingLeftHolds == R!Spec => []R!NothingLeft
<1>1. CaptureInv => R!NothingLeft
  BY DEF CaptureInv
<1> QED
  BY <1>1, AlwaysCapture, PTL

\* Only the worker of the capture in progress captures the screen, but for one that
\* was started so late that it took another process for its core (main).
THEOREM GrantOwnedHolds == R!Spec => []R!GrantOwned
<1>1. CaptureInv => R!GrantOwned
  BY DEF CaptureInv, BoundOwned, R!GrantOwned
<1> QED
  BY <1>1, AlwaysCapture, PTL

\* A clip that is listed is a finished recording (_verify, path.rename).
THEOREM WholeClipsHolds == R!Spec => []R!WholeClips
<1>1. CaptureInv => R!WholeClips
  BY DEF CaptureInv
<1> QED
  BY <1>1, AlwaysCapture, PTL

================================================================================
