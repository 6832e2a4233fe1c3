---------------------------- MODULE NotificationProofs --------------------------
(***************************************************************************)
(* What reaches a user unasked: PushDelivery and Reminders keep their      *)
(* promises for every number of notifications, devices and attempts, and   *)
(* of debts, requests, scans and keys.                                     *)
(*                                                                         *)
(* The strengthening of PushDelivery says what an execution of Work holds  *)
(* on to: a token it sends to is one the user was signed in with since the *)
(* notification was made, and is still the user's if the user has not      *)
(* moved; a token it clears is dead.  That of Reminders, further down,     *)
(* says that what a transaction read stays true while it holds the rows.   *)
(***************************************************************************)
EXTENDS PushDelivery, Reminders, FiniteSetTheorems, WellFoundedInduction, TLAPS

\* The executions, and what may have changed since they read.
ExecutionsHold == \A n \in Notes, k \in Attempts :
  /\ exec[n][k].stage = "send" => exec[n][k].token \in homes[n] \cup dead
  /\ exec[n][k].stage = "clear" => exec[n][k].token \in dead
  /\ exec[n][k].stage \in {"send", "clear"} /\ awaited[n] # NoToken
       => exec[n][k].token = awaited[n]
  /\ n \notin Dispatched => exec[n][k] = Stopped

\* A device that is awaited is where the user is signed in.
AwaitedIsHome == \A n \in Notes :
  awaited[n] # NoToken =>
    /\ session.live
    /\ session.token = awaited[n]
    /\ awaited[n] \notin dead

\* The device where the user is now is one of those since the dispatch.
HomeIsKnown == \A n \in Dispatched :
  ActiveToken \notin dead \cup {NoToken} => ActiveToken \in homes[n]

\* A job that waits has an attempt left.
AttemptsLeft == \A n \in Notes :
  river[n].phase = "available" => river[n].attempt < MaxAttempts

\* Of a notification that was not made there is nothing.
NotStarted == \A n \in Notes \ Dispatched :
  pushed[n] = {} /\ homes[n] = {}

Inv ==
  /\ TypeOK
  /\ AttemptsLeft
  /\ NotStarted
  /\ ExecutionsHold
  /\ AwaitedIsHome
  /\ HomeIsKnown
  /\ PushedWhereSignedIn
  /\ PushArrives

-----------------------------------------------------------------------------
LEMMA InitInv == Init => Inv
<1> SUFFICES ASSUME Init PROVE Inv
  OBVIOUS
<1>1. TypeOK /\ AttemptsLeft /\ NotStarted
  BY PushAssumption DEF Init, TypeOK, AttemptsLeft, NotStarted, MaybeToken, Attempts, Stopped
<1>2. Dispatched = {}
  BY DEF Init, Dispatched
<1>3. ExecutionsHold
  BY DEF Init, ExecutionsHold, Stopped
<1>4. AwaitedIsHome /\ HomeIsKnown /\ PushedWhereSignedIn /\ PushArrives
  BY <1>2 DEF Init, AwaitedIsHome, HomeIsKnown, PushedWhereSignedIn, PushArrives
<1> QED
  BY <1>1, <1>3, <1>4 DEF Inv

-----------------------------------------------------------------------------
(* The result of an attempt. *)

\* What Return does to the jobs and executions, for the result of an attempt:
\* types stay, no other execution moves, and only its own job may be done.
LEMMA ReturnIsLocal ==
  ASSUME TypeOK, AttemptsLeft, NEW n \in Notes, NEW k \in Attempts,
         NEW phase \in {"completed", AfterFailure(k)}, Return(n, k, phase)
  PROVE  /\ river' \in [Notes -> [phase : {"none", "available", "running", "completed",
                                           "discarded"}, attempt : 0..MaxAttempts]]
         /\ exec' \in [Notes -> [Attempts -> [stage : {"none", "load", "send", "clear"},
                                              token : MaybeToken]]]
         /\ AttemptsLeft'
         /\ Dispatched' = Dispatched
         /\ \A m \in Notes, j \in Attempts :
              exec'[m][j] = exec[m][j] \/ exec'[m][j] = Stopped
         /\ \A m \in Notes : river'[m].phase = "completed" =>
              river[m].phase = "completed" \/ (m = n /\ phase = "completed")
<1>1. phase \in {"available", "discarded", "completed"}
  BY DEF AfterFailure
<1>2. phase = "available" => k < MaxAttempts
  BY DEF AfterFailure
<1>3. Stopped \in [stage : {"none", "load", "send", "clear"}, token : MaybeToken]
  BY DEF Stopped, MaybeToken
<1>4. exec' = [exec EXCEPT ![n] = [exec[n] EXCEPT ![k] = Stopped]]
  BY DEF Return, TypeOK
<1>5. /\ exec' \in [Notes -> [Attempts -> [stage : {"none", "load", "send", "clear"},
                                           token : MaybeToken]]]
      /\ \A m \in Notes, j \in Attempts :
           exec'[m][j] = exec[m][j] \/ exec'[m][j] = Stopped
  BY <1>3, <1>4 DEF TypeOK
<1>6. CASE river[n] = [phase |-> "running", attempt |-> k]
  <2>1. river' = [river EXCEPT ![n] = [phase |-> phase, attempt |-> k]]
    BY <1>6 DEF Return
  <2>2. \A m \in Notes \ {n} : river'[m] = river[m]
    BY <2>1 DEF TypeOK
  <2>3. /\ river'[n].phase = phase /\ river'[n].attempt = k
        /\ river' \in [Notes -> [phase : {"none", "available", "running", "completed",
                                          "discarded"}, attempt : 0..MaxAttempts]]
    BY <2>1, <1>1, <1>6, PushAssumption DEF TypeOK, Attempts
  <2>4. AttemptsLeft'
    BY <2>2, <2>3, <1>2 DEF AttemptsLeft
  <2>5. Dispatched' = Dispatched
    BY <2>2, <2>3, <1>1, <1>6 DEF Dispatched
  <2> QED
    BY <1>5, <2>2, <2>3, <2>4, <2>5
<1>7. CASE river[n] # [phase |-> "running", attempt |-> k]
  <2>1. river' = river
    BY <1>7 DEF Return
  <2> QED
    BY <1>5, <2>1 DEF TypeOK, AttemptsLeft, Dispatched
<1> QED
  BY <1>6, <1>7

-----------------------------------------------------------------------------
(* The user. *)

\* Nobody waits elsewhere after a move, and every dispatched notification
\* knows where the user is.
LEMMA MovesIsTrue ==
  ASSUME Inv, NEW t \in MaybeToken, Moves(t)
  PROVE  /\ awaited' \in [Notes -> MaybeToken]
         /\ homes' \in [Notes -> SUBSET Tokens]
         /\ \A n \in Notes : awaited'[n] # NoToken => awaited'[n] = t /\ awaited[n] = t
         /\ \A n \in Notes : homes[n] \subseteq homes'[n]
         /\ \A n \in Dispatched : t # NoToken => t \in homes'[n]
         /\ \A n \in Notes \ Dispatched : homes'[n] = homes[n]
<1>1. NoToken \in MaybeToken /\ {t} \ {NoToken} \subseteq Tokens
  BY DEF MaybeToken
<1> QED
  BY <1>1 DEF Inv, TypeOK, Moves, Dispatched

LEMMA UserInv ==
  ASSUME Inv, UserStep
  PROVE  Inv'
<1> USE DEF Inv
<1>1. ASSUME NEW t \in MaybeToken, Moves(t),
             session' \in [live : BOOLEAN, token : MaybeToken],
             session'.live => session'.token = t,
             t # NoToken => session'.live,
             dead' = dead, river' = river, exec' = exec, pushed' = pushed
      PROVE  Inv'
  <2>1. TypeOK' /\ AttemptsLeft'
    BY <1>1, MovesIsTrue DEF TypeOK, AttemptsLeft
  <2>2. Dispatched' = Dispatched
    BY <1>1 DEF Dispatched
  <2>3. ExecutionsHold'
    BY <1>1, <2>2, MovesIsTrue DEF ExecutionsHold
  <2>4. AwaitedIsHome'
    BY <1>1, MovesIsTrue DEF AwaitedIsHome
  <2>5. HomeIsKnown'
    BY <1>1, <2>2, MovesIsTrue DEF HomeIsKnown, ActiveToken, Dispatched
  <2>6. PushedWhereSignedIn'
    BY <1>1, MovesIsTrue DEF PushedWhereSignedIn
  <2>7. PushArrives'
    BY <1>1, MovesIsTrue DEF PushArrives
  <2>8. NotStarted'
    BY <1>1, <2>2, MovesIsTrue DEF NotStarted
  <2> QED
    BY <2>1, <2>3, <2>4, <2>5, <2>6, <2>7, <2>8
<1>2. ASSUME NEW t \in MaybeToken \ dead, SignIn(t)
      PROVE  Inv'
  BY <1>2, <1>1 DEF SignIn
<1>3. ASSUME NEW t \in Tokens \ dead, UpdateFCMToken(t)
      PROVE  Inv'
  <2>1. session' = [live |-> TRUE, token |-> t] /\ t \in MaybeToken
    BY <1>3 DEF UpdateFCMToken, TypeOK, MaybeToken
  <2> QED
    BY <1>3, <2>1, <1>1 DEF UpdateFCMToken
<1>4. ASSUME EndSession
      PROVE  Inv'
  <2>1. session' \in [live : BOOLEAN, token : MaybeToken] /\ ~session'.live
    BY <1>4 DEF EndSession, TypeOK
  <2>2. NoToken \in MaybeToken
    BY DEF MaybeToken
  <2> QED
    BY <1>4, <2>1, <2>2, <1>1 DEF EndSession
<1>5. ASSUME NEW t \in Tokens \ dead, TokenDies(t)
      PROVE  Inv'
  <2> USE <1>5 DEF TokenDies
  <2>1. NoToken \in MaybeToken
    BY DEF MaybeToken
  <2>2. \A n \in Notes : awaited'[n] # NoToken => awaited'[n] = awaited[n] /\ awaited[n] # t
    BY DEF TypeOK
  <2>3. TypeOK' /\ AttemptsLeft'
    BY <2>1 DEF TypeOK, AttemptsLeft
  <2>4. Dispatched' = Dispatched /\ ActiveToken' = ActiveToken
    BY DEF Dispatched, ActiveToken
  <2>5. ExecutionsHold'
    BY <2>2, <2>4 DEF ExecutionsHold
  <2>6. AwaitedIsHome'
    BY <2>2 DEF AwaitedIsHome
  <2>7. HomeIsKnown'
    BY <2>4 DEF HomeIsKnown
  <2>8. PushedWhereSignedIn' /\ PushArrives' /\ NotStarted'
    BY <2>2, <2>4 DEF PushedWhereSignedIn, PushArrives, NotStarted
  <2> QED
    BY <2>3, <2>5, <2>6, <2>7, <2>8
<1> QED
  BY <1>2, <1>3, <1>4, <1>5 DEF UserStep

-----------------------------------------------------------------------------
(* The jobs. *)

\* What follows from a return of which nothing else has changed but, perhaps,
\* that FCM has taken the notification on a device of the user.
LEMMA ReturnInv ==
  ASSUME Inv, NEW n \in Notes, NEW k \in Attempts,
         NEW phase \in {"completed", AfterFailure(k)}, Return(n, k, phase),
         UNCHANGED <<session, dead, awaited, homes>>,
         pushed' \in [Notes -> SUBSET Tokens],
         \A m \in Notes : pushed[m] \subseteq pushed'[m] /\ pushed'[m] \subseteq pushed[m] \cup homes[m],
         phase = "completed" =>
           n \in Malformed \/ awaited[n] = NoToken \/ awaited[n] \in pushed'[n]
  PROVE  Inv'
<1> USE DEF Inv
<1>1. /\ TypeOK' /\ AttemptsLeft'
      /\ Dispatched' = Dispatched
      /\ \A m \in Notes, j \in Attempts :
           exec'[m][j] = exec[m][j] \/ exec'[m][j] = Stopped
      /\ \A m \in Notes : river'[m].phase = "completed" =>
           river[m].phase = "completed" \/ (m = n /\ phase = "completed")
  BY ReturnIsLocal DEF TypeOK
<1>2. ExecutionsHold'
  BY <1>1 DEF ExecutionsHold, Stopped
<1>3. AwaitedIsHome'
  BY DEF AwaitedIsHome
<1>4. HomeIsKnown'
  BY <1>1 DEF HomeIsKnown, ActiveToken
<1>5. PushedWhereSignedIn'
  BY DEF PushedWhereSignedIn
<1>6. PushArrives'
  BY <1>1 DEF PushArrives
<1>7. NotStarted'
  BY <1>1 DEF NotStarted
<1> QED
  BY <1>1, <1>2, <1>3, <1>4, <1>5, <1>6, <1>7

\* An execution goes on to a later stage.
LEMMA GoesOnInv ==
  ASSUME Inv, NEW n \in Dispatched, NEW k \in Attempts,
         NEW stage \in {"load", "send", "clear"}, NEW t \in MaybeToken,
         exec' = [exec EXCEPT ![n][k] = [stage |-> stage, token |-> t]],
         river' \in [Notes -> [phase : {"none", "available", "running", "completed",
                                        "discarded"}, attempt : 0..MaxAttempts]],
         AttemptsLeft', Dispatched' = Dispatched,
         \A m \in Notes : river'[m].phase = "completed" => river[m].phase = "completed",
         UNCHANGED <<session, dead, pushed, awaited, homes>>,
         stage = "send" => t \in homes[n] \cup dead,
         stage = "clear" => t \in dead,
         stage # "load" /\ awaited[n] # NoToken => t = awaited[n]
  PROVE  Inv'
<1> USE DEF Inv
<1>1. n \in Notes
  BY DEF Dispatched
<1>2. /\ exec' \in [Notes -> [Attempts -> [stage : {"none", "load", "send", "clear"},
                                           token : MaybeToken]]]
      /\ exec'[n][k] = [stage |-> stage, token |-> t]
      /\ \A m \in Notes, j \in Attempts : m # n \/ j # k => exec'[m][j] = exec[m][j]
  BY <1>1 DEF TypeOK
<1>3. TypeOK'
  BY <1>2 DEF TypeOK
<1>4. ExecutionsHold'
  <2>1. \A m \in Notes, j \in Attempts :
          /\ exec'[m][j].stage = "send" => exec'[m][j].token \in homes[m] \cup dead
          /\ exec'[m][j].stage = "clear" => exec'[m][j].token \in dead
          /\ exec'[m][j].stage \in {"send", "clear"} /\ awaited[m] # NoToken
               => exec'[m][j].token = awaited[m]
    BY <1>1, <1>2 DEF ExecutionsHold
  <2>2. \A m \in Notes \ Dispatched, j \in Attempts : exec'[m][j] = Stopped
    BY <1>2 DEF ExecutionsHold
  <2> QED
    BY <2>1, <2>2 DEF ExecutionsHold
<1>5. AwaitedIsHome' /\ PushedWhereSignedIn' /\ PushArrives'
  BY DEF AwaitedIsHome, PushedWhereSignedIn, PushArrives
<1>6. HomeIsKnown' /\ NotStarted'
  BY DEF HomeIsKnown, ActiveToken, NotStarted
<1> QED
  BY <1>3, <1>4, <1>5, <1>6

\* An execution that is somewhere belongs to a notification that was made.
LEMMA ExecutionsAreDispatched ==
  ASSUME Inv, NEW n \in Notes, NEW k \in Attempts, exec[n][k] # Stopped
  PROVE  n \in Dispatched
BY DEF Inv, ExecutionsHold

LEMMA LoadInv ==
  ASSUME Inv, NEW n \in Notes, NEW k \in Attempts, Load(n, k)
  PROVE  Inv'
<1> USE DEF Inv
<1>1. n \in Dispatched
  BY ExecutionsAreDispatched DEF Load, Stopped
<1>2. ActiveToken \in MaybeToken
  BY DEF ActiveToken, TypeOK, MaybeToken
<1>3. awaited[n] # NoToken => ActiveToken = awaited[n]
  BY DEF AwaitedIsHome, ActiveToken
<1>4. CASE /\ ActiveToken # NoToken /\ UNCHANGED river
           /\ exec' = [exec EXCEPT ![n][k] = [stage |-> "send", token |-> ActiveToken]]
  <2>1. ActiveToken \in homes[n] \cup dead
    BY <1>1, <1>4 DEF HomeIsKnown
  <2>2. Dispatched' = Dispatched /\ AttemptsLeft'
    BY <1>4 DEF Dispatched, AttemptsLeft
  <2> QED
    BY <1>1, <1>2, <1>3, <1>4, <2>1, <2>2, GoesOnInv DEF Load, TypeOK
<1>5. CASE ActiveToken = NoToken /\ Return(n, k, "completed")
  <2>1. awaited[n] = NoToken
    BY <1>3, <1>5
  <2> QED
    BY <1>5, <2>1, ReturnInv DEF Load, TypeOK
<1>6. CASE Return(n, k, AfterFailure(k))
  BY <1>6, ReturnInv DEF Load, TypeOK, AfterFailure
<1> QED
  BY <1>4, <1>5, <1>6 DEF Load

LEMMA SendInv ==
  ASSUME Inv, NEW n \in Notes, NEW k \in Attempts, Send(n, k)
  PROVE  Inv'
<1> DEFINE t == exec[n][k].token
           taken == [pushed EXCEPT ![n] = @ \cup {t}]
<1> USE DEF Inv
<1>1. exec[n][k].stage = "send" /\ UNCHANGED <<session, dead, awaited, homes>>
  BY DEF Send
<1>2. /\ n \in Dispatched /\ t \in MaybeToken
      /\ t \in homes[n] \cup dead
      /\ awaited[n] # NoToken => t = awaited[n]
  BY <1>1, ExecutionsAreDispatched DEF Stopped, TypeOK, ExecutionsHold
<1>3. ASSUME t \notin dead
      PROVE  /\ taken \in [Notes -> SUBSET Tokens]
             /\ t \in taken[n]
             /\ \A m \in Notes : pushed[m] \subseteq taken[m]
                                 /\ taken[m] \subseteq pushed[m] \cup homes[m]
  BY <1>2, <1>3 DEF TypeOK
<1> HIDE DEF taken
<1>4. CASE t \notin dead /\ pushed' = taken /\ Return(n, k, "completed")
  BY <1>1, <1>2, <1>3, <1>4, ReturnInv
<1>5. CASE n \in Malformed /\ Return(n, k, "completed") /\ UNCHANGED pushed
  BY <1>1, <1>5, ReturnInv DEF TypeOK
<1>6. CASE /\ t \in dead /\ UNCHANGED <<river, pushed>>
           /\ exec' = [exec EXCEPT ![n][k] = [stage |-> "clear", token |-> t]]
  <2>2. Dispatched' = Dispatched /\ AttemptsLeft'
    BY <1>6 DEF Dispatched, AttemptsLeft
  <2> QED
    BY <1>1, <1>2, <1>6, <2>2, GoesOnInv DEF TypeOK
<1>7. CASE /\ pushed' = pushed \/ (pushed' = taken /\ t \notin dead)
           /\ Return(n, k, AfterFailure(k))
  <2>1. AfterFailure(k) # "completed"
    BY DEF AfterFailure
  <2> QED
    BY <1>1, <1>3, <1>7, <2>1, ReturnInv DEF TypeOK
<1> QED
  BY <1>4, <1>5, <1>6, <1>7 DEF Send, taken

LEMMA ClearInv ==
  ASSUME Inv, NEW n \in Notes, NEW k \in Attempts, Clear(n, k)
  PROVE  Inv'
<1> DEFINE t == exec[n][k].token
<1> USE DEF Inv
<1>1. /\ exec[n][k].stage = "clear" /\ Return(n, k, "completed")
      /\ UNCHANGED <<dead, pushed, awaited, homes>>
      /\ session' = session \/ (session.token = t /\ session' = [session EXCEPT !.token = NoToken])
  BY DEF Clear, StillStored
<1>2. t \in dead /\ (awaited[n] # NoToken => t = awaited[n])
  BY <1>1 DEF ExecutionsHold
<1>3. awaited[n] = NoToken
  BY <1>2 DEF AwaitedIsHome
<1>4. /\ session' \in [live : BOOLEAN, token : MaybeToken]
      /\ \A m \in Notes : awaited[m] # NoToken => session' = session
      /\ ActiveToken' \in {ActiveToken, NoToken}
  BY <1>1, <1>2 DEF AwaitedIsHome, ActiveToken, TypeOK, MaybeToken
<1>5. /\ river' \in [Notes -> [phase : {"none", "available", "running", "completed",
                                        "discarded"}, attempt : 0..MaxAttempts]]
      /\ exec' \in [Notes -> [Attempts -> [stage : {"none", "load", "send", "clear"},
                                           token : MaybeToken]]]
      /\ AttemptsLeft' /\ Dispatched' = Dispatched
      /\ \A m \in Notes, j \in Attempts :
           exec'[m][j] = exec[m][j] \/ exec'[m][j] = Stopped
      /\ \A m \in Notes : river'[m].phase = "completed" =>
           river[m].phase = "completed" \/ m = n
  BY <1>1, ReturnIsLocal
<1>6. TypeOK'
  BY <1>1, <1>4, <1>5 DEF TypeOK
<1>7. ExecutionsHold'
  <2>1. dead' = dead /\ homes' = homes /\ awaited' = awaited
    BY <1>1
  <2>2. Stopped.stage = "none"
    BY DEF Stopped
  <2>3. \A m \in Notes, j \in Attempts :
          exec'[m][j] = exec[m][j] \/ (exec'[m][j] = Stopped /\ exec'[m][j].stage = "none")
    BY <1>5, <2>2
  <2> HIDE DEF Inv
  <2>4. ExecutionsHold
    BY DEF Inv
  <2> QED
    BY <1>5, <2>1, <2>3, <2>4 DEF ExecutionsHold
<1>8. AwaitedIsHome'
  BY <1>1, <1>4 DEF AwaitedIsHome
<1>9. HomeIsKnown'
  BY <1>1, <1>4, <1>5 DEF HomeIsKnown
<1>10. PushedWhereSignedIn' /\ PushArrives' /\ NotStarted'
  BY <1>1, <1>3, <1>5 DEF PushedWhereSignedIn, PushArrives, NotStarted
<1> QED
  BY <1>5, <1>6, <1>7, <1>8, <1>9, <1>10

LEMMA JobInv ==
  ASSUME Inv, JobStep
  PROVE  Inv'
<1> USE DEF Inv
<1>1. ASSUME NEW n \in Notes, Dispatch(n)
      PROVE  Inv'
  <2> USE <1>1 DEF Dispatch
  <2>1. Home \in MaybeToken /\ NoToken \notin homes'[n] /\ homes'[n] = {Home} \ {NoToken}
    BY DEF Home, TypeOK, MaybeToken
  <2>2. TypeOK'
    <3>1. Home \in MaybeToken /\ {Home} \ {NoToken} \in SUBSET Tokens
      BY <2>1 DEF MaybeToken
    <3>2. [phase |-> "available", attempt |-> 0] \in
            [phase : {"none", "available", "running", "completed", "discarded"},
             attempt : 0..MaxAttempts]
      BY PushAssumption
    <3> QED
      BY <3>1, <3>2 DEF TypeOK
  <2>3. /\ river'[n].phase = "available" /\ river'[n].attempt = 0
        /\ awaited'[n] = Home
        /\ \A m \in Notes \ {n} : /\ river'[m] = river[m] /\ awaited'[m] = awaited[m]
                                  /\ homes'[m] = homes[m]
    BY DEF TypeOK
  <2>4. Dispatched' = Dispatched \cup {n} /\ ActiveToken' = ActiveToken
    BY <2>3 DEF Dispatched, ActiveToken
  <2>6. AttemptsLeft'
    BY <2>3, PushAssumption DEF AttemptsLeft
  <2>7. ExecutionsHold'
    BY <2>3, <2>4 DEF ExecutionsHold, Stopped
  <2>8. AwaitedIsHome'
    BY <2>3 DEF AwaitedIsHome, Home
  <2>9. HomeIsKnown'
    BY <2>1, <2>3, <2>4 DEF HomeIsKnown, ActiveToken, Home
  <2>10. pushed[n] = {}
    BY DEF Dispatched, NotStarted
  <2>11. PushedWhereSignedIn' /\ PushArrives'
    BY <2>3, <2>10 DEF PushedWhereSignedIn, PushArrives
  <2>12. NotStarted'
    BY <2>4, <2>3 DEF NotStarted
  <2> QED
    BY <2>2, <2>6, <2>7, <2>8, <2>9, <2>11, <2>12
<1>2. ASSUME NEW n \in Notes, Fetch(n)
      PROVE  Inv'
  <2> DEFINE k == river[n].attempt + 1
  <2>1. k \in Attempts
    BY <1>2, PushAssumption DEF Fetch, AttemptsLeft, TypeOK, Attempts
  <2>2. /\ river' = [river EXCEPT ![n] = [phase |-> "running", attempt |-> k]]
        /\ exec' = [exec EXCEPT ![n][k] = [stage |-> "load", token |-> NoToken]]
        /\ UNCHANGED <<session, dead, pushed, awaited, homes>>
        /\ n \in Dispatched
    BY <1>2 DEF Fetch, Dispatched
  <2>3. /\ river' \in [Notes -> [phase : {"none", "available", "running", "completed",
                                          "discarded"}, attempt : 0..MaxAttempts]]
        /\ river'[n].phase = "running"
        /\ \A m \in Notes \ {n} : river'[m] = river[m]
    BY <2>1, <2>2, PushAssumption DEF TypeOK, Attempts
  <2>4. AttemptsLeft' /\ Dispatched' = Dispatched
    BY <2>2, <2>3 DEF AttemptsLeft, Dispatched
  <2>5. \A m \in Notes : river'[m].phase = "completed" => river[m].phase = "completed"
    BY <2>3
  <2>6. NoToken \in MaybeToken
    BY DEF MaybeToken
  <2> HIDE DEF k
  <2> QED
    BY <2>1, <2>2, <2>3, <2>4, <2>5, <2>6, GoesOnInv
<1>3. ASSUME NEW n \in Notes, Rescue(n)
      PROVE  Inv'
  <2> USE <1>3 DEF Rescue
  <2> DEFINE next == AfterFailure(river[n].attempt)
  <2>1. next \in {"available", "discarded"}
    BY DEF AfterFailure
  <2>2. next = "available" => river[n].attempt < MaxAttempts
    BY DEF AfterFailure
  <2>3. /\ river' \in [Notes -> [phase : {"none", "available", "running", "completed",
                                          "discarded"}, attempt : 0..MaxAttempts]]
        /\ river'[n].phase = next /\ river'[n].attempt = river[n].attempt
        /\ \A m \in Notes \ {n} : river'[m] = river[m]
    BY <2>1 DEF TypeOK
  <2> HIDE DEF next
  <2>4. TypeOK' /\ AttemptsLeft'
    BY <2>2, <2>3 DEF TypeOK, AttemptsLeft
  <2>5. Dispatched' = Dispatched /\ ActiveToken' = ActiveToken
    BY <2>1, <2>3 DEF Dispatched, ActiveToken
  <2>6. ExecutionsHold' /\ AwaitedIsHome' /\ HomeIsKnown' /\ NotStarted'
    BY <2>3, <2>5 DEF ExecutionsHold, AwaitedIsHome, HomeIsKnown, NotStarted
  <2>7. PushedWhereSignedIn' /\ PushArrives'
    BY <2>1, <2>3 DEF PushedWhereSignedIn, PushArrives
  <2> QED
    BY <2>4, <2>6, <2>7
<1>4. ASSUME NEW n \in Notes, NEW k \in Attempts, Crash(n, k)
      PROVE  Inv'
  <2> USE <1>4 DEF Crash
  <2>1. Stopped \in [stage : {"none", "load", "send", "clear"}, token : MaybeToken]
    BY DEF Stopped, MaybeToken
  <2>2. /\ exec' \in [Notes -> [Attempts -> [stage : {"none", "load", "send", "clear"},
                                             token : MaybeToken]]]
        /\ \A m \in Notes, j \in Attempts :
             exec'[m][j] = exec[m][j] \/ exec'[m][j] = Stopped
    BY <2>1 DEF TypeOK
  <2>3. TypeOK' /\ AttemptsLeft'
    BY <2>2 DEF TypeOK, AttemptsLeft
  <2>4. Dispatched' = Dispatched /\ ActiveToken' = ActiveToken
    BY DEF Dispatched, ActiveToken
  <2>5. ExecutionsHold'
    BY <2>2, <2>4 DEF ExecutionsHold, Stopped
  <2>6. AwaitedIsHome' /\ HomeIsKnown' /\ NotStarted' /\ PushedWhereSignedIn' /\ PushArrives'
    BY <2>4 DEF AwaitedIsHome, HomeIsKnown, NotStarted, PushedWhereSignedIn, PushArrives
  <2> QED
    BY <2>3, <2>5, <2>6
<1> QED
  BY <1>1, <1>2, <1>3, <1>4, LoadInv, SendInv, ClearInv DEF JobStep, Work

-----------------------------------------------------------------------------
LEMMA InvInductive == Spec => []Inv
<1>1. Inv /\ [Next]_vars => Inv'
  <2> SUFFICES ASSUME Inv, [Next]_vars PROVE Inv'
    OBVIOUS
  <2>1. CASE UNCHANGED vars
    BY <2>1 DEF vars, Inv, TypeOK, AttemptsLeft, ExecutionsHold, AwaitedIsHome,
                HomeIsKnown, ActiveToken, Dispatched, NotStarted,
                PushedWhereSignedIn, PushArrives
  <2> QED
    BY <2>1, UserInv, JobInv DEF Next
<1> QED
  BY <1>1, InitInv, PTL DEF Spec

\* Every variable of the push delivery has its type (session, jobs and
\* executions of NotificationWorker.Work).
THEOREM PushTypes == Spec => []TypeOK
BY InvInductive, PTL DEF Inv

\* A push goes only to devices where the user was signed in at some time since
\* the notification was made; when the token was read is not the claim (GetActiveFCMTokenByUserID, read by every attempt).
THEOREM PushGoesHome == Spec => []PushedWhereSignedIn
BY InvInductive, PTL DEF Inv

\* A completed job has reached the device on which the user stayed signed in
\* (Work, SendToDevice, ClearFCMToken).
THEOREM PushIsNotLost == Spec => []PushArrives
BY InvInductive, PTL DEF Inv

-----------------------------------------------------------------------------
(* Reminders: what the locks of the open transactions keep true. *)

\* A row is locked by one transaction at a time.
RowLocksExclude == \A t, u \in Transactions :
  t # u => txs[t].rows \cap txs[u].rows = {}

\* A request has checked what it is about to write, and holds the rows of it.
RequestHolds(x) ==
  /\ x.phase \in {"idle", "begun", "key", "group", "rows"}
  /\ x.phase \in {"idle", "begun", "key"} => x.rows = {}
  /\ x.phase = "key" => x.op = "remind"
  /\ x.phase # "idle" =>
       x.debt \in Debts /\ IF x.op = "remind" THEN x.key \in Keys ELSE x.key = 0
  /\ x.rows \subseteq RowsOf(x.op, x.debt)
  /\ x.rows # {} => <<"debt", x.debt>> \in x.rows /\ MayProceed(x.op, x.debt)
  /\ x.phase = "rows" <=> x.rows = RowsOf(x.op, x.debt)

\* What a scan has claimed is still due while it holds it.
ScanHolds(x) ==
  /\ x.phase \in {"idle", "reminders", "reminded", "stalled"}
  /\ x.phase \in {"idle", "reminded"} => x.rows = {}
  /\ x.phase = "reminders" => \A r \in x.rows :
       \E d \in Debts : r = <<"debt", d>> /\ ReminderDue(d)
  /\ x.phase = "stalled" => \A r \in x.rows :
       \E d \in Debts : r = <<"payment", d>> /\ PaymentStalled(d)

\* The key of a request past its INSERT is its own, and was not used before.
KeysAreNew == \A t \in Requests :
  txs[t].phase \in {"group", "rows"} /\ txs[t].op = "remind" =>
    /\ keys[txs[t].key] = 0
    /\ \A u \in Requests \ {t} :
         txs[u].phase \in {"group", "rows"} => txs[u].key # txs[t].key

RemindedBy(d) == {k \in Keys : keys[k] = d}

Counted == \A d \in Debts :
  /\ count[d] = byScan[d] + Cardinality(RemindedBy(d))
  /\ alerts[d] = IF d \in alerted THEN 1 ELSE 0

RemindersInv ==
  /\ RemindersTypeOK
  /\ RowLocksExclude
  /\ \A t \in Requests : RequestHolds(txs[t])
  /\ \A t \in Scans : ScanHolds(txs[t])
  /\ KeysAreNew
  /\ Counted

-----------------------------------------------------------------------------
(* The locks. *)

\* A set of numbers has a least element, so the scan always has a next item.
LEMMA NextItemIsTodo ==
  ASSUME RemindersTypeOK, NEW t \in Transactions, txs[t].todo # {}
  PROVE  NextItem(t) \in txs[t].todo
<1>1. txs[t].todo \subseteq Nat
  BY RemindersAssumption DEF RemindersTypeOK, Tx
<1> DEFINE Less == OpToRel(<, Nat)
<1>2. IsWellFoundedOn(Less, Nat)
  BY NatLessThanWellFounded
<1>3. PICK d \in txs[t].todo : \A e \in txs[t].todo : ~ (<<e, d>> \in Less)
  <2> HIDE DEF Less
  <2> QED BY <1>1, <1>2, WFMin
<1>4. ASSUME NEW e \in txs[t].todo PROVE d <= e
  <2>1. d \in Nat /\ e \in Nat /\ ~ (<<e, d>> \in Less)
    BY <1>1, <1>3
  <2> QED
    BY <2>1 DEF OpToRel
<1> QED
  BY <1>4 DEF NextItem

\* A request that locks its next row is the only one to hold it.
LEMMA NextRowIsFree ==
  ASSUME RemindersTypeOK, NEW t \in Transactions, txs[t].phase = "group",
         Blockers(t) = {}, NEW u \in Transactions \ {t}
  PROVE  NextRow(t) \notin txs[u].rows
BY DEF Blockers, RowHolders

\* What a transaction knows of the rows it holds stays true while they do
\* not change otherwise than by time.
LEMMA HeldIsKept ==
  ASSUME NEW x \in Tx,
         \A d \in Debts : <<"debt", d>> \in x.rows =>
           status'[d] = status[d] /\ count'[d] = count[d] /\ (d \in recent' => d \in recent),
         \A d \in Debts : <<"payment", d>> \in x.rows =>
           /\ payment[d] = "old" => payment'[d] = "old"
           /\ d \in alerted' => d \in alerted
  PROVE  /\ RequestHolds(x) => RequestHolds(x)'
         /\ ScanHolds(x) => ScanHolds(x)'
<1>1. ASSUME RequestHolds(x) PROVE RequestHolds(x)'
  <2>1. x.rows # {} => MayProceed(x.op, x.debt)'
    <3> SUFFICES ASSUME x.rows # {} PROVE MayProceed(x.op, x.debt)'
      OBVIOUS
    <3>1. <<"debt", x.debt>> \in x.rows /\ x.debt \in Debts /\ MayProceed(x.op, x.debt)
      BY <1>1 DEF RequestHolds
    <3> QED
      BY <3>1 DEF MayProceed
  <2> QED
    BY <1>1, <2>1 DEF RequestHolds, RowsOf
<1>2. ASSUME ScanHolds(x) PROVE ScanHolds(x)'
  BY <1>2 DEF ScanHolds, ReminderDue, PaymentStalled
<1> QED
  BY <1>1, <1>2

-----------------------------------------------------------------------------
(* The steps. *)

\* A step that changes one transaction and no table.
LEMMA TransactionStep ==
  ASSUME RemindersInv, NEW t \in Transactions, NEW x \in Tx,
         txs' = [txs EXCEPT ![t] = x], UNCHANGED tables,
         t \in Requests => RequestHolds(x), t \in Scans => ScanHolds(x),
         \A u \in Transactions \ {t} : x.rows \cap txs[u].rows = {},
         t \in Requests /\ x.phase \in {"group", "rows"} /\ x.op = "remind" =>
           /\ keys[x.key] = 0
           /\ \A u \in Requests \ {t} :
                txs[u].phase \in {"group", "rows"} => txs[u].key # x.key
  PROVE  RemindersInv'
<1> USE DEF RemindersInv
<1>1. txs' \in [Transactions -> Tx] /\ \A u \in Transactions : txs'[u] = IF u = t THEN x ELSE txs[u]
  BY DEF RemindersTypeOK
<1>2. RemindersTypeOK'
  BY <1>1 DEF RemindersTypeOK, tables
<1>3. RowLocksExclude'
  BY <1>1 DEF RowLocksExclude
<1>4. \A u \in Requests : RequestHolds(txs[u])'
  <2> SUFFICES ASSUME NEW u \in Requests PROVE RequestHolds(txs[u])'
    OBVIOUS
  <2>1. RequestHolds(txs'[u])
    BY <1>1 DEF Transactions
  <2> QED
    BY <2>1 DEF tables, RequestHolds, MayProceed, RowsOf
<1>5. \A u \in Scans : ScanHolds(txs[u])'
  <2> SUFFICES ASSUME NEW u \in Scans PROVE ScanHolds(txs[u])'
    OBVIOUS
  <2>1. ScanHolds(txs'[u])
    BY <1>1 DEF Transactions
  <2> QED
    BY <2>1 DEF tables, ScanHolds, ReminderDue, PaymentStalled
<1>6. KeysAreNew'
  <2> SUFFICES ASSUME NEW u \in Requests, txs'[u].phase \in {"group", "rows"},
                      txs'[u].op = "remind"
               PROVE  /\ keys'[txs'[u].key] = 0
                      /\ \A v \in Requests \ {u} : txs'[v].phase \in {"group", "rows"} =>
                           txs'[v].key # txs'[u].key
    BY DEF KeysAreNew
  <2>1. keys'[txs'[u].key] = 0
    BY <1>1 DEF KeysAreNew, tables, Transactions
  <2>2. ASSUME NEW v \in Requests \ {u}, txs'[v].phase \in {"group", "rows"}
        PROVE  txs'[v].key # txs'[u].key
    <3>1. RequestHolds(txs'[v])
      BY <1>1 DEF Transactions
    <3>2. RequestHolds(txs'[u])
      BY <1>1 DEF Transactions
    <3>3. CASE txs'[v].op = "remind"
      BY <1>1, <2>2, <3>3 DEF KeysAreNew, Transactions
    <3>4. CASE txs'[v].op # "remind"
      BY <3>1, <3>2, <3>4, <2>2, RemindersAssumption DEF RequestHolds
    <3> QED
      BY <3>3, <3>4
  <2> QED
    BY <2>1, <2>2
<1>7. Counted'
  BY DEF Counted, tables, RemindedBy
<1> QED
  BY <1>2, <1>3, <1>4, <1>5, <1>6, <1>7

LEMMA RowsAreSome ==
  ASSUME NEW op, NEW d
  PROVE  <<"debt", d>> \in RowsOf(op, d) /\ RowsOf(op, d) # {}
BY DEF RowsOf

\* A request or a scan that ends holds nothing.
LEMMA IdleHolds ==
  /\ Idle \in Tx /\ Idle.rows = {} /\ Idle.phase = "idle"
  /\ RequestHolds(Idle) /\ ScanHolds(Idle)
BY RowsAreSome DEF Idle, Tx, Ops, RequestHolds, ScanHolds

LEMMA RollbackStep ==
  ASSUME RemindersInv, NEW t \in Transactions, Rollback(t), UNCHANGED tables
  PROVE  RemindersInv'
BY IdleHolds, TransactionStep DEF Rollback

LEMMA BeginStep ==
  ASSUME RemindersInv, NEW t \in Requests, NEW op \in Ops, NEW d \in Debts, NEW k \in Keys,
         Begin(t, op, d, k)
  PROVE  RemindersInv'
<1> DEFINE x == [Idle EXCEPT !.phase = "begun", !.op = op, !.debt = d,
                             !.key = IF op = "remind" THEN k ELSE 0]
<1>1. x \in Tx /\ x.phase = "begun" /\ x.rows = {} /\ x.op = op /\ x.debt = d
      /\ x.key = IF op = "remind" THEN k ELSE 0
  BY DEF Idle, Tx
<1>2. RequestHolds(x)
  BY <1>1, RowsAreSome DEF RequestHolds
<1>3. txs' = [txs EXCEPT ![t] = x] /\ UNCHANGED tables
  BY DEF Begin
<1>4. t \notin Scans /\ t \in Transactions
  BY RemindersAssumption DEF Transactions
<1> HIDE DEF x
<1> QED
  BY <1>1, <1>2, <1>3, <1>4, TransactionStep

LEMMA LockActiveGroupStep ==
  ASSUME RemindersInv, NEW t \in Requests, LockActiveGroup(t)
  PROVE  RemindersInv'
<1> DEFINE x == [txs[t] EXCEPT !.phase = IF txs[t].op = "remind" THEN "key" ELSE "group",
                               !.group = {GroupOf[txs[t].debt]}]
<1>1. t \notin Scans /\ t \in Transactions /\ txs[t] \in Tx /\ RequestHolds(txs[t])
      /\ txs[t].phase = "begun"
  BY RemindersAssumption DEF Transactions, RemindersInv, RemindersTypeOK, LockActiveGroup
<1>2. GroupOf[txs[t].debt] \in Groups
  BY <1>1, RemindersAssumption DEF RequestHolds
<1>3. x \in Tx /\ x.rows = {} /\ x.op = txs[t].op /\ x.debt = txs[t].debt /\ x.key = txs[t].key
      /\ x.phase = IF txs[t].op = "remind" THEN "key" ELSE "group"
  BY <1>1, <1>2 DEF Tx, RequestHolds
<1>4. RequestHolds(x)
  BY <1>1, <1>3 DEF RequestHolds
<1>5. txs' = [txs EXCEPT ![t] = x] /\ UNCHANGED tables
  BY DEF LockActiveGroup, RemindersInv, RemindersTypeOK
<1> HIDE DEF x
<1> QED
  BY <1>1, <1>3, <1>4, <1>5, TransactionStep

LEMMA InsertKeyStep ==
  ASSUME RemindersInv, NEW t \in Requests, InsertKey(t)
  PROVE  RemindersInv'
<1>1. t \notin Scans /\ t \in Transactions /\ txs[t] \in Tx /\ RequestHolds(txs[t])
      /\ txs[t].phase = "key"
  BY RemindersAssumption DEF Transactions, RemindersInv, RemindersTypeOK, InsertKey
<1>2. CASE keys[txs[t].key] # 0
  BY <1>1, <1>2, RollbackStep DEF InsertKey
<1>3. CASE keys[txs[t].key] = 0
  <2> DEFINE x == [txs[t] EXCEPT !.phase = "group"]
  <2>1. x \in Tx /\ x.rows = {} /\ x.op = txs[t].op /\ x.debt = txs[t].debt /\ x.key = txs[t].key
        /\ x.phase = "group"
    BY <1>1 DEF Tx, RequestHolds
  <2>2. RequestHolds(x)
    BY <1>1, <2>1 DEF RequestHolds
  <2>3. txs' = [txs EXCEPT ![t] = x] /\ UNCHANGED tables
    BY <1>3 DEF InsertKey, RemindersInv, RemindersTypeOK
  <2>4. \A u \in Requests \ {t} : txs[u].phase \in {"group", "rows"} => txs[u].key # x.key
    BY <1>1, <2>1 DEF InsertKey, Blockers, KeyHolders, Transactions
  <2> HIDE DEF x
  <2> QED
    BY <1>1, <1>3, <2>1, <2>2, <2>3, <2>4, TransactionStep
<1> QED
  BY <1>2, <1>3

LEMMA LockRowStep ==
  ASSUME RemindersInv, NEW t \in Requests, LockRow(t)
  PROVE  RemindersInv'
<1>1. t \notin Scans /\ t \in Transactions /\ txs[t] \in Tx /\ RequestHolds(txs[t])
      /\ txs[t].phase = "group"
  BY RemindersAssumption DEF Transactions, RemindersInv, RemindersTypeOK, LockRow
<1>2. CASE ~MayProceed(txs[t].op, txs[t].debt)
  BY <1>1, <1>2, RollbackStep DEF LockRow
<1>3. CASE MayProceed(txs[t].op, txs[t].debt)
  <2> DEFINE held == txs[t].rows \cup {NextRow(t)}
             x == [txs[t] EXCEPT !.rows = held,
                     !.phase = IF held = RowsOf(txs[t].op, txs[t].debt) THEN "rows" ELSE "group"]
  <2>0. txs[t].debt \in Debts /\ txs[t].rows \in SUBSET Rows
    BY <1>1 DEF RequestHolds, Tx
  <2>1. held \subseteq Rows /\ <<"debt", txs[t].debt>> \in held
    BY <2>0 DEF NextRow, Rows
  <2>2. /\ x \in Tx /\ x.rows = held /\ x.op = txs[t].op /\ x.debt = txs[t].debt
        /\ x.key = txs[t].key /\ x.phase \in {"group", "rows"}
        /\ x.phase = "rows" <=> held = RowsOf(txs[t].op, txs[t].debt)
    <3> HIDE DEF held
    <3> QED BY <1>1, <2>1 DEF Tx
  <2>3. held \subseteq RowsOf(x.op, x.debt)
    <3>1. txs[t].rows \subseteq RowsOf(txs[t].op, txs[t].debt)
      BY <1>1 DEF RequestHolds
    <3>2. txs[t].op = "remind" /\ <<"debt", txs[t].debt>> \in txs[t].rows
          => txs[t].rows = RowsOf(txs[t].op, txs[t].debt)
      BY <3>1 DEF RowsOf
    <3>3. txs[t].op = "remind" => txs[t].rows = {}
      BY <1>1, <3>2 DEF RequestHolds
    <3> QED
      BY <2>2, <3>1, <3>3 DEF NextRow, RowsOf
  <2> HIDE DEF x
  <2>4. RequestHolds(x)
    BY <1>1, <1>3, <2>1, <2>2, <2>3 DEF RequestHolds
  <2>5. txs' = [txs EXCEPT ![t] = x] /\ UNCHANGED tables
    BY <1>3 DEF LockRow, RemindersInv, RemindersTypeOK, x
  <2>6. \A u \in Transactions \ {t} : x.rows \cap txs[u].rows = {}
    BY <1>1, <2>2, NextRowIsFree DEF RemindersInv, RowLocksExclude, LockRow
  <2>7. x.op = "remind" =>
           /\ keys[x.key] = 0
           /\ \A u \in Requests \ {t} :
                txs[u].phase \in {"group", "rows"} => txs[u].key # x.key
    BY <1>1, <2>2 DEF RemindersInv, KeysAreNew
  <2> HIDE DEF held
  <2> QED
    BY <1>1, <2>2, <2>4, <2>5, <2>6, <2>7, TransactionStep DEF Transactions
<1> QED
  BY <1>2, <1>3

LEMMA ClaimStep ==
  ASSUME RemindersInv, NEW t \in Scans, ClaimReminders(t) \/ ClaimStalled(t)
  PROVE  RemindersInv'
<1>1. PICK kind \in {"debt", "payment"} :
        txs' = [txs EXCEPT ![t] = Claim(t, kind)] /\ UNCHANGED tables
  BY DEF ClaimReminders, ClaimStalled
<1> DEFINE x == Claim(t, kind)
<1>2. t \notin Requests /\ t \in Transactions
  BY RemindersAssumption DEF Transactions
<1>3. /\ x \in Tx
      /\ x.phase = IF kind = "debt" THEN "reminders" ELSE "stalled"
      /\ \A r \in x.rows : \E d \in Debts :
           /\ r = <<kind, d>> /\ Unlocked(kind, d)
           /\ IF kind = "debt" THEN ReminderDue(d) ELSE PaymentStalled(d)
  <2> DEFINE due == {d \in DueRows(kind) : Unlocked(kind, d)}
             rows == {<<kind, d>> : d \in due}
             phase == IF kind = "debt" THEN "reminders" ELSE "stalled"
  <2>1. x = [Idle EXCEPT !.phase = phase, !.todo = due, !.rows = rows]
    BY DEF Claim
  <2>2. rows \in SUBSET Rows /\ due \in SUBSET Debts
    BY DEF Rows, DueRows
  <2>3. x \in Tx /\ x.rows = rows /\ x.phase = phase
    <3> HIDE DEF due, rows, x
    <3> QED BY <2>1, <2>2 DEF Tx, Ops, Idle
  <2>4. \A r \in rows : \E d \in Debts :
          /\ r = <<kind, d>> /\ Unlocked(kind, d)
          /\ IF kind = "debt" THEN ReminderDue(d) ELSE PaymentStalled(d)
    BY DEF DueRows
  <2> HIDE DEF x, rows
  <2> QED
    BY <2>3, <2>4
<1> HIDE DEF x
<1>4. ScanHolds(x)
  BY <1>3 DEF ScanHolds
<1>5. \A u \in Transactions \ {t} : x.rows \cap txs[u].rows = {}
  BY <1>3 DEF Unlocked, RowHolders
<1> QED
  BY <1>1, <1>2, <1>3, <1>4, <1>5, TransactionStep DEF x

LEMMA InsertActivityStep ==
  ASSUME RemindersInv, NEW t \in Scans, InsertActivity(t)
  PROVE  RemindersInv'
<1> DEFINE d == NextItem(t)
           x == [txs[t] EXCEPT !.shared = @ \cup {GroupOf[d]}, !.todo = @ \ {d}]
<1>1. t \notin Requests /\ t \in Transactions /\ txs[t] \in Tx /\ ScanHolds(txs[t])
  BY RemindersAssumption DEF Transactions, RemindersInv, RemindersTypeOK
<1>2. d \in Debts
  BY <1>1, NextItemIsTodo DEF RemindersInv, InsertActivity, Tx
<1>3. GroupOf[d] \in Groups
  BY <1>2, RemindersAssumption
<1>4. txs' = [txs EXCEPT ![t] = x] /\ UNCHANGED tables
  BY DEF InsertActivity, RemindersInv, RemindersTypeOK
<1> HIDE DEF d
<1>5. x \in Tx /\ x.phase = txs[t].phase /\ x.rows = txs[t].rows
  BY <1>1, <1>3 DEF Tx
<1> HIDE DEF x
<1>6. ScanHolds(x)
  BY <1>1, <1>5 DEF ScanHolds
<1>7. \A u \in Transactions \ {t} : x.rows \cap txs[u].rows = {}
  BY <1>1, <1>5 DEF RemindersInv, RowLocksExclude
<1> QED
  BY <1>1, <1>4, <1>5, <1>6, <1>7, TransactionStep

\* A transaction that commits: the rows it writes are its own, so that what
\* the others know stays true.
LEMMA CommitKeepsOthers ==
  ASSUME RemindersInv, NEW t \in Transactions, NEW x \in Tx,
         txs' = [txs EXCEPT ![t] = x], x.rows = {},
         t \in Requests => RequestHolds(x)', t \in Scans => ScanHolds(x)',
         \A d \in Debts : <<"debt", d>> \notin txs[t].rows =>
           status'[d] = status[d] /\ count'[d] = count[d] /\ (d \in recent' => d \in recent),
         \A d \in Debts : <<"payment", d>> \notin txs[t].rows =>
           /\ payment[d] = "old" => payment'[d] = "old"
           /\ d \in alerted' => d \in alerted
  PROVE  /\ txs' \in [Transactions -> Tx]
         /\ RowLocksExclude'
         /\ \A u \in Requests : RequestHolds(txs[u])'
         /\ \A u \in Scans : ScanHolds(txs[u])'
<1>1. txs' \in [Transactions -> Tx] /\ \A u \in Transactions : txs'[u] = IF u = t THEN x ELSE txs[u]
  BY DEF RemindersInv, RemindersTypeOK
<1>2. RowLocksExclude'
  BY <1>1 DEF RemindersInv, RowLocksExclude
<1>3. ASSUME NEW u \in Transactions \ {t}
      PROVE  (RequestHolds(txs[u]) => RequestHolds(txs[u])')
             /\ (ScanHolds(txs[u]) => ScanHolds(txs[u])')
  <2>1. txs[u] \in Tx /\ txs[u].rows \cap txs[t].rows = {}
    BY DEF RemindersInv, RemindersTypeOK, RowLocksExclude
  <2>2. \A d \in Debts : <<"debt", d>> \in txs[u].rows =>
           status'[d] = status[d] /\ count'[d] = count[d] /\ (d \in recent' => d \in recent)
    BY <2>1
  <2>3. \A d \in Debts : <<"payment", d>> \in txs[u].rows =>
           /\ payment[d] = "old" => payment'[d] = "old"
           /\ d \in alerted' => d \in alerted
    BY <2>1
  <2>4. txs'[u] = txs[u]
    BY <1>1
  <2>5. PICK z : z = txs[u]
    OBVIOUS
  <2>6. (RequestHolds(z) => RequestHolds(z)') /\ (ScanHolds(z) => ScanHolds(z)')
    BY <2>1, <2>2, <2>3, <2>5, HeldIsKept
  <2> QED
    BY <2>4, <2>5, <2>6 DEF RequestHolds, ScanHolds, MayProceed, RowsOf, ReminderDue, PaymentStalled
<1>4. \A u \in Requests : RequestHolds(txs[u])'
  <2> SUFFICES ASSUME NEW u \in Requests PROVE RequestHolds(txs[u])'
    OBVIOUS
  <2>1. CASE u = t
    BY <2>1, <1>1 DEF RequestHolds, MayProceed, RowsOf
  <2>2. CASE u # t
    BY <2>2, <1>3 DEF RemindersInv, Transactions
  <2> QED
    BY <2>1, <2>2
<1>5. \A u \in Scans : ScanHolds(txs[u])'
  <2> SUFFICES ASSUME NEW u \in Scans PROVE ScanHolds(txs[u])'
    OBVIOUS
  <2>1. CASE u = t
    BY <2>1, <1>1 DEF ScanHolds, ReminderDue, PaymentStalled
  <2>2. CASE u # t
    BY <2>2, <1>3 DEF RemindersInv, Transactions
  <2> QED
    BY <2>1, <2>2
<1> QED
  BY <1>1, <1>2, <1>4, <1>5

\* The keys of the other requests stay new when one commits or gives up.
LEMMA KeysStayNew ==
  ASSUME RemindersInv, NEW t \in Transactions, NEW x \in Tx,
         txs' = [txs EXCEPT ![t] = x], x.phase \notin {"group", "rows"},
         \/ keys' = keys
         \/ /\ t \in Requests /\ txs[t].phase = "rows"
            /\ keys' = [keys EXCEPT ![txs[t].key] = txs[t].debt]
  PROVE  KeysAreNew'
<1>1. \A u \in Transactions : txs'[u] = IF u = t THEN x ELSE txs[u]
  BY DEF RemindersInv, RemindersTypeOK
<1> SUFFICES ASSUME NEW u \in Requests, txs'[u].phase \in {"group", "rows"},
                    txs'[u].op = "remind"
             PROVE  /\ keys'[txs'[u].key] = 0
                    /\ \A v \in Requests \ {u} : txs'[v].phase \in {"group", "rows"} =>
                         txs'[v].key # txs'[u].key
  BY DEF KeysAreNew
<1>2. u # t /\ txs'[u] = txs[u] /\ txs[u] \in Tx
  BY <1>1 DEF Transactions, RemindersInv, RemindersTypeOK
<1>3. keys[txs[u].key] = 0
  BY <1>2 DEF RemindersInv, KeysAreNew
<1>4. \A v \in Requests \ {u} : txs[v].phase \in {"group", "rows"} => txs[v].key # txs[u].key
  BY <1>2 DEF RemindersInv, KeysAreNew
<1>5. keys'[txs[u].key] = 0
  <2>1. CASE keys' = keys
    BY <1>3, <2>1
  <2>2. CASE t \in Requests /\ txs[t].phase = "rows"
             /\ keys' = [keys EXCEPT ![txs[t].key] = txs[t].debt]
    <3>1. txs[t].key # txs[u].key
      BY <1>2, <1>4, <2>2
    <3>2. txs[u].key \in Keys
      BY <1>2 DEF RemindersInv, RequestHolds
    <3> QED
      BY <3>1, <3>2, <2>2, <1>3 DEF RemindersInv, RemindersTypeOK
  <2> QED
    BY <2>1, <2>2
<1>6. \A v \in Requests \ {u} : txs'[v].phase \in {"group", "rows"} => txs'[v].key # txs[u].key
  BY <1>1, <1>4 DEF Transactions
<1> QED
  BY <1>2, <1>5, <1>6

\* A request with its rows: its debt is one it may change.
LEMMA RequestMayProceed ==
  ASSUME RemindersInv, NEW t \in Requests, txs[t].phase = "rows"
  PROVE  /\ t \notin Scans /\ t \in Transactions /\ txs[t] \in Tx
         /\ txs[t].debt \in Debts
         /\ MayProceed(txs[t].op, txs[t].debt)
         /\ txs[t].rows = RowsOf(txs[t].op, txs[t].debt)
         /\ txs[t].op = "remind" => txs[t].key \in Keys /\ keys[txs[t].key] = 0
<1>1. t \notin Scans /\ t \in Transactions /\ txs[t] \in Tx
  BY RemindersAssumption DEF Transactions, RemindersInv, RemindersTypeOK
<1>2. RequestHolds(txs[t])
  BY DEF RemindersInv
<1>3. txs[t].rows = RowsOf(txs[t].op, txs[t].debt) /\ txs[t].rows # {}
  BY <1>2, RowsAreSome DEF RequestHolds
<1>4. txs[t].debt \in Debts /\ MayProceed(txs[t].op, txs[t].debt)
  BY <1>2, <1>3 DEF RequestHolds
<1>5. txs[t].op = "remind" => txs[t].key \in Keys /\ keys[txs[t].key] = 0
  BY <1>2 DEF RequestHolds, RemindersInv, KeysAreNew
<1> QED
  BY <1>1, <1>3, <1>4, <1>5

LEMMA RemindDebtStep ==
  ASSUME RemindersInv, NEW t \in Requests, RemindDebt(t)
  PROVE  RemindersInv'
<1> DEFINE d == txs[t].debt
           k == txs[t].key
<1>1. /\ t \notin Scans /\ t \in Transactions /\ d \in Debts /\ d # 0 /\ k \in Keys /\ keys[k] = 0
      /\ txs[t].rows = {<<"debt", d>>}
      /\ status[d] = "awaiting" /\ count[d] < MaxCount /\ d \notin recent
  BY RequestMayProceed, RemindersAssumption DEF RemindDebt, RowsOf, MayProceed
<1>2. txs' = [txs EXCEPT ![t] = Idle]
  BY DEF RemindDebt, Rollback
<1>3. count \in [Debts -> 0..MaxCount] /\ count[d] + 1 \in 0..MaxCount
  <2> HIDE DEF d
  <2>1. count \in [Debts -> 0..MaxCount] /\ count[d] \in 0..MaxCount
    BY <1>1 DEF RemindersInv, RemindersTypeOK
  <2> QED
    BY <1>1, <2>1, RemindersAssumption
<1>4. /\ count' = [count EXCEPT ![d] = count[d] + 1] /\ recent' = recent \cup {d}
      /\ keys' = [keys EXCEPT ![k] = d]
      /\ UNCHANGED <<status, payment, alerted, byScan, alerts>>
  BY <1>3 DEF RemindDebt
<1>5. /\ txs' \in [Transactions -> Tx]
      /\ RowLocksExclude'
      /\ \A u \in Requests : RequestHolds(txs[u])'
      /\ \A u \in Scans : ScanHolds(txs[u])'
  <2>1. RequestHolds(Idle)'
    BY RowsAreSome DEF Idle, RequestHolds, RowsOf
  <2>2. \A e \in Debts : <<"debt", e>> \notin txs[t].rows =>
           status'[e] = status[e] /\ count'[e] = count[e] /\ (e \in recent' => e \in recent)
    BY <1>1, <1>3, <1>4
  <2>3. \A e \in Debts : <<"payment", e>> \notin txs[t].rows =>
           /\ payment[e] = "old" => payment'[e] = "old"
           /\ e \in alerted' => e \in alerted
    BY <1>4
  <2> QED
    BY <1>1, <1>2, <2>1, <2>2, <2>3, IdleHolds, CommitKeepsOthers
<1>6. RemindersTypeOK'
  BY <1>1, <1>3, <1>4, <1>5 DEF RemindersInv, RemindersTypeOK
<1>7. KeysAreNew'
  BY <1>1, <1>2, <1>4, IdleHolds, KeysStayNew DEF RemindDebt
<1>8. Counted'
  <2> SUFFICES ASSUME NEW e \in Debts
               PROVE  /\ count'[e] = byScan'[e] + Cardinality(RemindedBy(e)')
                      /\ alerts'[e] = IF e \in alerted' THEN 1 ELSE 0
    BY DEF Counted
  <2>0. keys \in [Keys -> Debts \cup {0}] /\ byScan \in [Debts -> Nat]
    BY DEF RemindersInv, RemindersTypeOK
  <2>1. alerts'[e] = IF e \in alerted' THEN 1 ELSE 0
    BY <1>4 DEF RemindersInv, Counted
  <2>2. IsFiniteSet(RemindedBy(e)) /\ Cardinality(RemindedBy(e)) \in Nat
    BY RemindersAssumption, FS_Subset, FS_CardinalityType DEF RemindedBy
  <2>3. count[e] = byScan[e] + Cardinality(RemindedBy(e))
    BY DEF RemindersInv, Counted
  <2>4. CASE e # d
    <3>1. RemindedBy(e)' = RemindedBy(e)
      BY <1>1, <1>4, <2>0, <2>4, RemindersAssumption DEF RemindedBy
    <3>2. count'[e] = count[e] /\ byScan'[e] = byScan[e]
      BY <1>3, <1>4, <2>4
    <3> QED
      BY <2>1, <2>3, <3>1, <3>2
  <2>5. CASE e = d
    <3>1. RemindedBy(e)' = RemindedBy(e) \cup {k} /\ k \notin RemindedBy(e)
      BY <1>1, <1>4, <2>0, <2>5 DEF RemindedBy
    <3>2. Cardinality(RemindedBy(e)') = Cardinality(RemindedBy(e)) + 1
      BY <2>2, <3>1, FS_AddElement
    <3>3. count'[e] = count[e] + 1 /\ byScan'[e] = byScan[e] /\ byScan[e] \in Nat
      BY <1>3, <1>4, <2>0, <2>5
    <3> QED
      BY <2>1, <2>2, <2>3, <3>2, <3>3
  <2> QED
    BY <2>4, <2>5
<1> QED
  BY <1>5, <1>6, <1>7, <1>8 DEF RemindersInv

\* The rows of a request that submits, confirms or rejects a payment.
LEMMA PaymentStep ==
  ASSUME RemindersInv, NEW t \in Requests, SubmitProof(t) \/ FinishPayment(t)
  PROVE  RemindersInv'
<1> DEFINE d == txs[t].debt
<1>1. /\ t \notin Scans /\ t \in Transactions /\ d \in Debts
      /\ txs[t].rows = {<<"debt", d>>, <<"payment", d>>}
  BY RequestMayProceed DEF SubmitProof, FinishPayment, RowsOf
<1>2. txs' = [txs EXCEPT ![t] = Idle] /\ UNCHANGED <<count, recent, keys, byScan>>
  BY DEF SubmitProof, FinishPayment, Rollback
<1>3. /\ status' \in [Debts -> {"awaiting", "pending_confirmation", "settled"}]
      /\ payment' \in [Debts -> {"none", "fresh", "old"}]
      /\ \A e \in Debts \ {d} : status'[e] = status[e] /\ payment'[e] = payment[e]
  BY <1>1 DEF SubmitProof, FinishPayment, RemindersInv, RemindersTypeOK
<1>4. /\ alerted' \subseteq alerted /\ alerts' \in [Debts -> Nat]
      /\ \A e \in Debts \ {d} : alerts'[e] = alerts[e] /\ (e \in alerted' <=> e \in alerted)
      /\ \/ alerts'[d] = 0 /\ d \notin alerted'
         \/ alerts'[d] = alerts[d] /\ (d \in alerted' <=> d \in alerted)
  BY <1>1 DEF SubmitProof, FinishPayment, RemindersInv, RemindersTypeOK
<1> HIDE DEF d
<1>5. /\ txs' \in [Transactions -> Tx]
      /\ RowLocksExclude'
      /\ \A u \in Requests : RequestHolds(txs[u])'
      /\ \A u \in Scans : ScanHolds(txs[u])'
  <2>1. RequestHolds(Idle)'
    BY RowsAreSome DEF Idle, RequestHolds, RowsOf
  <2>2. \A e \in Debts : <<"debt", e>> \notin txs[t].rows =>
           status'[e] = status[e] /\ count'[e] = count[e] /\ (e \in recent' => e \in recent)
    BY <1>1, <1>2, <1>3
  <2>3. \A e \in Debts : <<"payment", e>> \notin txs[t].rows =>
           /\ payment[e] = "old" => payment'[e] = "old"
           /\ e \in alerted' => e \in alerted
    BY <1>1, <1>3, <1>4
  <2> QED
    BY <1>1, <1>2, <2>1, <2>2, <2>3, IdleHolds, CommitKeepsOthers
<1>6. RemindersTypeOK'
  BY <1>2, <1>3, <1>4, <1>5 DEF RemindersInv, RemindersTypeOK
<1>7. KeysAreNew'
  BY <1>1, <1>2, IdleHolds, KeysStayNew
<1>8. Counted'
  <2> SUFFICES ASSUME NEW e \in Debts
               PROVE  /\ count'[e] = byScan'[e] + Cardinality(RemindedBy(e)')
                      /\ alerts'[e] = IF e \in alerted' THEN 1 ELSE 0
    BY DEF Counted
  <2>1. RemindedBy(e)' = RemindedBy(e)
    BY <1>2 DEF RemindedBy
  <2>2. alerts[e] = IF e \in alerted THEN 1 ELSE 0
    BY DEF RemindersInv, Counted
  <2>3. alerts'[e] = IF e \in alerted' THEN 1 ELSE 0
    BY <1>4, <2>2
  <2> QED
    BY <1>2, <2>1, <2>3 DEF RemindersInv, Counted
<1> QED
  BY <1>5, <1>6, <1>7, <1>8 DEF RemindersInv

LEMMA ClaimedRows ==
  ASSUME RemindersInv, NEW t \in Scans
  PROVE  /\ t \notin Requests /\ t \in Transactions
         /\ txs[t].phase = "reminders" =>
              /\ Claimed(t) \subseteq Debts
              /\ \A d \in Claimed(t) : <<"debt", d>> \in txs[t].rows /\ ReminderDue(d)
         /\ txs[t].phase = "stalled" =>
              /\ Claimed(t) \subseteq Debts
              /\ \A d \in Claimed(t) : <<"payment", d>> \in txs[t].rows /\ PaymentStalled(d)
<1>1. t \notin Requests /\ t \in Transactions
  BY RemindersAssumption DEF Transactions
<1>2. ScanHolds(txs[t])
  BY DEF RemindersInv
<1>3. ASSUME txs[t].phase = "reminders", NEW d \in Claimed(t)
      PROVE  d \in Debts /\ <<"debt", d>> \in txs[t].rows /\ ReminderDue(d)
  <2>1. PICK r \in txs[t].rows : d = r[2]
    BY DEF Claimed
  <2>2. PICK e \in Debts : r = <<"debt", e>> /\ ReminderDue(e)
    BY <1>2, <1>3, <2>1 DEF ScanHolds
  <2> QED
    BY <2>1, <2>2
<1>4. ASSUME txs[t].phase = "stalled", NEW d \in Claimed(t)
      PROVE  d \in Debts /\ <<"payment", d>> \in txs[t].rows /\ PaymentStalled(d)
  <2>1. PICK r \in txs[t].rows : d = r[2]
    BY DEF Claimed
  <2>2. PICK e \in Debts : r = <<"payment", e>> /\ PaymentStalled(e)
    BY <1>2, <1>4, <2>1 DEF ScanHolds
  <2> QED
    BY <2>1, <2>2
<1> QED
  BY <1>1, <1>3, <1>4

LEMMA CommitRemindersStep ==
  ASSUME RemindersInv, NEW t \in Scans, CommitReminders(t)
  PROVE  RemindersInv'
<1> DEFINE C == Claimed(t)
           x == [Idle EXCEPT !.phase = "reminded"]
<1>1. /\ t \notin Requests /\ t \in Transactions /\ C \subseteq Debts
      /\ \A d \in C : <<"debt", d>> \in txs[t].rows
      /\ \A d \in C : status[d] = "awaiting" /\ count[d] < MaxCount /\ d \notin recent
  BY ClaimedRows DEF CommitReminders, ReminderDue
<1>2. /\ txs' = [txs EXCEPT ![t] = x] /\ recent' = recent \cup C
      /\ count' = [d \in Debts |-> IF d \in C THEN count[d] + 1 ELSE count[d]]
      /\ byScan' = [d \in Debts |-> IF d \in C THEN byScan[d] + 1 ELSE byScan[d]]
      /\ UNCHANGED <<status, payment, alerted, keys, alerts>>
  BY DEF CommitReminders
<1>3. x \in Tx /\ x.rows = {} /\ x.phase = "reminded"
  BY DEF Idle, Tx, Ops
<1> HIDE DEF x, C
<1>4. \A d \in Debts : /\ count[d] \in 0..MaxCount /\ byScan[d] \in Nat
                       /\ count'[d] = IF d \in C THEN count[d] + 1 ELSE count[d]
                       /\ byScan'[d] = IF d \in C THEN byScan[d] + 1 ELSE byScan[d]
  BY <1>2 DEF RemindersInv, RemindersTypeOK
<1>5. /\ txs' \in [Transactions -> Tx]
      /\ RowLocksExclude'
      /\ \A u \in Requests : RequestHolds(txs[u])'
      /\ \A u \in Scans : ScanHolds(txs[u])'
  <2>1. ScanHolds(x)'
    BY <1>3 DEF ScanHolds
  <2>2. \A e \in Debts : <<"debt", e>> \notin txs[t].rows =>
           status'[e] = status[e] /\ count'[e] = count[e] /\ (e \in recent' => e \in recent)
    BY <1>1, <1>2, <1>4
  <2>3. \A e \in Debts : <<"payment", e>> \notin txs[t].rows =>
           /\ payment[e] = "old" => payment'[e] = "old"
           /\ e \in alerted' => e \in alerted
    BY <1>2
  <2> QED
    BY <1>1, <1>2, <1>3, <2>1, <2>2, <2>3, CommitKeepsOthers
<1>6. RemindersTypeOK'
  <2>1. count' \in [Debts -> 0..MaxCount]
    BY <1>1, <1>2, <1>4, RemindersAssumption
  <2>2. byScan' \in [Debts -> Nat]
    BY <1>2, <1>4
  <2> QED
    BY <1>1, <1>2, <1>5, <2>1, <2>2 DEF RemindersInv, RemindersTypeOK
<1>7. KeysAreNew'
  BY <1>1, <1>2, <1>3, KeysStayNew
<1>8. Counted'
  <2> SUFFICES ASSUME NEW e \in Debts
               PROVE  /\ count'[e] = byScan'[e] + Cardinality(RemindedBy(e)')
                      /\ alerts'[e] = IF e \in alerted' THEN 1 ELSE 0
    BY DEF Counted
  <2>1. RemindedBy(e)' = RemindedBy(e)
    BY <1>2 DEF RemindedBy
  <2>2. alerts'[e] = IF e \in alerted' THEN 1 ELSE 0
    BY <1>2 DEF RemindersInv, Counted
  <2>3. IsFiniteSet(RemindedBy(e)) /\ Cardinality(RemindedBy(e)) \in Nat
    BY RemindersAssumption, FS_Subset, FS_CardinalityType DEF RemindedBy
  <2>4. count[e] = byScan[e] + Cardinality(RemindedBy(e))
    BY DEF RemindersInv, Counted
  <2> QED
    BY <1>4, <2>1, <2>2, <2>3, <2>4
<1> QED
  BY <1>5, <1>6, <1>7, <1>8 DEF RemindersInv

LEMMA CommitStalledStep ==
  ASSUME RemindersInv, NEW t \in Scans, CommitStalled(t)
  PROVE  RemindersInv'
<1> DEFINE C == Claimed(t)
<1>1. /\ t \notin Requests /\ t \in Transactions /\ C \subseteq Debts
      /\ \A d \in C : <<"payment", d>> \in txs[t].rows /\ d \notin alerted
  BY ClaimedRows DEF CommitStalled, PaymentStalled
<1>2. /\ txs' = [txs EXCEPT ![t] = Idle] /\ alerted' = alerted \cup C
      /\ alerts' = [d \in Debts |-> IF d \in C THEN alerts[d] + 1 ELSE alerts[d]]
      /\ UNCHANGED <<status, count, recent, payment, keys, byScan>>
  BY DEF CommitStalled, Rollback
<1> HIDE DEF C
<1>3. \A d \in Debts : /\ alerts[d] \in Nat /\ alerts[d] = IF d \in alerted THEN 1 ELSE 0
                       /\ alerts'[d] = IF d \in C THEN alerts[d] + 1 ELSE alerts[d]
  BY <1>2 DEF RemindersInv, RemindersTypeOK, Counted
<1>4. /\ txs' \in [Transactions -> Tx]
      /\ RowLocksExclude'
      /\ \A u \in Requests : RequestHolds(txs[u])'
      /\ \A u \in Scans : ScanHolds(txs[u])'
  <2>1. ScanHolds(Idle)'
    BY DEF Idle, ScanHolds
  <2>2. \A e \in Debts : <<"debt", e>> \notin txs[t].rows =>
           status'[e] = status[e] /\ count'[e] = count[e] /\ (e \in recent' => e \in recent)
    BY <1>2
  <2>3. \A e \in Debts : <<"payment", e>> \notin txs[t].rows =>
           /\ payment[e] = "old" => payment'[e] = "old"
           /\ e \in alerted' => e \in alerted
    BY <1>1, <1>2
  <2> QED
    BY <1>1, <1>2, <2>1, <2>2, <2>3, IdleHolds, CommitKeepsOthers
<1>5. RemindersTypeOK'
  BY <1>1, <1>2, <1>3, <1>4 DEF RemindersInv, RemindersTypeOK
<1>6. KeysAreNew'
  BY <1>1, <1>2, IdleHolds, KeysStayNew
<1>7. Counted'
  <2>1. \A e \in Debts : RemindedBy(e)' = RemindedBy(e)
    BY <1>2 DEF RemindedBy
  <2>2. ASSUME NEW e \in Debts PROVE alerts'[e] = IF e \in alerted' THEN 1 ELSE 0
    <3>1. e \in alerted' <=> e \in alerted \/ e \in C
      BY <1>2
    <3>2. e \in C => e \notin alerted
      BY <1>1
    <3> QED
      BY <1>3, <3>1, <3>2
  <2> QED
    BY <1>2, <2>1, <2>2 DEF RemindersInv, Counted
<1> QED
  BY <1>4, <1>5, <1>6, <1>7 DEF RemindersInv

LEMMA TimeStep ==
  ASSUME RemindersInv, NEW d \in Debts, DayPasses(d) \/ PaymentAges(d)
  PROVE  RemindersInv'
<1>1. /\ UNCHANGED <<status, count, alerted, keys, txs, byScan, alerts>>
      /\ recent' \subseteq recent
      /\ payment' \in [Debts -> {"none", "fresh", "old"}]
      /\ \A e \in Debts : payment[e] = "old" => payment'[e] = "old"
  BY DEF DayPasses, PaymentAges, RemindersInv, RemindersTypeOK
<1>2. RemindersTypeOK'
  BY <1>1 DEF RemindersInv, RemindersTypeOK
<1>3. ASSUME NEW x \in Tx
      PROVE  (RequestHolds(x) => RequestHolds(x)') /\ (ScanHolds(x) => ScanHolds(x)')
  BY <1>1, HeldIsKept
<1>4. \A u \in Requests : RequestHolds(txs[u])'
  <2> SUFFICES ASSUME NEW u \in Requests PROVE RequestHolds(txs[u])'
    OBVIOUS
  <2>1. txs[u] \in Tx /\ RequestHolds(txs[u])
    BY DEF RemindersInv, RemindersTypeOK, Transactions
  <2>2. PICK x \in Tx : x = txs[u] /\ x = txs'[u]
    BY <1>1, <2>1
  <2>3. RequestHolds(x)'
    BY <1>3, <2>1, <2>2
  <2> QED
    BY <2>2, <2>3 DEF RequestHolds, MayProceed, RowsOf
<1>5. \A u \in Scans : ScanHolds(txs[u])'
  <2> SUFFICES ASSUME NEW u \in Scans PROVE ScanHolds(txs[u])'
    OBVIOUS
  <2>1. txs[u] \in Tx /\ ScanHolds(txs[u])
    BY DEF RemindersInv, RemindersTypeOK, Transactions
  <2>2. PICK x \in Tx : x = txs[u] /\ x = txs'[u]
    BY <1>1, <2>1
  <2>3. ScanHolds(x)'
    BY <1>3, <2>1, <2>2
  <2> QED
    BY <2>2, <2>3 DEF ScanHolds, ReminderDue, PaymentStalled
<1> QED
  BY <1>1, <1>2, <1>4, <1>5 DEF RemindersInv, RowLocksExclude, KeysAreNew, Counted, RemindedBy

-----------------------------------------------------------------------------
LEMMA RemindersInitInv == RemindersInit => RemindersInv
<1> SUFFICES ASSUME RemindersInit PROVE RemindersInv
  OBVIOUS
<1>1. RemindersTypeOK
  BY IdleHolds, RemindersAssumption DEF RemindersInit, RemindersTypeOK
<1>2. RowLocksExclude /\ KeysAreNew
  BY IdleHolds DEF RemindersInit, RowLocksExclude, KeysAreNew, Transactions
<1>3. (\A t \in Requests : RequestHolds(txs[t])) /\ (\A t \in Scans : ScanHolds(txs[t]))
  BY IdleHolds DEF RemindersInit, Transactions
<1>4. Counted
  <2>1. \A d \in Debts : RemindedBy(d) = {}
    BY RemindersAssumption DEF RemindersInit, RemindedBy
  <2> QED
    BY <2>1, FS_EmptySet DEF RemindersInit, Counted
<1> QED
  BY <1>1, <1>2, <1>3, <1>4 DEF RemindersInv

LEMMA RemindersStep == RemindersInv /\ [RemindersNext]_reminderVars => RemindersInv'
<1> SUFFICES ASSUME RemindersInv, [RemindersNext]_reminderVars PROVE RemindersInv'
  OBVIOUS
<1>1. ASSUME NEW t \in Requests, NEW op \in Ops, NEW d \in Debts, NEW k \in Keys,
             Begin(t, op, d, k)
      PROVE  RemindersInv'
  BY <1>1, BeginStep
<1>2. ASSUME NEW t \in Requests, \/ LockActiveGroup(t) \/ InsertKey(t) \/ LockRow(t)
                                 \/ RemindDebt(t) \/ SubmitProof(t) \/ FinishPayment(t)
      PROVE  RemindersInv'
  BY <1>2, LockActiveGroupStep, InsertKeyStep, LockRowStep, RemindDebtStep, PaymentStep
<1>3. ASSUME NEW t \in Scans, \/ ClaimReminders(t) \/ ClaimStalled(t) \/ InsertActivity(t)
                              \/ CommitReminders(t) \/ CommitStalled(t)
      PROVE  RemindersInv'
  BY <1>3, ClaimStep, InsertActivityStep, CommitRemindersStep, CommitStalledStep
<1>4. ASSUME NEW t \in Transactions, DeadlockVictim(t) PROVE RemindersInv'
  BY <1>4, RollbackStep DEF DeadlockVictim
<1>5. ASSUME NEW d \in Debts, DayPasses(d) \/ PaymentAges(d) PROVE RemindersInv'
  BY <1>5, TimeStep
<1>6. CASE UNCHANGED reminderVars
  <2>1. UNCHANGED <<tables, txs>>
    BY <1>6 DEF reminderVars
  <2>2. RemindersTypeOK'
    BY <2>1 DEF tables, RemindersInv, RemindersTypeOK
  <2>3. RowLocksExclude' /\ KeysAreNew'
    BY <2>1 DEF tables, RemindersInv, RowLocksExclude, KeysAreNew
  <2>4. Counted'
    BY <2>1 DEF tables, RemindersInv, Counted, RemindedBy
  <2>5. \A t \in Requests : RequestHolds(txs[t])'
    BY <2>1 DEF tables, RemindersInv, RequestHolds, MayProceed, RowsOf
  <2>6. \A t \in Scans : ScanHolds(txs[t])'
    BY <2>1 DEF tables, RemindersInv, ScanHolds, ReminderDue, PaymentStalled
  <2> QED
    BY <2>2, <2>3, <2>4, <2>5, <2>6 DEF RemindersInv
<1> QED
  BY <1>1, <1>2, <1>3, <1>4, <1>5, <1>6 DEF RemindersNext

\* What a step may do to the number of reminders of a debt.
LEMMA SpacedStep ==
  ASSUME RemindersInv, [RemindersNext]_reminderVars, NEW d \in Debts, count'[d] # count[d]
  PROVE  /\ count'[d] = count[d] + 1 /\ count'[d] <= MaxCount
         /\ status[d] = "awaiting" /\ d \notin recent
<1>0. count \in [Debts -> 0..MaxCount] /\ count[d] \in 0..MaxCount
  BY DEF RemindersInv, RemindersTypeOK
<1>1. ASSUME NEW t \in Requests, RemindDebt(t)
      PROVE  /\ count'[d] = count[d] + 1 /\ count'[d] <= MaxCount
             /\ status[d] = "awaiting" /\ d \notin recent
  <2>1. txs[t].debt \in Debts /\ MayProceed("remind", txs[t].debt)
    BY <1>1, RequestMayProceed DEF RemindDebt
  <2>2. d = txs[t].debt /\ count'[d] = count[d] + 1
    BY <1>0, <1>1, <2>1 DEF RemindDebt
  <2> QED
    BY <1>0, <2>1, <2>2, RemindersAssumption DEF MayProceed
<1>2. ASSUME NEW t \in Scans, CommitReminders(t)
      PROVE  /\ count'[d] = count[d] + 1 /\ count'[d] <= MaxCount
             /\ status[d] = "awaiting" /\ d \notin recent
  <2>1. d \in Claimed(t) /\ count'[d] = count[d] + 1
    BY <1>2 DEF CommitReminders
  <2>2. ReminderDue(d)
    BY <1>2, <2>1, ClaimedRows DEF CommitReminders
  <2> QED
    BY <1>0, <2>1, <2>2, RemindersAssumption DEF ReminderDue
<1>3. \/ \E t \in Requests : RemindDebt(t)
      \/ \E t \in Scans : CommitReminders(t)
      \/ UNCHANGED count
  BY DEF RemindersNext, reminderVars, tables, Begin, LockActiveGroup, InsertKey, LockRow,
    SubmitProof, FinishPayment, ClaimReminders, ClaimStalled, InsertActivity, CommitStalled,
    DeadlockVictim, DayPasses, PaymentAges
<1> QED
  BY <1>1, <1>2, <1>3

\* Every reachable state of reminders has the declared types.
THEOREM RemindersTypes == RemindersSpec => []RemindersTypeOK
<1>1. RemindersInv => RemindersTypeOK
  BY DEF RemindersInv
<1> QED
  BY <1>1, RemindersInitInv, RemindersStep, PTL DEF RemindersSpec

\* RemindDebt and the hourly scan, with any number of requests, scans and
\* keys in flight: the count of a debt is the scan's reminders plus one for
\* each key that was used for it, and a payment is alerted at most once.
THEOREM RemindersCountedOnce == RemindersSpec => []CountedOnce
<1>1. RemindersInv => CountedOnce
  BY DEF RemindersInv, Counted, CountedOnce, RemindedBy
<1> QED
  BY <1>1, RemindersInitInv, RemindersStep, PTL DEF RemindersSpec

\* What RemindDebt and the scan checked under the row lock still holds at their
\* commit: the debt waits, was not reminded today and has reminders left.
THEOREM RemindersAreSpaced == RemindersSpec => RemindersSpaced
<1>1. RemindersInv /\ [RemindersNext]_reminderVars =>
        [\A d \in Debts : count'[d] # count[d] =>
           /\ count'[d] = count[d] + 1 /\ count'[d] <= MaxCount
           /\ status[d] = "awaiting" /\ d \notin recent]_reminderVars
  BY SpacedStep
<1> QED
  BY <1>1, RemindersInitInv, RemindersStep, PTL DEF RemindersSpec, RemindersSpaced
=============================================================================
