---------------------------- MODULE PushDelivery ----------------------------
(***************************************************************************)
(* The pushes to one user: the FCM token of its session, and the River job *)
(* of each notification (spec 0006).                                       *)
(*                                                                         *)
(* A user has one live session at a time (AuthSession!OneLiveSession), so  *)
(* one row stands for all: revoked rows are never read again.  A job reads *)
(* the token in one statement, sends in a call to FCM, and clears a token  *)
(* that FCM disowns in another statement; in between the user may sign in  *)
(* elsewhere, the app may be removed, the process may die, and River may   *)
(* give the job to another attempt while the first goes on.                *)
(*                                                                         *)
(* No code deletes a notification, so the worker always finds its row.     *)
(***************************************************************************)
EXTENDS Naturals

CONSTANTS
  Notes,       \* bound: notifications to the user
  Malformed,   \* those of them that FCM refuses whatever the token
  Tokens,      \* registration tokens of the user's devices
  NoToken,     \* fcm_token is NULL
  MaxAttempts  \* attempts of a River job

ASSUME PushAssumption ==
  /\ Malformed \subseteq Notes
  /\ NoToken \notin Tokens
  /\ MaxAttempts \in Nat \ {0}

VARIABLES
  session,  \* the session that was issued last: is it live, and its fcm_token
  dead,     \* tokens that FCM no longer knows
  river,    \* River jobs, by notification
  exec,     \* executions of Work, by notification and attempt
  pushed,   \* devices FCM has accepted the notification for
  awaited,  \* history: device that has waited since the notification was made
  homes     \* history: devices that were signed in on since then

vars == <<session, dead, river, exec, pushed, awaited, homes>>

-----------------------------------------------------------------------------
Attempts == 1..MaxAttempts
MaybeToken == Tokens \cup {NoToken}
Stopped == [stage |-> "none", token |-> NoToken]

TypeOK ==
  /\ session \in [live : BOOLEAN, token : MaybeToken]
  /\ dead \subseteq Tokens
  /\ river \in [Notes -> [phase : {"none", "available", "running", "completed",
                                   "discarded"}, attempt : 0..MaxAttempts]]
  /\ exec \in [Notes -> [Attempts -> [stage : {"none", "load", "send", "clear"},
                                      token : MaybeToken]]]
  /\ pushed \in [Notes -> SUBSET Tokens]
  /\ awaited \in [Notes -> MaybeToken]
  /\ homes \in [Notes -> SUBSET Tokens]

Init ==
  /\ session = [live |-> FALSE, token |-> NoToken]
  /\ dead = {}
  /\ river = [n \in Notes |-> [phase |-> "none", attempt |-> 0]]
  /\ exec = [n \in Notes |-> [k \in Attempts |-> Stopped]]
  /\ pushed = [n \in Notes |-> {}]
  /\ awaited = [n \in Notes |-> NoToken]
  /\ homes = [n \in Notes |-> {}]

Dispatched == {n \in Notes : river[n].phase # "none"}

\* Mutant: the query forgets that a session may be over.
LastToken == session.token

\* GetActiveFCMTokenByUserID.
ActiveToken == IF session.live THEN session.token ELSE NoToken

\* Where the user is, as far as the app and the server agree.
Home == IF session.live /\ session.token \notin dead THEN session.token ELSE NoToken

-----------------------------------------------------------------------------
(* The user. *)

\* From now on the user is on the device of token t, or on none.
Moves(t) ==
  /\ awaited' = [n \in Notes |-> IF awaited[n] = t THEN t ELSE NoToken]
  /\ homes' = [n \in Notes |-> IF n \in Dispatched THEN homes[n] \cup ({t} \ {NoToken})
                               ELSE homes[n]]

\* CreateSession revokes the session before; the token is optional.
SignIn(t) ==
  /\ session' = [live |-> TRUE, token |-> t]
  /\ Moves(t)
  /\ UNCHANGED <<dead, river, exec, pushed>>

\* PUT /users/me/fcm-token ... AND revoked_at IS NULL; an empty one is refused.
UpdateFCMToken(t) ==
  /\ session.live
  /\ session' = [session EXCEPT !.token = t]
  /\ Moves(t)
  /\ UNCHANGED <<dead, river, exec, pushed>>

\* The session is revoked or expires; its token stays in the row.
EndSession ==
  /\ session.live
  /\ session' = [session EXCEPT !.live = FALSE]
  /\ Moves(NoToken)
  /\ UNCHANGED <<dead, river, exec, pushed>>

\* The app is removed, or FCM gives it another token.
TokenDies(t) ==
  /\ dead' = dead \cup {t}
  /\ awaited' = [n \in Notes |-> IF awaited[n] = t THEN NoToken ELSE awaited[n]]
  /\ UNCHANGED <<session, river, exec, pushed, homes>>

-----------------------------------------------------------------------------
(* The notification and its job. *)

\* Both are inserted in one transaction: that of what they tell of (NotifyTx),
\* or one of their own (SendToUser).
Dispatch(n) ==
  /\ n \notin Dispatched
  /\ river' = [river EXCEPT ![n] = [phase |-> "available", attempt |-> 0]]
  /\ awaited' = [awaited EXCEPT ![n] = Home]
  /\ homes' = [homes EXCEPT ![n] = {Home} \ {NoToken}]
  /\ UNCHANGED <<session, dead, exec, pushed>>

\* River starts the next attempt of a job.
Fetch(n) ==
  /\ river[n].phase = "available"
  /\ LET k == river[n].attempt + 1 IN
       /\ river' = [river EXCEPT ![n] = [phase |-> "running", attempt |-> k]]
       /\ exec' = [exec EXCEPT ![n][k] = [stage |-> "load", token |-> NoToken]]
  /\ UNCHANGED <<session, dead, pushed, awaited, homes>>

AfterFailure(k) == IF k < MaxAttempts THEN "available" ELSE "discarded"

\* Work returns; River takes the result of the attempt it knows of.
Return(n, k, phase) ==
  /\ exec' = [exec EXCEPT ![n][k] = Stopped]
  /\ river' = IF river[n] = [phase |-> "running", attempt |-> k]
              THEN [river EXCEPT ![n] = [phase |-> phase, attempt |-> k]] ELSE river

\* GetNotificationByID and GetActiveFCMTokenByUserID.
Load(n, k) ==
  /\ exec[n][k].stage = "load"
  /\ \/ /\ ActiveToken # NoToken
        /\ exec' = [exec EXCEPT ![n][k] = [stage |-> "send", token |-> ActiveToken]]
        /\ UNCHANGED river
     \/ ActiveToken = NoToken /\ Return(n, k, "completed")
     \/ Return(n, k, AfterFailure(k))  \* a statement fails
  /\ UNCHANGED <<session, dead, pushed, awaited, homes>>

\* SendToDevice: FCM takes the message, refuses the message, does not know the
\* token, or fails, having taken it or not.
Send(n, k) ==
  LET t == exec[n][k].token
      taken == [pushed EXCEPT ![n] = @ \cup {t}]
  IN  /\ exec[n][k].stage = "send"
      /\ \/ /\ t \notin dead /\ n \notin Malformed
            /\ pushed' = taken
            /\ Return(n, k, "completed")
         \/ /\ n \in Malformed
            /\ Return(n, k, "completed")
            /\ UNCHANGED pushed
         \/ /\ t \in dead
            /\ exec' = [exec EXCEPT ![n][k] = [stage |-> "clear", token |-> t]]
            /\ UNCHANGED <<river, pushed>>
         \/ /\ pushed' \in {pushed} \cup {taken : x \in {n} \ Malformed, y \in {t} \ dead}
            /\ Return(n, k, AfterFailure(k))
      /\ UNCHANGED <<session, dead, awaited, homes>>

\* Mutant: the token of the user is cleared, whatever it is by now.
OfUser(t) == TRUE

\* WHERE fcm_token = $1
StillStored(t) == session.token = t

\* ClearFCMToken, whose error is ignored.
Clear(n, k) ==
  /\ exec[n][k].stage = "clear"
  /\ \/ /\ StillStored(exec[n][k].token)
        /\ session' = [session EXCEPT !.token = NoToken]
     \/ UNCHANGED session
  /\ Return(n, k, "completed")
  /\ UNCHANGED <<dead, pushed, awaited, homes>>

Crash(n, k) ==
  /\ exec[n][k] # Stopped
  /\ exec' = [exec EXCEPT ![n][k] = Stopped]
  /\ UNCHANGED <<session, dead, river, pushed, awaited, homes>>

\* River gives up on an attempt that has not reported for an hour.
Rescue(n) ==
  /\ river[n].phase = "running"
  /\ river' = [river EXCEPT ![n].phase = AfterFailure(river[n].attempt)]
  /\ UNCHANGED <<session, dead, exec, pushed, awaited, homes>>

-----------------------------------------------------------------------------
UserStep ==
  \/ \E t \in MaybeToken \ dead : SignIn(t)
  \/ \E t \in Tokens \ dead : UpdateFCMToken(t) \/ TokenDies(t)
  \/ EndSession

Work(n, k) == Load(n, k) \/ Send(n, k) \/ Clear(n, k)

JobStep == \E n \in Notes :
  \/ Dispatch(n) \/ Fetch(n) \/ Rescue(n)
  \/ \E k \in Attempts : Work(n, k) \/ Crash(n, k)

Next == UserStep \/ JobStep

Spec == Init /\ [][Next]_vars

-----------------------------------------------------------------------------
(* Properties. *)

\* A push goes only to a device where the user was signed in at some time since
\* the notification was made, however late it is sent and whichever attempt
\* sends it: never to one the user had left by then.  One that the user leaves
\* between then and the read of the token is allowed (Work reads the token
\* again in every attempt, and GetActiveFCMTokenByUserID only that of a live
\* session).
PushedWhereSignedIn == \A n \in Notes : pushed[n] \subseteq homes[n]

\* A user who stays signed in on one device has the push there when River
\* takes the job for done: neither a crash, nor the clean-up of a dead token by
\* another job, nor an attempt that River had given up on loses it (spec 0006
\* AC-4).  A job that is discarded has failed MaxAttempts times.
PushArrives == \A n \in Notes \ Malformed :
  river[n].phase = "completed" /\ awaited[n] # NoToken => awaited[n] \in pushed[n]
=============================================================================
