---------------------------- MODULE AuthSession ----------------------------
(***************************************************************************)
(* The account of one user: its password, its sessions with their refresh  *)
(* tokens, its one-time codes, and what an admin does to it.               *)
(*                                                                         *)
(* Every transaction below takes the row lock of the user before it reads  *)
(* what it depends on, so it is one step.  What a request reads before its *)
(* transaction (the password hash it compares, the session it was          *)
(* authenticated with) may be out of date by then; these requests have two *)
(* steps.  A refused request changes nothing and is left out.              *)
(*                                                                         *)
(* A client that lost the answer to a refresh presents the old token       *)
(* again: any token that was ever issued may be presented at any time.     *)
(***************************************************************************)
EXTENDS Integers, FiniteSets

CONSTANTS
  Sessions,     \* bound: sessions created
  Tokens,       \* bound: refresh tokens issued
  Codes,        \* bound: one-time codes issued
  Calls,        \* requests in flight that compare a password
  NoSession,    \* no session
  MaxPasswords, \* bound: passwords the account has one after another
  MaxWrong,     \* attempts that spend a code (5 in the code)
  MaxFailures   \* failures that block the sign-in (5 in the code)

ASSUME AuthAssumption ==
  /\ NoSession \notin Sessions
  /\ MaxPasswords \in Nat /\ MaxWrong \in Nat \ {0} /\ MaxFailures \in Nat \ {0}

VARIABLES
  status,   \* users.status
  password, \* users.password_hash, numbered in the order they were set
  failures, \* users.failed_login_count in the present window
  blocked,  \* users.login_blocked_until is in the future
  sessions, \* sessions: not created, live, revoked or deleted
  expired,  \* sessions that are past expires_at
  tokens,   \* session_refresh_tokens
  codes,    \* user_tokens
  calls,    \* locals of the requests in flight
  secret,   \* history: password a session was signed in with, or has set
  announced \* `session.ended' controls committed for a session

vars == <<status, password, failures, blocked, sessions, expired, tokens,
          codes, calls, secret, announced>>

-----------------------------------------------------------------------------
Statuses == {"pending_verification", "active", "suspended", "locked"}
Kinds == {"email_verification", "password_reset"}
Token == [of : Sessions \cup {NoSession}, used : BOOLEAN, revoked : BOOLEAN]
Code == [kind : Kinds, state : {"none", "open", "used", "superseded"},
         wrong : 0..MaxWrong]
Call == [phase : {"idle", "sign_in", "change"}, read : 0..MaxPasswords,
         session : Sessions \cup {NoSession}]

TypeOK ==
  /\ status \in Statuses
  /\ password \in 0..MaxPasswords
  /\ failures \in 0..MaxFailures
  /\ blocked \in BOOLEAN
  /\ sessions \in [Sessions -> {"none", "live", "revoked", "deleted"}]
  /\ expired \subseteq Sessions
  /\ tokens \in [Tokens -> Token]
  /\ codes \in [Codes -> Code]
  /\ calls \in [Calls -> Call]
  /\ secret \in [Sessions -> 0..MaxPasswords]
  /\ announced \in [Sessions -> Nat]

NoToken == [of |-> NoSession, used |-> FALSE, revoked |-> FALSE]
NoCode == [kind |-> "email_verification", state |-> "none", wrong |-> 0]
Idle == [phase |-> "idle", read |-> 0, session |-> NoSession]

\* CreateUser: the account waits for its e-mail to be verified.
Init ==
  /\ status = "pending_verification"
  /\ password = 0
  /\ failures = 0 /\ blocked = FALSE
  /\ sessions = [s \in Sessions |-> "none"]
  /\ expired = {}
  /\ tokens = [t \in Tokens |-> NoToken]
  /\ \E c \in Codes : codes = [d \in Codes |->
       IF d = c THEN [NoCode EXCEPT !.state = "open"] ELSE NoCode]
  /\ calls = [r \in Calls |-> Idle]
  /\ secret = [s \in Sessions |-> 0]
  /\ announced = [s \in Sessions |-> 0]

userVars == <<status, password, failures, blocked>>

-----------------------------------------------------------------------------
(* Helpers. *)

Live == {s \in Sessions : sessions[s] = "live"}
TokensOf(S) == {t \in Tokens : tokens[t].of \in S}
Usable(s) == {t \in TokensOf({s}) : ~tokens[t].used /\ ~tokens[t].revoked}

\* revoked_at is set where it is still NULL.
Revoked(S) == [s \in Sessions |-> IF s \in S \cap Live THEN "revoked" ELSE sessions[s]]

\* The tokens of the sessions S that were not revoked before are.
TokensRevoked(S) == [t \in Tokens |->
  IF t \in TokensOf(S) THEN [tokens[t] EXCEPT !.revoked = TRUE] ELSE tokens[t]]

\* Mutant: what was revoked before is announced again.
AnnounceAll(S) == [s \in Sessions |-> announced[s] + IF s \in S THEN 1 ELSE 0]

\* UPDATE ... RETURNING id, then NotifySessionEnded, in the same transaction.
Announce(S) == [s \in Sessions |-> announced[s] + IF s \in S \cap Live THEN 1 ELSE 0]

Revoke(S) ==
  /\ sessions' = Revoked(S)
  /\ tokens' = TokensRevoked(S)
  /\ announced' = Announce(S)

-----------------------------------------------------------------------------
(* Signing in. *)

\* The password is right for the hash that was read.
SignInCompare(r) ==
  /\ calls[r].phase = "idle"
  /\ ~blocked
  /\ calls' = [calls EXCEPT ![r] = [phase |-> "sign_in", read |-> password,
                                    session |-> NoSession]]
  /\ UNCHANGED <<userVars, sessions, expired, tokens, codes, secret, announced>>

\* RecordLoginFailure.
SignInWrong ==
  /\ ~blocked
  /\ failures' = failures + 1
  /\ blocked' = (failures + 1 >= MaxFailures)
  /\ UNCHANGED <<status, password, sessions, expired, tokens, codes, calls,
                 secret, announced>>

\* 15 minutes have passed: the block is over, the next failure opens a window.
FailuresForgotten ==
  /\ failures > 0
  /\ failures' = 0
  /\ blocked' = FALSE
  /\ UNCHANGED <<status, password, sessions, expired, tokens, codes, calls,
                 secret, announced>>

\* Mutant: the hash that was compared is not compared again.
AnyHash(r) == TRUE

\* ExpectedPasswordHash.
SameHash(r) == calls[r].read = password

\* Mutant: the status was looked at before the transaction.
AnyStatus == status # "pending_verification"

MaySignIn == status = "active" /\ ~blocked

\* Mutant: the session that is replaced keeps its token.
KeepTokens(s, t) ==
  [tokens EXCEPT ![t] = [of |-> s, used |-> FALSE, revoked |-> FALSE]]

\* The tokens of the sessions that were replaced, and the first of the new one.
SignInTokens(s, t) ==
  [TokensRevoked(Live) EXCEPT ![t] = [of |-> s, used |-> FALSE, revoked |-> FALSE]]

\* CreateSession: the sessions the user has are replaced.
CreateSession(r, s, t) ==
  /\ calls[r].phase = "sign_in"
  /\ SameHash(r)
  /\ MaySignIn
  /\ sessions[s] = "none" /\ tokens[t] = NoToken
  /\ sessions' = [Revoked(Live) EXCEPT ![s] = "live"]
  /\ tokens' = SignInTokens(s, t)
  /\ announced' = Announce(Live)
  /\ secret' = [secret EXCEPT ![s] = calls[r].read]
  /\ failures' = 0
  /\ calls' = [calls EXCEPT ![r] = Idle]
  /\ UNCHANGED <<status, password, blocked, expired, codes>>

\* Any refusal of the transaction.
SignInRefused(r) ==
  /\ calls[r].phase = "sign_in"
  /\ calls' = [calls EXCEPT ![r] = Idle]
  /\ UNCHANGED <<userVars, sessions, expired, tokens, codes, secret, announced>>

-----------------------------------------------------------------------------
(* Refreshing and signing out. *)

\* A token that was used before: its session is revoked.
RefreshReuse(t) ==
  /\ tokens[t].of # NoSession /\ tokens[t].used
  /\ Revoke({tokens[t].of})
  /\ UNCHANGED <<userVars, expired, codes, calls, secret>>

RotateRefresh(t, new) ==
  LET s == tokens[t].of
  IN  /\ s # NoSession /\ ~tokens[t].used
      /\ ~tokens[t].revoked /\ sessions[s] = "live" /\ s \notin expired
      /\ status = "active"
      /\ tokens[new] = NoToken
      /\ tokens' = [tokens EXCEPT ![t].used = TRUE, ![new].of = s]
      /\ UNCHANGED <<userVars, sessions, expired, codes, calls, secret, announced>>

\* RevokeSession: sign-out, or the access token could not be issued.
RevokeSession(s) ==
  /\ sessions[s] \in {"live", "revoked"}
  /\ Revoke({s})
  /\ UNCHANGED <<userVars, expired, codes, calls, secret>>

-----------------------------------------------------------------------------
(* Passwords. *)

\* The request of a valid session knows the present password.
ChangeCompare(r, s) ==
  /\ calls[r].phase = "idle"
  /\ sessions[s] = "live" /\ s \notin expired /\ status = "active"
  /\ calls' = [calls EXCEPT ![r] = [phase |-> "change", read |-> password,
                                    session |-> s]]
  /\ UNCHANGED <<userVars, sessions, expired, tokens, codes, secret, announced>>

\* ChangePassword revokes the other sessions; neither the hash that was
\* compared nor the session of the request is looked at again.
ChangePassword(r) ==
  LET s == calls[r].session
  IN  /\ calls[r].phase = "change"
      /\ password < MaxPasswords
      /\ password' = password + 1
      /\ secret' = [secret EXCEPT ![s] = password + 1]
      /\ Revoke(Sessions \ {s})
      /\ calls' = [calls EXCEPT ![r] = Idle]
      /\ UNCHANGED <<status, failures, blocked, expired, codes>>

\* The transaction fails, or the request ends before it.
ChangeFails(r) ==
  /\ calls[r].phase = "change"
  /\ calls' = [calls EXCEPT ![r] = Idle]
  /\ UNCHANGED <<userVars, sessions, expired, tokens, codes, secret, announced>>

-----------------------------------------------------------------------------
(* One-time codes. *)

IsOpen(c, kind) == codes[c].state = "open" /\ codes[c].kind = kind

\* A new code supersedes the open ones of its kind.
Sent(c, kind) ==
  [d \in Codes |->
     IF d = c THEN [kind |-> kind, state |-> "open", wrong |-> 0]
     ELSE IF IsOpen(d, kind) THEN [codes[d] EXCEPT !.state = "superseded"]
     ELSE codes[d]]

\* CreateUserToken.  A verification code is asked for while the account waits
\* for it, and may be stored later.
SendCode(c, kind) ==
  /\ codes[c].state = "none"
  /\ codes' = Sent(c, kind)
  /\ UNCHANGED <<userVars, sessions, expired, tokens, calls, secret, announced>>

\* The status a code of the kind is for.
StatusFor(kind) ==
  IF kind = "password_reset" THEN "active" ELSE "pending_verification"

\* One more wrong attempt; the last one spends the code.
WrongCode(c) ==
  /\ codes[c].state = "open" /\ status = StatusFor(codes[c].kind)
  /\ codes' = [codes EXCEPT ![c].wrong = @ + 1,
       ![c].state = IF codes[c].wrong + 1 >= MaxWrong THEN "superseded" ELSE @]
  /\ UNCHANGED <<userVars, sessions, expired, tokens, calls, secret, announced>>

\* VerifyEmail.
VerifyEmail(c) ==
  /\ IsOpen(c, "email_verification") /\ status = "pending_verification"
  /\ codes[c].wrong < MaxWrong
  /\ codes' = [codes EXCEPT ![c].state = "used"]
  /\ status' = "active"
  /\ UNCHANGED <<password, failures, blocked, sessions, expired, tokens, calls,
                 secret, announced>>

\* ResetPassword: every session is revoked.
ResetPassword(c) ==
  /\ IsOpen(c, "password_reset") /\ status = "active"
  /\ codes[c].wrong < MaxWrong
  /\ password < MaxPasswords
  /\ codes' = [codes EXCEPT ![c].state = "used"]
  /\ password' = password + 1
  /\ Revoke(Sessions)
  /\ UNCHANGED <<status, failures, blocked, expired, calls, secret>>

\* An open code reaches its expires_at: no request takes it any more.
ExpireCode(c) ==
  /\ codes[c].state = "open"
  /\ codes' = [codes EXCEPT ![c].state = "superseded"]
  /\ UNCHANGED <<userVars, sessions, expired, tokens, calls, secret, announced>>

-----------------------------------------------------------------------------
(* The admin, and time. *)

\* UpdateAccountStatusWithRevocation.
UpdateStatus(st) ==
  /\ status # "pending_verification"
  /\ st \in {"active", "suspended", "locked"}
  /\ status' = st
  /\ IF st = "active" THEN UNCHANGED <<sessions, tokens, announced>>
     ELSE Revoke(Sessions)
  /\ UNCHANGED <<password, failures, blocked, expired, codes, calls, secret>>

ExpireSession(s) ==
  /\ sessions[s] \in {"live", "revoked"} /\ s \notin expired
  /\ expired' = expired \cup {s}
  /\ UNCHANGED <<userVars, sessions, tokens, codes, calls, secret, announced>>

\* CleanupExpiredAuth: a session that was revoked or expired long ago is
\* deleted with its tokens.
CleanupExpiredAuth(s) ==
  /\ sessions[s] = "revoked" \/ (sessions[s] = "live" /\ s \in expired)
  /\ sessions' = [sessions EXCEPT ![s] = "deleted"]
  /\ tokens' = [t \in Tokens |-> IF t \in TokensOf({s})
       THEN [of |-> NoSession, used |-> TRUE, revoked |-> TRUE] ELSE tokens[t]]
  /\ UNCHANGED <<userVars, expired, codes, calls, secret, announced>>

Next ==
  \/ \E r \in Calls :
       \/ SignInCompare(r) \/ SignInRefused(r) \/ ChangePassword(r) \/ ChangeFails(r)
       \/ \E s \in Sessions : ChangeCompare(r, s)
       \/ \E s \in Sessions, t \in Tokens : CreateSession(r, s, t)
  \/ SignInWrong \/ FailuresForgotten
  \/ \E t \in Tokens : RefreshReuse(t) \/ \E n \in Tokens : RotateRefresh(t, n)
  \/ \E s \in Sessions :
       RevokeSession(s) \/ ExpireSession(s) \/ CleanupExpiredAuth(s)
  \/ \E c \in Codes :
       \/ WrongCode(c) \/ VerifyEmail(c) \/ ResetPassword(c) \/ ExpireCode(c)
       \/ \E kind \in Kinds : SendCode(c, kind)
  \/ \E st \in Statuses : UpdateStatus(st)

Spec == Init /\ [][Next]_vars

-----------------------------------------------------------------------------
(* Properties. *)

\* A user has at most one live session; a live session has exactly one refresh
\* token that can be used, any other session none (CreateSession replaces,
\* RotateRefresh consumes one token for the one it issues).
OneLiveSession ==
  /\ \A s, t \in Live : s = t
  /\ \A s \in Live : \E t \in Tokens : Usable(s) = {t}
  /\ \A s \in Sessions \ Live : Usable(s) = {}

\* Whoever holds a live session has signed in with the present password or has
\* set it: a sign-in that compared an older one does not get through, and a
\* change or a reset ends every other session (ExpectedPasswordHash).
SessionsKnowPassword == \A s \in Live : secret[s] = password

\* An account that is not active has no live session: neither a sign-in nor a
\* refresh that began before it was suspended revives one.
InactiveIsSignedOut == status # "active" => Live = {}

\* Every revoked session has been announced exactly once to the event streams,
\* a live one never (NotifySessionEnded gets what the UPDATE returned).
RevokedIsAnnounced ==
  \A s \in Sessions :
    /\ sessions[s] = "revoked" => announced[s] = 1
    /\ sessions[s] \in {"none", "live"} => announced[s] = 0

\* At most one code of a kind is open, so that VerifyEmail and ResetPassword
\* read the code that was sent last (CreateUserToken supersedes).
OneOpenCode ==
  \A c, d \in Codes, kind \in Kinds : IsOpen(c, kind) /\ IsOpen(d, kind) => c = d
=============================================================================
