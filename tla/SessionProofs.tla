---------------------------- MODULE SessionProofs ----------------------------
(***************************************************************************)
(* Theorems about AuthSession, for every number of sessions, tokens, codes *)
(* and requests in flight, and about UserStreams, for every number of API  *)
(* processes, streams and sessions, every capacity of a stream's buffer    *)
(* and every number of events and lost connections.                        *)
(*                                                                         *)
(* AuthSession.  OneLiveSession carries the rest: that a new session has   *)
(* one usable token rests on a session that was never created having none, *)
(* that a rotation leaves one on the token it consumes being the only one. *)
(*                                                                         *)
(* UserStreams.  What the properties say of a process that is up to date   *)
(* holds of every process for the notifications it is past: the inductive  *)
(* invariant StreamInv puts its position in the place of the end of the    *)
(* log.  A listener that listens again skips what it missed, so it may     *)
(* have no admitted stream then (OffHasNone).                              *)
(***************************************************************************)
EXTENDS AuthSession, UserStreams, TLAPS

\* A sign-in that is not blocked has failures left, an open code attempts: what
\* keeps the counts in their range.
AttemptsLeft ==
  /\ ~blocked => failures < MaxFailures
  /\ \A c \in Codes : codes[c].state = "open" => codes[c].wrong < MaxWrong

Inv ==
  /\ TypeOK
  /\ AttemptsLeft
  /\ OneLiveSession
  /\ SessionsKnowPassword
  /\ InactiveIsSignedOut
  /\ RevokedIsAnnounced

\* What the transactions that end sessions have in common.
SafeSessions == OneLiveSession /\ RevokedIsAnnounced

-----------------------------------------------------------------------------
LEMMA InitInv == Init => Inv
<1> SUFFICES ASSUME Init
             PROVE  Inv
  OBVIOUS
<1> USE AuthAssumption
<1>1. TypeOK
  <2>1. NoCode \in Code /\ [NoCode EXCEPT !.state = "open"] \in Code
    BY DEF NoCode, Code, Kinds
  <2>2. codes \in [Codes -> Code]
    BY <2>1 DEF Init
  <2>3. tokens \in [Tokens -> Token]
    BY DEF Init, NoToken, Token
  <2>4. calls \in [Calls -> Call]
    BY DEF Init, Idle, Call
  <2>5. status \in Statuses /\ sessions \in [Sessions -> {"none", "live", "revoked", "deleted"}]
    BY DEF Init, Statuses
  <2>6. /\ password \in 0..MaxPasswords /\ failures \in 0..MaxFailures
        /\ secret \in [Sessions -> 0..MaxPasswords] /\ announced \in [Sessions -> Nat]
    BY DEF Init
  <2>7. blocked \in BOOLEAN /\ expired \subseteq Sessions
    BY DEF Init
  <2> QED
    BY <2>2, <2>3, <2>4, <2>5, <2>6, <2>7 DEF TypeOK
<1>2. AttemptsLeft
  BY DEF Init, AttemptsLeft, NoCode
<1>3. Live = {} /\ \A s \in Sessions : Usable(s) = {}
  BY DEF Init, Live, Usable, TokensOf, NoToken
<1> QED
  BY <1>1, <1>2, <1>3
  DEF Init, Inv, OneLiveSession, SessionsKnowPassword, InactiveIsSignedOut,
      RevokedIsAnnounced

\* Ending the sessions S ends exactly those of them that were live, takes their
\* tokens away and announces each of them once.
LEMMA RevokeStep ==
  ASSUME Inv, NEW S \in SUBSET Sessions, Revoke(S)
  PROVE  /\ Live' = Live \ S
         /\ SafeSessions'
         /\ sessions' \in [Sessions -> {"none", "live", "revoked", "deleted"}]
         /\ tokens' \in [Tokens -> Token]
         /\ announced' \in [Sessions -> Nat]
<1> USE AuthAssumption
<1>1. Live' = Live \ S
  BY DEF Revoke, Revoked, Live, Inv, TypeOK
<1>2. \A s \in Sessions : Usable(s)' = IF s \in S THEN {} ELSE Usable(s)
  <2> SUFFICES ASSUME NEW s \in Sessions
               PROVE  Usable(s)' = IF s \in S THEN {} ELSE Usable(s)
    OBVIOUS
  <2>1. \A t \in Tokens : /\ tokens'[t].of = tokens[t].of
                          /\ tokens'[t].used = tokens[t].used
                          /\ tokens'[t].revoked =
                               IF tokens[t].of \in S THEN TRUE ELSE tokens[t].revoked
    BY DEF Revoke, TokensRevoked, TokensOf, Inv, TypeOK, Token
  <2> QED
    BY <2>1 DEF Usable, TokensOf
<1>3. OneLiveSession'
  BY <1>1, <1>2 DEF OneLiveSession, Inv, Live
<1>4. RevokedIsAnnounced'
  BY DEF Revoke, Revoked, Announce, Live, RevokedIsAnnounced, Inv, TypeOK
<1>5. /\ sessions' \in [Sessions -> {"none", "live", "revoked", "deleted"}]
      /\ announced' \in [Sessions -> Nat]
  BY DEF Revoke, Revoked, Announce, Live, Inv, TypeOK
<1>6. tokens' \in [Tokens -> Token]
  BY DEF Revoke, TokensRevoked, Inv, TypeOK, Token
<1> QED
  BY <1>1, <1>3, <1>4, <1>5, <1>6 DEF SafeSessions

\* A step that leaves the sessions and their tokens alone.
LEMMA SessionsUnchanged ==
  ASSUME Inv, UNCHANGED <<sessions, tokens, announced>>
  PROVE  Live' = Live /\ SafeSessions'
BY DEF Inv, SafeSessions, OneLiveSession, RevokedIsAnnounced, Live, Usable, TokensOf

-----------------------------------------------------------------------------
(* The actions, in the order of Next. *)

\* TokensRevoked changes nothing of a token but whether it is revoked.
LEMMA TokensRevokedFields ==
  ASSUME tokens \in [Tokens -> Token], NEW S
  PROVE  /\ TokensRevoked(S) \in [Tokens -> Token]
         /\ \A t \in Tokens :
              /\ TokensRevoked(S)[t].of = tokens[t].of
              /\ TokensRevoked(S)[t].used = tokens[t].used
              /\ TokensRevoked(S)[t].revoked =
                   IF tokens[t].of \in S THEN TRUE ELSE tokens[t].revoked
BY DEF TokensRevoked, TokensOf, Token

LEMMA CreateSessionStep ==
  ASSUME Inv, NEW r \in Calls, NEW s \in Sessions, NEW t \in Tokens,
         CreateSession(r, s, t)
  PROVE  Inv'
<1> USE AuthAssumption
<1>1. /\ sessions[s] = "none" /\ tokens[t] = NoToken /\ calls[r].read = password
      /\ status = "active" /\ ~blocked
  BY DEF CreateSession, SameHash, MaySignIn
<1>2. Live' = {s}
  BY <1>1 DEF CreateSession, Revoked, Live, Inv, TypeOK
<1>3. /\ tokens' \in [Tokens -> Token]
      /\ tokens'[t].of = s /\ ~tokens'[t].used /\ ~tokens'[t].revoked
      /\ \A u \in Tokens \ {t} :
           /\ tokens'[u].of = tokens[u].of
           /\ tokens'[u].used <=> tokens[u].used
           /\ tokens'[u].revoked <=> tokens[u].of \in Live \/ tokens[u].revoked
  <2> DEFINE old == TokensRevoked(Live)
             fresh == [of |-> s, used |-> FALSE, revoked |-> FALSE]
  <2>1. /\ old \in [Tokens -> Token]
        /\ \A u \in Tokens :
             /\ old[u].of = tokens[u].of
             /\ old[u].used = tokens[u].used
             /\ old[u].revoked = IF tokens[u].of \in Live THEN TRUE ELSE tokens[u].revoked
    BY TokensRevokedFields DEF Inv, TypeOK
  <2>2. tokens' = [old EXCEPT ![t] = fresh]
    BY DEF CreateSession, SignInTokens
  <2>3. fresh \in Token
    BY DEF Token
  <2> HIDE DEF old, fresh
  <2>4. /\ tokens' \in [Tokens -> Token]
        /\ tokens'[t] = fresh
        /\ \A u \in Tokens \ {t} : tokens'[u] = old[u]
    BY <2>1, <2>2, <2>3
  <2>5. \A u \in Tokens \ {t} :
          /\ tokens'[u].of = tokens[u].of
          /\ tokens'[u].used <=> tokens[u].used
          /\ tokens'[u].revoked <=> tokens[u].of \in Live \/ tokens[u].revoked
    BY <2>1, <2>4
  <2> QED
    BY <2>4, <2>5 DEF fresh
<1>4. Usable(s)' = {t}
  <2>1. Usable(s) = {}
    BY <1>1 DEF Inv, OneLiveSession, Live
  <2>2. s \notin Live
    BY <1>1 DEF Live
  <2> QED
    BY <1>3, <2>1, <2>2 DEF Usable, TokensOf
<1>5. \A u \in Sessions \ {s} : Usable(u)' = {}
  <2> SUFFICES ASSUME NEW u \in Sessions \ {s}
               PROVE  Usable(u)' = {}
    OBVIOUS
  <2>1. CASE u \in Live
    BY <1>3, <2>1 DEF Usable, TokensOf
  <2>2. CASE u \notin Live
    <3>1. Usable(u) = {}
      BY <2>2 DEF Inv, OneLiveSession
    <3> QED
      BY <1>3, <2>2, <3>1 DEF Usable, TokensOf
  <2> QED
    BY <2>1, <2>2
<1>6. OneLiveSession'
  BY <1>2, <1>4, <1>5 DEF OneLiveSession
<1>7. RevokedIsAnnounced'
  BY <1>1 DEF CreateSession, Revoked, Announce, Live, RevokedIsAnnounced, Inv, TypeOK
<1>8. TypeOK'
  <2>1. /\ sessions' \in [Sessions -> {"none", "live", "revoked", "deleted"}]
        /\ announced' \in [Sessions -> Nat]
    BY DEF CreateSession, Revoked, Announce, Live, Inv, TypeOK
  <2>2. /\ secret' \in [Sessions -> 0..MaxPasswords]
        /\ calls' \in [Calls -> Call]
        /\ failures' \in 0..MaxFailures
    BY DEF CreateSession, Inv, TypeOK, Call, Idle
  <2> QED
    BY <1>3, <2>1, <2>2 DEF CreateSession, Inv, TypeOK
<1>9. SessionsKnowPassword' /\ InactiveIsSignedOut' /\ AttemptsLeft'
  <2>1. secret'[s] = password' /\ status' = "active" /\ failures' = 0
    BY <1>1 DEF CreateSession, Inv, TypeOK
  <2> QED
    BY <1>2, <2>1
    DEF CreateSession, SessionsKnowPassword, InactiveIsSignedOut, AttemptsLeft, Inv
<1> QED
  BY <1>6, <1>7, <1>8, <1>9 DEF Inv

LEMMA RotateStep ==
  ASSUME Inv, NEW t \in Tokens, NEW new \in Tokens, RotateRefresh(t, new)
  PROVE  Inv'
<1> USE AuthAssumption
<1> PICK s \in Sessions : s = tokens[t].of
  BY DEF RotateRefresh, Inv, TypeOK, Token
<1>1. /\ s \in Live /\ t \in Usable(s) /\ tokens[new] = NoToken
      /\ s \in Sessions
  BY DEF RotateRefresh, Live, Usable, TokensOf, Inv, TypeOK, Token
<1>2. Usable(s) = {t}
  BY <1>1 DEF Inv, OneLiveSession
<1>3. t # new
  BY <1>1 DEF NoToken
<1>4. /\ tokens' \in [Tokens -> Token]
      /\ tokens'[t].used /\ tokens'[t].of = s
      /\ tokens'[new].of = s /\ ~tokens'[new].used /\ ~tokens'[new].revoked
      /\ \A u \in Tokens \ {t, new} : tokens'[u] = tokens[u]
  <2>1. tokens \in [Tokens -> Token]
    BY DEF Inv, TypeOK
  <2>2. tokens' = [tokens EXCEPT ![t].used = TRUE, ![new].of = s]
    BY DEF RotateRefresh
  <2>3. tokens' = [tokens EXCEPT ![t] = [tokens[t] EXCEPT !.used = TRUE],
                                 ![new] = [tokens[new] EXCEPT !.of = s]]
    BY <1>3, <2>1, <2>2
  <2>4. /\ [tokens[new] EXCEPT !.of = s] \in Token
        /\ [tokens[new] EXCEPT !.of = s].of = s
        /\ ~[tokens[new] EXCEPT !.of = s].used
        /\ ~[tokens[new] EXCEPT !.of = s].revoked
    <3>1. ~tokens[new].used /\ ~tokens[new].revoked
      BY <1>1 DEF NoToken
    <3>2. tokens[new] \in Token
      BY <2>1
    <3> QED
      BY <1>1, <3>1, <3>2 DEF Token
  <2>5. /\ [tokens[t] EXCEPT !.used = TRUE] \in Token
        /\ [tokens[t] EXCEPT !.used = TRUE].used
        /\ [tokens[t] EXCEPT !.used = TRUE].of = s
    BY <2>1 DEF Token
  <2> QED
    BY <1>3, <2>1, <2>3, <2>4, <2>5
<1>5. Usable(s)' = {new}
  BY <1>1, <1>2, <1>3, <1>4 DEF Usable, TokensOf
<1>6. \A u \in Sessions \ {s} : Usable(u)' = Usable(u)
  <2> SUFFICES ASSUME NEW u \in Sessions, u # s
               PROVE  Usable(u)' = Usable(u)
    OBVIOUS
  <2>1. tokens[new].of \notin Sessions
    BY <1>1 DEF NoToken
  <2> QED
    BY <1>1, <1>4, <2>1 DEF Usable, TokensOf
<1>7. Live' = Live
  BY DEF RotateRefresh, Live
<1>8. OneLiveSession'
  <2>1. \A u \in Sessions \ Live : Usable(u)' = {}
    BY <1>1, <1>6 DEF Inv, OneLiveSession
  <2>2. Live = {s}
    BY <1>1 DEF Inv, OneLiveSession
  <2> QED
    <3>1. \A u \in Live' : Usable(u)' = {new}
      BY <1>5, <1>7, <2>2
    <3>2. \A u, v \in Live' : u = v
      BY <1>7, <2>2
    <3> QED
      BY <1>7, <2>1, <3>1, <3>2 DEF OneLiveSession
<1> QED
  BY <1>4, <1>7, <1>8
  DEF RotateRefresh, userVars, Inv, TypeOK, AttemptsLeft, SessionsKnowPassword,
      InactiveIsSignedOut, RevokedIsAnnounced

\* A used token presented again, a sign-out, an admin.
LEMMA EndingSteps ==
  ASSUME Inv,
         \/ \E t \in Tokens : RefreshReuse(t)
         \/ \E s \in Sessions : RevokeSession(s)
         \/ \E st \in Statuses : UpdateStatus(st)
  PROVE  Inv'
<1> USE AuthAssumption
<1>1. CASE \E st \in Statuses : UpdateStatus(st) /\ st = "active"
  <2>1. Live' = Live /\ SafeSessions'
    BY <1>1, SessionsUnchanged DEF UpdateStatus
  <2> QED
    BY <1>1, <2>1
    DEF UpdateStatus, SafeSessions, Inv, TypeOK, Statuses, AttemptsLeft,
        SessionsKnowPassword, InactiveIsSignedOut
<1>2. CASE \E st \in Statuses : UpdateStatus(st) /\ st # "active"
  <2>1. Revoke(Sessions)
    BY <1>2 DEF UpdateStatus
  <2>2. Live' = {} /\ SafeSessions'
        /\ sessions' \in [Sessions -> {"none", "live", "revoked", "deleted"}]
        /\ tokens' \in [Tokens -> Token] /\ announced' \in [Sessions -> Nat]
    BY <2>1, RevokeStep DEF Live
  <2> QED
    BY <1>2, <2>2
    DEF UpdateStatus, SafeSessions, Inv, TypeOK, Statuses, AttemptsLeft,
        SessionsKnowPassword, InactiveIsSignedOut
<1>3. CASE \/ \E t \in Tokens : RefreshReuse(t)
           \/ \E s \in Sessions : RevokeSession(s)
  <2>1. /\ \E S \in SUBSET Sessions : Revoke(S)
        /\ UNCHANGED <<userVars, expired, codes, calls, secret>>
    BY <1>3 DEF RefreshReuse, RevokeSession, Inv, TypeOK, Token
  <2>2. Live' \subseteq Live /\ SafeSessions'
        /\ sessions' \in [Sessions -> {"none", "live", "revoked", "deleted"}]
        /\ tokens' \in [Tokens -> Token] /\ announced' \in [Sessions -> Nat]
    BY <2>1, RevokeStep
  <2> QED
    BY <2>1, <2>2
    DEF userVars, SafeSessions, Inv, TypeOK, AttemptsLeft, SessionsKnowPassword,
        InactiveIsSignedOut
<1> QED
  BY <1>1, <1>2, <1>3

\* A change ends every session but its own, a reset ends all.
LEMMA PasswordSteps ==
  ASSUME Inv,
         \/ \E r \in Calls : ChangePassword(r)
         \/ \E c \in Codes : ResetPassword(c)
  PROVE  Inv'
<1> USE AuthAssumption
<1>1. ASSUME NEW r \in Calls, ChangePassword(r)
      PROVE  Inv'
  <2> DEFINE s == calls[r].session
  <2>1. Revoke(Sessions \ {s}) /\ password' = password + 1
        /\ secret' = [secret EXCEPT ![s] = password + 1]
    BY <1>1 DEF ChangePassword
  <2>2. Live' = Live \ (Sessions \ {s}) /\ SafeSessions'
        /\ sessions' \in [Sessions -> {"none", "live", "revoked", "deleted"}]
        /\ tokens' \in [Tokens -> Token] /\ announced' \in [Sessions -> Nat]
    BY <2>1, RevokeStep
  <2>3. \A u \in Live' : u = s /\ u \in Sessions
    BY <2>2 DEF Live
  <2>4. SessionsKnowPassword'
    BY <2>1, <2>3 DEF SessionsKnowPassword, Inv, TypeOK
  <2>5. password' \in 0..MaxPasswords /\ password + 1 \in 0..MaxPasswords
    BY <1>1 DEF ChangePassword, Inv, TypeOK
  <2>6. secret' \in [Sessions -> 0..MaxPasswords]
    BY <2>1, <2>5 DEF Inv, TypeOK
  <2>7. calls' \in [Calls -> Call]
    <3>1. Idle \in Call
      BY DEF Idle, Call
    <3> QED
      BY <1>1, <3>1 DEF ChangePassword, Inv, TypeOK
  <2> QED
    BY <1>1, <2>2, <2>4, <2>5, <2>6, <2>7
    DEF ChangePassword, SafeSessions, Inv, TypeOK, AttemptsLeft, InactiveIsSignedOut
<1>2. ASSUME NEW c \in Codes, ResetPassword(c)
      PROVE  Inv'
  <2>1. Revoke(Sessions)
    BY <1>2 DEF ResetPassword
  <2>2. Live' = {} /\ SafeSessions'
        /\ sessions' \in [Sessions -> {"none", "live", "revoked", "deleted"}]
        /\ tokens' \in [Tokens -> Token] /\ announced' \in [Sessions -> Nat]
    BY <2>1, RevokeStep DEF Live
  <2>3. password' \in 0..MaxPasswords /\ codes' \in [Codes -> Code]
    BY <1>2 DEF ResetPassword, Inv, TypeOK, Code
  <2> QED
    BY <1>2, <2>2, <2>3
    DEF ResetPassword, SafeSessions, Inv, TypeOK, AttemptsLeft,
        SessionsKnowPassword, InactiveIsSignedOut
<1> QED
  BY <1>1, <1>2

LEMMA CleanupStep ==
  ASSUME Inv, NEW s \in Sessions, CleanupExpiredAuth(s)
  PROVE  Inv'
<1> USE AuthAssumption
<1>1. /\ Live' = Live \ {s}
      /\ sessions' \in [Sessions -> {"none", "live", "revoked", "deleted"}]
  BY DEF CleanupExpiredAuth, Live, Inv, TypeOK
<1>2. /\ tokens' \in [Tokens -> Token]
      /\ \A t \in Tokens : tokens'[t] = IF tokens[t].of = s
           THEN [of |-> NoSession, used |-> TRUE, revoked |-> TRUE] ELSE tokens[t]
  BY DEF CleanupExpiredAuth, TokensOf, Inv, TypeOK, Token
<1>3. \A u \in Sessions : Usable(u)' = IF u = s THEN {} ELSE Usable(u)
  BY <1>2 DEF Usable, TokensOf
<1>4. OneLiveSession'
  BY <1>1, <1>3 DEF OneLiveSession, Inv, Live
<1>5. RevokedIsAnnounced'
  BY DEF CleanupExpiredAuth, RevokedIsAnnounced, Inv, TypeOK
<1> QED
  BY <1>1, <1>2, <1>4, <1>5
  DEF CleanupExpiredAuth, userVars, Inv, TypeOK, AttemptsLeft,
      SessionsKnowPassword, InactiveIsSignedOut

\* The steps that touch no session: wrong passwords, codes, requests that
\* compare or give up, and time.
LEMMA OtherSteps ==
  ASSUME Inv,
         \/ \E r \in Calls : \/ SignInCompare(r) \/ SignInRefused(r) \/ ChangeFails(r)
                             \/ \E s \in Sessions : ChangeCompare(r, s)
         \/ SignInWrong \/ FailuresForgotten
         \/ \E s \in Sessions : ExpireSession(s)
         \/ \E c \in Codes :
              \/ WrongCode(c) \/ VerifyEmail(c) \/ ExpireCode(c)
              \/ \E kind \in Kinds : SendCode(c, kind)
  PROVE  Inv'
<1> USE AuthAssumption
<1>1. UNCHANGED <<sessions, tokens, announced, secret, password>>
  BY DEF SignInCompare, SignInRefused, ChangeFails, ChangeCompare, SignInWrong,
         FailuresForgotten, ExpireSession, WrongCode, VerifyEmail, ExpireCode,
         SendCode, userVars
<1>2. Live' = Live /\ SafeSessions'
  BY <1>1, SessionsUnchanged
<1>3. SessionsKnowPassword'
  BY <1>1, <1>2 DEF SessionsKnowPassword, Inv
<1>4. InactiveIsSignedOut' /\ AttemptsLeft' /\ TypeOK'
  <2>1. CASE \/ \E r \in Calls : \/ SignInCompare(r) \/ SignInRefused(r) \/ ChangeFails(r)
                                 \/ \E s \in Sessions : ChangeCompare(r, s)
    <3>1. calls' \in [Calls -> Call]
      BY <2>1
      DEF SignInCompare, SignInRefused, ChangeFails, ChangeCompare, Inv, TypeOK,
          Call, Idle
    <3> QED
      BY <2>1, <3>1, <1>2
      DEF SignInCompare, SignInRefused, ChangeFails, ChangeCompare, userVars, Inv,
          TypeOK, InactiveIsSignedOut, AttemptsLeft
  <2>2. CASE SignInWrong \/ FailuresForgotten
    <3>1. failures' \in 0..MaxFailures /\ blocked' \in BOOLEAN
          /\ (~blocked' => failures' < MaxFailures)
      <4>1. failures \in 0..MaxFailures /\ (~blocked => failures < MaxFailures)
        BY DEF Inv, TypeOK, AttemptsLeft
      <4>2. CASE SignInWrong
        <5>1. ~blocked /\ failures' = failures + 1
              /\ blocked' = (failures + 1 >= MaxFailures)
          BY <4>2 DEF SignInWrong
        <5>2. (failures + 1 >= MaxFailures) \in BOOLEAN
          BY SMT
        <5>3. blocked' \in BOOLEAN /\ (blocked' <=> failures + 1 >= MaxFailures)
          BY <5>1, <5>2, Zenon
        <5> QED
          BY <4>1, <5>1, <5>3
      <4>3. CASE FailuresForgotten
        <5>1. failures' = 0 /\ blocked' = FALSE
          BY <4>3 DEF FailuresForgotten
        <5>2. 0 \in 0..MaxFailures /\ 0 < MaxFailures
          OBVIOUS
        <5> QED
          BY <5>1, <5>2, Zenon
      <4> QED
        BY <2>2, <4>2, <4>3
    <3> QED
      BY <2>2, <3>1, <1>2
      DEF SignInWrong, FailuresForgotten, Inv, TypeOK, InactiveIsSignedOut, AttemptsLeft
  <2>3. CASE \E s \in Sessions : ExpireSession(s)
    BY <2>3, <1>2
    DEF ExpireSession, userVars, Inv, TypeOK, InactiveIsSignedOut, AttemptsLeft
  <2>4. ASSUME NEW c \in Codes,
               \/ WrongCode(c) \/ VerifyEmail(c) \/ ExpireCode(c)
               \/ \E kind \in Kinds : SendCode(c, kind)
        PROVE  InactiveIsSignedOut' /\ AttemptsLeft' /\ TypeOK'
    <3>1. codes' \in [Codes -> Code] /\ AttemptsLeft'
      <4>1. codes \in [Codes -> Code]
        BY DEF Inv, TypeOK
      <4>2. CASE WrongCode(c)
        <5>1. codes[c].wrong \in 0..MaxWrong
          BY <4>1 DEF Code
        <5>2. codes[c].wrong < MaxWrong
          BY <4>2 DEF WrongCode, Inv, AttemptsLeft
        <5> QED
          BY <4>1, <4>2, <5>1, <5>2
          DEF WrongCode, userVars, Code, Inv, AttemptsLeft
      <4>3. CASE VerifyEmail(c) \/ ExpireCode(c)
        BY <4>1, <4>3 DEF VerifyEmail, ExpireCode, userVars, Code, Inv, AttemptsLeft
      <4>4. CASE \E kind \in Kinds : SendCode(c, kind)
        BY <4>1, <4>4 DEF SendCode, Sent, IsOpen, userVars, Code, Inv, AttemptsLeft
      <4> QED
        BY <2>4, <4>2, <4>3, <4>4
    <3>2. /\ status' \in Statuses /\ (status' = status \/ status' = "active")
          /\ UNCHANGED <<failures, blocked, expired, calls>>
      BY <2>4
      DEF WrongCode, VerifyEmail, ExpireCode, SendCode, userVars, Inv, TypeOK, Statuses
    <3> QED
      <4>1. InactiveIsSignedOut'
        BY <1>2, <3>2 DEF Inv, InactiveIsSignedOut
      <4>2. TypeOK'
        BY <1>1, <3>1, <3>2 DEF Inv, TypeOK
      <4> QED
        BY <3>1, <4>1, <4>2
  <2>5. CASE \E c \in Codes : \/ WrongCode(c) \/ VerifyEmail(c) \/ ExpireCode(c)
                              \/ \E kind \in Kinds : SendCode(c, kind)
    BY <2>4, <2>5
  <2> QED
    BY <2>1, <2>2, <2>3, <2>5
<1> QED
  BY <1>2, <1>3, <1>4 DEF Inv, SafeSessions

LEMMA NextInv == Inv /\ [Next]_vars => Inv'
<1> SUFFICES ASSUME Inv, [Next]_vars
             PROVE  Inv'
  OBVIOUS
<1>1. CASE UNCHANGED vars
  BY <1>1
  DEF vars, Inv, TypeOK, AttemptsLeft, OneLiveSession, SessionsKnowPassword,
      InactiveIsSignedOut, RevokedIsAnnounced, Live, Usable, TokensOf
<1>2. CASE Next
  BY <1>2, CreateSessionStep, RotateStep, EndingSteps, PasswordSteps, CleanupStep,
     OtherSteps
  DEF Next
<1> QED
  BY <1>1, <1>2

THEOREM Invariance == Spec => []Inv
<1> QED
  BY InitInv, NextInv, PTL DEF Spec

-----------------------------------------------------------------------------
\* Every reachable state has the declared types.
THEOREM SessionTypes == Spec => []TypeOK
<1>1. Inv => TypeOK
  BY DEF Inv
<1> QED
  BY <1>1, Invariance, PTL

\* A user has at most one live session, with one usable refresh token, whatever
\* tokens its clients present again and whatever is revoked meanwhile.
THEOREM OneSession == Spec => []OneLiveSession
<1>1. Inv => OneLiveSession
  BY DEF Inv
<1> QED
  BY <1>1, Invariance, PTL

\* No session outlives the password it was signed in with, though a sign-in and
\* a change compare a hash they read before their transaction.
THEOREM PasswordEndsSessions == Spec => []SessionsKnowPassword
<1>1. Inv => SessionsKnowPassword
  BY DEF Inv
<1> QED
  BY <1>1, Invariance, PTL

\* An account that is not active has no live session.
THEOREM SuspendedIsOut == Spec => []InactiveIsSignedOut
<1>1. Inv => InactiveIsSignedOut
  BY DEF Inv
<1> QED
  BY <1>1, Invariance, PTL

\* Every revoked session has been announced to the event streams exactly once.
THEOREM AnnouncedOnce == Spec => []RevokedIsAnnounced
<1>1. Inv => RevokedIsAnnounced
  BY DEF Inv
<1> QED
  BY <1>1, Invariance, PTL

-----------------------------------------------------------------------------
(* The event streams of a user. *)

\* What a client has been written, or will be.
Held(s) == got[s] \cup {buf[s][k] : k \in DOMAIN buf[s]}

\* A control names the session of its stream.
Consistent(n) == n \in Note /\ (n.kind = "replace" => n.sid = sidOf[n.stream])

LogIsTrue ==
  /\ \A p \in Procs : pos[p] <= Len(log)
  /\ \A i \in DOMAIN log : Consistent(log[i])

OffHasNone == \A p \in Procs : listener[p] = "off" => Active(p) = {}

\* An admitted stream's control is the last one of its session so far.
LastCommitted ==
  \A p \in Procs : \A s \in Active(p) : \E c \in Commit(s) :
    /\ c <= pos[p]
    /\ \A j \in c + 1 .. pos[p] : log[j].kind = "replace" => log[j].sid # sidOf[s]

HoldsEvents ==
  \A p \in Procs : \A s \in Active(p), i \in Invalidates :
    i <= pos[p] /\ (\E c \in Commit(s) : c < i) => i \in Held(s)

CommittedLater ==
  \A p \in Procs : \A s \in Active(p) : \A i \in Ended(sidOf[s]) :
    i <= pos[p] => \E c \in Commit(s) : i < c

StreamInv ==
  /\ StreamTypeOK
  /\ LogIsTrue
  /\ OffHasNone
  /\ LastCommitted
  /\ HoldsEvents
  /\ CommittedLater
  /\ LatestNotReplaced

LEMMA StreamInitInv == StreamInit => StreamInv
<1> SUFFICES ASSUME StreamInit PROVE StreamInv
  OBVIOUS
<1>1. \A p \in Procs : Active(p) = {}
  BY DEF StreamInit, Active, InHub
<1>2. Len(log) = 0 /\ \A s \in Streams : Len(buf[s]) = 0
  BY DEF StreamInit
<1>3. StreamTypeOK
  BY <1>2, StreamAssumption DEF StreamInit, StreamTypeOK, ListenerStates, Phases
<1>4. LogIsTrue
  BY <1>2 DEF StreamInit, LogIsTrue
<1> QED
  BY <1>1, <1>3, <1>4 DEF StreamInit, StreamInv, OffHasNone, LastCommitted, HoldsEvents,
     CommittedLater, LatestNotReplaced

\* The log grows by notifications of some kind.
LogGrows == log' = log \/ \E n \in Note : Consistent(n) /\ log' = Append(log, n)

LEMMA GrownLog ==
  ASSUME StreamInv, LogGrows, UNCHANGED sidOf
  PROVE  /\ log' \in Seq(Note)
         /\ \A p \in Procs : pos[p] <= Len(log')
         /\ \A i \in DOMAIN log' : Consistent(log'[i])
         /\ \A i \in DOMAIN log : i \in DOMAIN log' /\ log'[i] = log[i]
         /\ \A i \in DOMAIN log' : i \in Nat /\ (i <= Len(log) => i \in DOMAIN log)
         /\ Len(log) \in Nat
<1>1. log \in Seq(Note) /\ pos \in [Procs -> Nat]
  BY DEF StreamInv, StreamTypeOK
<1>2. Len(log) \in Nat /\ DOMAIN log = 1..Len(log)
  BY <1>1
<1>3. CASE log' = log
  BY <1>1, <1>2, <1>3 DEF StreamInv, LogIsTrue
<1>4. ASSUME NEW n \in Note, Consistent(n), log' = Append(log, n)
      PROVE  /\ log' \in Seq(Note)
             /\ Len(log') = Len(log) + 1 /\ DOMAIN log' = 1..(Len(log) + 1)
             /\ log'[Len(log) + 1] = n
             /\ \A i \in 1..Len(log) : log'[i] = log[i]
  BY <1>1, <1>4
<1>5. CASE \E n \in Note : Consistent(n) /\ log' = Append(log, n)
  <2>1. PICK n \in Note : Consistent(n) /\ log' = Append(log, n)
    BY <1>5
  <2>2. /\ log' \in Seq(Note)
        /\ Len(log') = Len(log) + 1 /\ DOMAIN log' = 1..(Len(log) + 1)
        /\ log'[Len(log) + 1] = n
        /\ \A i \in 1..Len(log) : log'[i] = log[i]
    BY <1>4, <2>1
  <2>3. ASSUME NEW i \in DOMAIN log' PROVE Consistent(log'[i])
    <3>1. CASE i = Len(log) + 1
      BY <2>1, <2>2, <3>1
    <3>2. CASE i # Len(log) + 1
      BY <1>2, <2>2, <3>2 DEF StreamInv, LogIsTrue
    <3> QED
      BY <3>1, <3>2
  <2>4. \A p \in Procs : pos[p] <= Len(log')
    BY <1>1, <1>2, <2>2 DEF StreamInv, LogIsTrue
  <2> QED
    BY <1>2, <2>2, <2>3, <2>4
<1> QED
  BY <1>3, <1>5 DEF LogGrows

\* A step that moves no listener on, and admits nobody.
LEMMA QuietStep ==
  ASSUME StreamInv, StreamTypeOK', LogGrows, UNCHANGED <<pos, at, sidOf, replaced>>,
         \A p \in Procs : listener'[p] = "off" => listener[p] = "off" \/ Active(p)' = {},
         \A s \in Streams : hub'[s] = "active" =>
           hub[s] = "active" /\ Held(s) \subseteq Held(s)'
  PROVE  StreamInv'
<1>1. /\ log' \in Seq(Note)
      /\ \A p \in Procs : pos[p] <= Len(log')
      /\ \A i \in DOMAIN log' : Consistent(log'[i])
      /\ \A i \in DOMAIN log : i \in DOMAIN log' /\ log'[i] = log[i]
      /\ \A i \in DOMAIN log' : i \in Nat /\ (i <= Len(log) => i \in DOMAIN log)
      /\ Len(log) \in Nat
  BY GrownLog
<1>2. \A p \in Procs : pos[p] \in Nat /\ pos[p] <= Len(log)
  BY DEF StreamInv, StreamTypeOK, LogIsTrue
<1>3. ASSUME NEW p \in Procs, NEW s \in Active(p)'
      PROVE  s \in Streams /\ s \in Active(p) /\ Held(s) \subseteq Held(s)'
  BY <1>3 DEF Active, InHub
<1>4. LogIsTrue'
  BY <1>1 DEF LogIsTrue, Consistent
<1>5. OffHasNone'
  BY <1>3 DEF OffHasNone, StreamInv
<1>6. ASSUME NEW s \in Streams PROVE Commit(s) \subseteq Commit(s)'
  BY <1>1 DEF Commit
<1>7. ASSUME NEW s \in Streams, NEW c \in Commit(s)', c <= Len(log) PROVE c \in Commit(s)
  BY <1>1, <1>7 DEF Commit
<1>8. LastCommitted'
  <2> SUFFICES ASSUME NEW p \in Procs, NEW s \in Active(p)'
               PROVE  \E c \in Commit(s)' :
                 /\ c <= pos[p]
                 /\ \A j \in c + 1 .. pos[p] :
                      log'[j].kind = "replace" => log'[j].sid # sidOf[s]
    BY DEF LastCommitted
  <2>1. s \in Streams /\ s \in Active(p)
    BY <1>3
  <2>2. PICK c \in Commit(s) :
          /\ c <= pos[p]
          /\ \A j \in c + 1 .. pos[p] : log[j].kind = "replace" => log[j].sid # sidOf[s]
    BY <2>1 DEF StreamInv, LastCommitted
  <2>3. c \in Nat /\ c \in Commit(s)'
    BY <1>1, <1>6, <2>1, <2>2 DEF Commit
  <2>4. \A j \in c + 1 .. pos[p] : j \in DOMAIN log
    BY <1>1, <1>2, <2>3 DEF StreamInv, StreamTypeOK
  <2> QED
    BY <1>1, <2>2, <2>3, <2>4
<1>9. HoldsEvents'
  <2> SUFFICES ASSUME NEW p \in Procs, NEW s \in Active(p)', NEW i \in Invalidates',
                      i <= pos[p], NEW c \in Commit(s)', c < i
               PROVE  i \in Held(s)'
    BY DEF HoldsEvents
  <2>1. s \in Streams /\ s \in Active(p) /\ Held(s) \subseteq Held(s)'
    BY <1>3
  <2>2. i \in Nat /\ c \in Nat
    BY <1>1 DEF Invalidates, Commit
  <2>3. i \in Invalidates
    BY <1>1, <1>2, <2>2 DEF Invalidates
  <2>4. c \in Commit(s)
    BY <1>1, <1>2, <1>7, <2>1, <2>2
  <2> QED
    BY <2>1, <2>3, <2>4 DEF StreamInv, HoldsEvents
<1>10. CommittedLater'
  <2> SUFFICES ASSUME NEW p \in Procs, NEW s \in Active(p)', NEW i \in Ended(sidOf[s])',
                      i <= pos[p]
               PROVE  \E c \in Commit(s)' : i < c
    BY DEF CommittedLater
  <2>1. s \in Streams /\ s \in Active(p)
    BY <1>3
  <2>2. i \in Nat
    BY <1>1 DEF Ended
  <2>3. i \in Ended(sidOf[s])
    BY <1>1, <1>2, <2>2 DEF Ended
  <2>4. PICK c \in Commit(s) : i < c
    BY <2>1, <2>3 DEF StreamInv, CommittedLater
  <2> QED
    BY <1>6, <2>1, <2>4
<1>11. LatestNotReplaced'
  <2> SUFFICES ASSUME NEW s \in replaced
               PROVE  \E t \in Streams \ {s} :
                 /\ sidOf[t] = sidOf[s]
                 /\ \E i \in Commit(s)', j \in Commit(t)' : i < j
    BY DEF LatestNotReplaced
  <2>1. s \in Streams
    BY DEF StreamInv, StreamTypeOK
  <2>2. PICK t \in Streams \ {s} :
          sidOf[t] = sidOf[s] /\ \E i \in Commit(s), j \in Commit(t) : i < j
    BY DEF StreamInv, LatestNotReplaced
  <2> QED
    BY <1>6, <2>1, <2>2
<1> QED
  BY <1>4, <1>5, <1>8, <1>9, <1>10, <1>11 DEF StreamInv

\* The end of a handler.
LEMMA LeaveFacts ==
  ASSUME StreamTypeOK, NEW s \in Streams, Leave(s)
  PROVE  /\ hub' \in [Streams -> {"none", "paused", "active"}]
         /\ buf' \in [Streams -> Seq(Nat)] /\ \A t \in Streams : Len(buf'[t]) <= Buffer
         /\ phase' \in [Streams -> Phases]
         /\ UNCHANGED replaced
         /\ \A t \in Streams : hub'[t] = "active" => hub[t] = "active" /\ buf'[t] = buf[t]
<1>1. /\ hub' = [hub EXCEPT ![s] = "none"] /\ buf' = [buf EXCEPT ![s] = <<>>]
      /\ phase' = [phase EXCEPT ![s] = "over"] /\ UNCHANGED replaced
  BY DEF Leave, Goto
<1>2. <<>> \in Seq(Nat) /\ Len(<<>>) = 0 /\ "over" \in Phases
  BY DEF Phases
<1>3. /\ hub \in [Streams -> {"none", "paused", "active"}] /\ phase \in [Streams -> Phases]
      /\ buf \in [Streams -> Seq(Nat)] /\ \A t \in Streams : Len(buf[t]) <= Buffer
  BY DEF StreamTypeOK
<1>4. \A t \in Streams : Len(buf'[t]) <= Buffer
  BY <1>1, <1>2, <1>3, StreamAssumption
<1> QED
  BY <1>1, <1>2, <1>3, <1>4

\* A step of a handler, that commits no control.
LEMMA HandlerKeeps ==
  ASSUME StreamInv, NEW s \in Streams,
         Validate(s) \/ CheckListener(s) \/ RegisterPaused(s) \/ Admit(s)
           \/ NotAdmitted(s) \/ WriteFrame(s) \/ ChannelClosed(s) \/ EndResponse(s)
  PROVE  StreamInv'
<1> DEFINE Goal ==
      /\ StreamTypeOK' /\ UNCHANGED <<log, pos, listener, at, sidOf, replaced>>
      /\ \A t \in Streams : hub'[t] = "active" =>
           hub[t] = "active" /\ Held(t) \subseteq Held(t)'
<1>1. StreamTypeOK
  BY DEF StreamInv
<1>2. ASSUME NEW ph \in Phases, Goto(s, ph) PROVE phase' \in [Streams -> Phases]
  BY <1>1, <1>2 DEF Goto, StreamTypeOK
<1>3. {"over", "validated", "checked", "registered", "waiting", "open"} \subseteq Phases
  BY DEF Phases
<1>4. ASSUME Validate(s) \/ CheckListener(s) \/ Admit(s) PROVE Goal
  <2>1. /\ phase' \in [Streams -> Phases]
        /\ UNCHANGED <<live, log, pos, listener, at, sidOf, hub, buf, replaced, got, resets>>
    BY <1>2, <1>3, <1>4 DEF Validate, CheckListener, Admit, hubVars
  <2> QED
    BY <1>1, <2>1 DEF StreamTypeOK, Held
<1>5. ASSUME RegisterPaused(s) PROVE Goal
  <2>1. /\ phase' \in [Streams -> Phases] /\ hub' = [hub EXCEPT ![s] = "paused"]
        /\ UNCHANGED <<live, log, pos, listener, at, sidOf, buf, replaced, got, resets>>
    BY <1>2, <1>3, <1>5 DEF RegisterPaused
  <2> QED
    BY <1>1, <2>1 DEF StreamTypeOK, Held
<1>6. ASSUME Leave(s),
             UNCHANGED <<live, log, pos, listener, at, sidOf, got, resets>>
      PROVE  Goal
  BY <1>1, <1>6, LeaveFacts DEF StreamTypeOK, Held
<1>7. ASSUME NotAdmitted(s) \/ ChannelClosed(s) \/ EndResponse(s) PROVE Goal
  BY <1>6, <1>7 DEF NotAdmitted, ChannelClosed, EndResponse
<1>8. ASSUME WriteFrame(s) PROVE Goal
  <2>1. CASE Head(buf[s]) = Close
    BY <1>6, <1>8, <2>1 DEF WriteFrame
  <2>2. CASE Head(buf[s]) # Close
    <3> DEFINE q == buf[s]
    <3>1. /\ q # <<>>
          /\ got' = [got EXCEPT ![s] = @ \cup {Head(q)}]
          /\ buf' = [buf EXCEPT ![s] = Tail(q)]
          /\ UNCHANGED <<live, log, pos, listener, phase, at, sidOf, hub, replaced, resets>>
      BY <1>8, <2>2 DEF WriteFrame
    <3>2. q \in Seq(Nat) /\ Len(q) <= Buffer /\ Buffer \in Nat
      BY <1>1, StreamAssumption DEF StreamTypeOK
    <3> HIDE DEF q
    <3>3. /\ Head(q) \in Nat /\ Tail(q) \in Seq(Nat) /\ Len(Tail(q)) <= Buffer
          /\ Head(q) = q[1]
      BY <3>1, <3>2
    <3>4. \A k \in DOMAIN q : k # 1 =>
            k - 1 \in DOMAIN Tail(q) /\ Tail(q)[k - 1] = q[k]
      <4>1. /\ Len(q) \in Nat /\ DOMAIN q = 1..Len(q) /\ DOMAIN Tail(q) = 1..(Len(q) - 1)
            /\ \A j \in 1..(Len(q) - 1) : Tail(q)[j] = q[j + 1]
        BY <3>1, <3>2
      <4>2. \A k \in DOMAIN q : k # 1 => k - 1 \in 1..(Len(q) - 1) /\ (k - 1) + 1 = k
        BY <4>1
      <4> QED
        BY <4>1, <4>2
    <3>5. /\ got \in [Streams -> SUBSET Nat] /\ buf \in [Streams -> Seq(Nat)]
          /\ \A t \in Streams : Len(buf[t]) <= Buffer
      BY <1>1 DEF StreamTypeOK
    <3>6. /\ got' \in [Streams -> SUBSET Nat] /\ buf' \in [Streams -> Seq(Nat)]
          /\ \A t \in Streams : Len(buf'[t]) <= Buffer
      BY <3>1, <3>3, <3>5
    <3>7. StreamTypeOK'
      BY <1>1, <3>1, <3>6 DEF StreamTypeOK
    <3>8. ASSUME NEW t \in Streams PROVE Held(t) \subseteq Held(t)'
      <4>1. CASE t # s
        BY <3>1, <3>5, <4>1 DEF Held
      <4>2. CASE t = s
        <5>1. got'[s] = got[s] \cup {q[1]} /\ buf'[s] = Tail(q)
          BY <3>1, <3>3, <3>5
        <5>2. ASSUME NEW k \in DOMAIN q
              PROVE  q[k] \in got'[s] \cup {Tail(q)[j] : j \in DOMAIN Tail(q)}
          <6>1. CASE k = 1
            BY <5>1, <6>1
          <6>2. CASE k # 1
            <7>1. k - 1 \in DOMAIN Tail(q) /\ q[k] = Tail(q)[k - 1]
              BY <3>4, <6>2
            <7> QED
              BY <7>1
          <6> QED
            BY <6>1, <6>2
        <5> QED
          BY <4>2, <5>1, <5>2 DEF Held, q
      <4> QED
        BY <4>1, <4>2
    <3> QED
      BY <3>1, <3>7, <3>8
  <2> QED
    BY <2>1, <2>2
<1>9. Goal
  BY <1>4, <1>5, <1>7, <1>8
<1>10. LogGrows
  BY <1>9 DEF LogGrows
<1> QED
  BY <1>9, <1>10, QuietStep

\* A step that commits a notification.
LEMMA CommitKeeps ==
  ASSUME StreamInv,
         \/ \E s \in Streams : PublishReplace(s) \/ PublishFails(s)
         \/ \E sid \in Sids : EndSession(sid)
         \/ Invalidate
  PROVE  StreamInv'
<1>1. StreamTypeOK
  BY DEF StreamInv
<1>2. ASSUME NEW s \in Streams PROVE Consistent(ReplaceNote(sidOf[s], s))
  BY <1>1 DEF StreamTypeOK, Consistent, ReplaceNote, Note
<1>3. ASSUME NEW sid \in Sids PROVE Consistent(EndedNote(sid))
  BY DEF Consistent, EndedNote, Note
<1>4. Consistent(InvalidateNote)
  BY DEF Consistent, InvalidateNote, Note
<1>5. ASSUME LogGrows, UNCHANGED sidOf PROVE log' \in Seq(Note)
  BY <1>5, GrownLog
<1>6. ASSUME NEW s \in Streams, PublishReplace(s) PROVE StreamInv'
  <2>1. LogGrows
    BY <1>2, <1>6 DEF PublishReplace, LogGrows, Consistent
  <2>2. /\ phase' = [phase EXCEPT ![s] = "waiting"]
        /\ UNCHANGED <<live, pos, listener, at, sidOf, hub, buf, replaced, got, resets>>
    BY <1>6 DEF PublishReplace, Goto, hubVars
  <2>3. phase' \in [Streams -> Phases]
    BY <1>1, <2>2 DEF StreamTypeOK, Phases
  <2>4. StreamTypeOK'
    BY <1>1, <1>5, <2>1, <2>2, <2>3 DEF StreamTypeOK
  <2> QED
    BY <2>1, <2>2, <2>4, QuietStep DEF Held
<1>7. ASSUME NEW s \in Streams, PublishFails(s) PROVE StreamInv'
  <2>1. LogGrows
    BY <1>2, <1>7 DEF PublishFails, LogGrows, Consistent
  <2>2. Leave(s) /\ UNCHANGED <<live, pos, listener, at, sidOf, got, resets>>
    BY <1>7 DEF PublishFails
  <2>3. StreamTypeOK'
    BY <1>1, <1>5, <2>1, <2>2, LeaveFacts DEF StreamTypeOK
  <2>4. \A t \in Streams : hub'[t] = "active" =>
          hub[t] = "active" /\ Held(t) \subseteq Held(t)'
    BY <1>1, <2>2, LeaveFacts DEF Held
  <2>5. UNCHANGED replaced
    BY <2>2 DEF Leave
  <2> QED
    BY <2>1, <2>2, <2>3, <2>4, <2>5, QuietStep
<1>8. ASSUME NEW sid \in Sids, EndSession(sid) PROVE StreamInv'
  <2>1. LogGrows
    BY <1>3, <1>8 DEF EndSession, LogGrows, Consistent
  <2>2. /\ live' = live \ {sid}
        /\ UNCHANGED <<pos, listener, phase, at, sidOf, hub, buf, replaced, got, resets>>
    BY <1>8 DEF EndSession, hubVars
  <2>3. StreamTypeOK'
    BY <1>1, <1>5, <2>1, <2>2 DEF StreamTypeOK
  <2> QED
    BY <2>1, <2>2, <2>3, QuietStep DEF Held
<1>9. ASSUME Invalidate PROVE StreamInv'
  <2>1. LogGrows
    BY <1>4, <1>9 DEF Invalidate, LogGrows, Consistent
  <2>2. UNCHANGED <<live, pos, listener, phase, at, sidOf, hub, buf, replaced, got, resets>>
    BY <1>9 DEF Invalidate, hubVars
  <2>3. StreamTypeOK'
    BY <1>1, <1>5, <2>1, <2>2 DEF StreamTypeOK
  <2> QED
    BY <2>1, <2>2, <2>3, QuietStep DEF Held
<1> QED
  BY <1>6, <1>7, <1>8, <1>9

\* Streams that are closed leave the hub; the others keep what they have.
LEMMA ClosedFacts ==
  ASSUME StreamTypeOK, NEW S
  PROVE  /\ Detached(S) \in [Streams -> {"none", "paused", "active"}]
         /\ Closed(S, buf) \in [Streams -> Seq(Nat)]
         /\ \A s \in Streams : Len(Closed(S, buf)[s]) <= Buffer
         /\ \A s \in Streams : s \notin S =>
              Detached(S)[s] = hub[s] /\ Closed(S, buf)[s] = buf[s]
         /\ \A s \in Streams : s \in S => Detached(S)[s] = "none"
<1>1. /\ hub \in [Streams -> {"none", "paused", "active"}]
      /\ buf \in [Streams -> Seq(Nat)] /\ \A s \in Streams : Len(buf[s]) <= Buffer
      /\ Buffer \in Nat
  BY StreamAssumption DEF StreamTypeOK
<1>2. ASSUME NEW q \in Seq(Nat), Len(q) < Buffer
      PROVE  Append(q, Close) \in Seq(Nat) /\ Len(Append(q, Close)) <= Buffer
  BY <1>1, <1>2 DEF Close
<1>3. ASSUME NEW s \in Streams
      PROVE  /\ Closed(S, buf)[s] \in Seq(Nat) /\ Len(Closed(S, buf)[s]) <= Buffer
             /\ s \notin S => Closed(S, buf)[s] = buf[s]
  <2>1. Closed(S, buf)[s] = IF s \in S /\ Len(buf[s]) < Buffer
                            THEN Append(buf[s], Close) ELSE buf[s]
    BY DEF Closed
  <2> QED
    BY <1>1, <1>2, <2>1
<1>4. Closed(S, buf) = [s \in Streams |-> Closed(S, buf)[s]]
  BY DEF Closed
<1>5. Closed(S, buf) \in [Streams -> Seq(Nat)]
  BY <1>3, <1>4
<1>6. /\ Detached(S) \in [Streams -> {"none", "paused", "active"}]
      /\ \A s \in Streams : Detached(S)[s] = IF s \in S THEN "none" ELSE hub[s]
  BY <1>1 DEF Detached
<1> QED
  BY <1>3, <1>5, <1>6

\* The listener loses its session, sees it and closes the streams it has.
LEMMA LossKeeps ==
  ASSUME StreamInv, NEW p \in Procs, LoseSession(p) \/ NoticeLoss(p) \/ Disconnect(p)
  PROVE  StreamInv'
<1>1. StreamTypeOK /\ listener \in [Procs -> ListenerStates]
  BY DEF StreamInv, StreamTypeOK
<1>2. {"lost", "noticed", "off"} \subseteq ListenerStates
  BY DEF ListenerStates
<1>3. CASE LoseSession(p) \/ NoticeLoss(p)
  <2>1. PICK new \in {"lost", "noticed"} : listener' = [listener EXCEPT ![p] = new]
    BY <1>3 DEF LoseSession, NoticeLoss
  <2>2. /\ resets' \in Nat
        /\ UNCHANGED <<live, log, pos, phase, at, sidOf, hub, buf, replaced, got>>
    BY <1>1, <1>3 DEF LoseSession, NoticeLoss, hubVars, StreamTypeOK
  <2>3. /\ listener' \in [Procs -> ListenerStates]
        /\ \A q \in Procs : listener'[q] = "off" => listener[q] = "off"
    BY <1>1, <1>2, <2>1
  <2>4. StreamTypeOK'
    BY <1>1, <2>2, <2>3 DEF StreamTypeOK
  <2> QED
    BY <2>2, <2>3, <2>4, QuietStep DEF LogGrows, Held
<1>4. CASE Disconnect(p)
  <2>1. /\ listener' = [listener EXCEPT ![p] = "off"]
        /\ hub' = Detached(InHub(p)) /\ buf' = Closed(InHub(p), buf)
        /\ UNCHANGED <<live, log, pos, phase, at, sidOf, replaced, got, resets>>
    BY <1>4 DEF Disconnect, CloseSubscribers
  <2>2. /\ listener' \in [Procs -> ListenerStates]
        /\ \A q \in Procs : listener'[q] = "off" => listener[q] = "off" \/ q = p
    BY <1>1, <1>2, <2>1
  <2>3. StreamTypeOK'
    BY <1>1, <2>1, <2>2, ClosedFacts DEF StreamTypeOK
  <2>4. \A t \in Streams : hub'[t] = "active" =>
          t \notin InHub(p) /\ hub[t] = "active" /\ Held(t) \subseteq Held(t)'
    BY <1>1, <2>1, ClosedFacts DEF Held
  <2>5. Active(p)' = {}
    <3> SUFFICES ASSUME NEW t \in Active(p)' PROVE FALSE
      OBVIOUS
    <3>1. t \in Streams /\ at[t] = p /\ hub'[t] = "active"
      BY <2>1 DEF Active, InHub
    <3>2. hub[t] = "active" /\ t \notin InHub(p)
      BY <2>4, <3>1
    <3> QED
      BY <3>1, <3>2 DEF InHub
  <2> QED
    BY <2>1, <2>2, <2>3, <2>4, <2>5, QuietStep DEF LogGrows
<1> QED
  BY <1>3, <1>4

\* The listener starts where the log ends.
LEMMA ListenKeeps ==
  ASSUME StreamInv, NEW p \in Procs, Listen(p)
  PROVE  StreamInv'
<1>1. /\ listener[p] = "off" /\ listener' = [listener EXCEPT ![p] = "on"]
      /\ pos' = [pos EXCEPT ![p] = Len(log)]
      /\ UNCHANGED <<live, log, phase, at, sidOf, hub, buf, replaced, got, resets>>
  BY DEF Listen, hubVars
<1>2. /\ StreamTypeOK /\ listener \in [Procs -> ListenerStates] /\ pos \in [Procs -> Nat]
      /\ Len(log) \in Nat
  BY DEF StreamInv, StreamTypeOK
<1>3. /\ listener' \in [Procs -> ListenerStates] /\ pos' \in [Procs -> Nat]
      /\ \A q \in Procs : listener'[q] = "off" => listener[q] = "off"
      /\ \A q \in Procs : q # p => pos'[q] = pos[q]
      /\ pos'[p] = Len(log)
  BY <1>1, <1>2 DEF ListenerStates
<1>4. StreamTypeOK'
  BY <1>1, <1>2, <1>3 DEF StreamTypeOK
<1>5. \A q \in Procs : Active(q)' = Active(q)
  BY <1>1 DEF Active, InHub
<1>6. Active(p) = {}
  BY <1>1 DEF StreamInv, OffHasNone
<1>7. LogIsTrue'
  <2>1. \A q \in Procs : pos'[q] <= Len(log)
    BY <1>2, <1>3 DEF StreamInv, LogIsTrue
  <2> QED
    BY <1>1, <2>1 DEF StreamInv, LogIsTrue, Consistent
<1>8. OffHasNone'
  BY <1>3, <1>5 DEF StreamInv, OffHasNone
<1>9. ASSUME NEW q \in Procs, NEW s \in Active(q)' PROVE s \in Active(q) /\ pos'[q] = pos[q]
  BY <1>3, <1>5, <1>6, <1>9
<1>10. LastCommitted'
  BY <1>1, <1>9 DEF StreamInv, LastCommitted, Commit
<1>11. HoldsEvents'
  BY <1>1, <1>9 DEF StreamInv, HoldsEvents, Commit, Invalidates, Held
<1>12. CommittedLater'
  BY <1>1, <1>9 DEF StreamInv, CommittedLater, Commit, Ended
<1>13. LatestNotReplaced'
  BY <1>1 DEF StreamInv, LatestNotReplaced, Commit
<1> QED
  BY <1>4, <1>7, <1>8, <1>10, <1>11, <1>12, <1>13 DEF StreamInv

\* A stream commits its control once, when it has been registered.
OneControl ==
  \A s \in Streams :
    /\ phase[s] \in {"new", "validated", "checked", "registered"} => Commit(s) = {}
    /\ \A c, d \in Commit(s) : c = d

LEMMA OneControlStep ==
  ASSUME StreamInv, OneControl, [StreamNext]_streamVars
  PROVE  OneControl'
<1> DEFINE Early == {"new", "validated", "checked", "registered"}
<1>1. /\ phase \in [Streams -> Phases] /\ log \in Seq(Note)
      /\ Len(log) \in Nat /\ DOMAIN log = 1..Len(log)
  BY DEF StreamInv, StreamTypeOK
<1>2. ASSUME NEW n \in Note, NEW s \in Streams, log' = Append(log, n)
      PROVE  /\ Commit(s)' \subseteq Commit(s) \cup {Len(log) + 1}
             /\ ~ (n.kind = "replace" /\ n.stream = s) => Commit(s)' = Commit(s)
  <2>1. /\ DOMAIN log' = 1..(Len(log) + 1) /\ log'[Len(log) + 1] = n
        /\ \A i \in 1..Len(log) : log'[i] = log[i]
    BY <1>1, <1>2
  <2>2. \A i \in 1..(Len(log) + 1) : i \in 1..Len(log) \/ i = Len(log) + 1
    BY <1>1
  <2> QED
    BY <1>1, <2>1, <2>2 DEF Commit
<1>3. ASSUME UNCHANGED log, \A s \in Streams : phase'[s] \in Early => phase[s] \in Early
      PROVE  OneControl'
  BY <1>3 DEF OneControl, Commit
<1>4. ASSUME NEW s \in Streams,
             \/ PublishReplace(s) \/ PublishFails(s)
      PROVE  OneControl'
  <2>1. /\ phase[s] = "registered" /\ phase' = [phase EXCEPT ![s] = IF PublishReplace(s)
                                                     THEN "waiting" ELSE "over"]
        /\ log' \in {log, Append(log, ReplaceNote(sidOf[s], s))}
    BY <1>4 DEF PublishReplace, PublishFails, Goto, Leave
  <2>2. ReplaceNote(sidOf[s], s) \in Note /\ ReplaceNote(sidOf[s], s).stream = s
    BY DEF StreamInv, StreamTypeOK, ReplaceNote, Note
  <2>3. \A t \in Streams : t # s => phase'[t] = phase[t]
    BY <1>1, <2>1
  <2>4. phase'[s] \notin Early
    BY <1>1, <2>1
  <2>5. Commit(s) = {}
    BY <2>1 DEF OneControl
  <2>6. CASE log' = log
    BY <1>3, <2>3, <2>4, <2>6
  <2>7. CASE log' = Append(log, ReplaceNote(sidOf[s], s))
    <3>1. Commit(s)' \subseteq {Len(log) + 1}
      BY <1>2, <2>2, <2>5, <2>7
    <3>2. \A t \in Streams : t # s => Commit(t)' = Commit(t)
      BY <1>2, <2>2, <2>7
    <3> QED
      BY <2>3, <2>4, <3>1, <3>2 DEF OneControl
  <2> QED
    BY <2>1, <2>6, <2>7
<1>5. ASSUME NEW n \in Note, n.kind # "replace", log' = Append(log, n), UNCHANGED phase
      PROVE  OneControl'
  <2>1. \A s \in Streams : Commit(s)' = Commit(s)
    BY <1>2, <1>5
  <2> QED
    BY <1>5, <2>1 DEF OneControl
<1>6. ASSUME NEW sid \in Sids, EndSession(sid) PROVE OneControl'
  <2>1. EndedNote(sid) \in Note /\ EndedNote(sid).kind # "replace"
    BY DEF EndedNote, Note
  <2> QED
    BY <1>5, <1>6, <2>1 DEF EndSession
<1>7. ASSUME Invalidate PROVE OneControl'
  <2>1. InvalidateNote \in Note /\ InvalidateNote.kind # "replace"
    BY DEF InvalidateNote, Note
  <2> QED
    BY <1>5, <1>7, <2>1 DEF Invalidate
<1>8. ASSUME NEW s \in Streams, NEW ph \in {"over", "validated", "checked", "registered",
                                            "waiting", "open"},
             phase[s] \in Early \/ ph \notin Early, Goto(s, ph)
      PROVE  \A t \in Streams : phase'[t] \in Early => phase[t] \in Early
  BY <1>1, <1>8 DEF Goto
<1>9. ASSUME NEW s \in Streams,
             Validate(s) \/ CheckListener(s) \/ RegisterPaused(s)
      PROVE  OneControl'
  <2>1. /\ phase[s] \in Early /\ UNCHANGED log
        /\ \E ph \in {"over", "validated", "checked", "registered", "waiting", "open"} :
             Goto(s, ph)
    BY <1>9 DEF Validate, CheckListener, RegisterPaused
  <2> QED
    BY <1>3, <1>8, <2>1
<1>10. ASSUME NEW s \in Streams,
              Admit(s) \/ NotAdmitted(s) \/ WriteFrame(s) \/ ChannelClosed(s) \/ EndResponse(s)
       PROVE  OneControl'
  <2>1. UNCHANGED log /\ (UNCHANGED phase \/ Goto(s, "open") \/ Goto(s, "over"))
    BY <1>10 DEF Admit, NotAdmitted, WriteFrame, ChannelClosed, EndResponse, Leave
  <2> QED
    BY <1>3, <1>8, <2>1
<1>11. ASSUME NEW p \in Procs, Listening(p) \/ LoseSession(p) PROVE OneControl'
  BY <1>3, <1>11 DEF Listening, Listen, Receive, NoticeLoss, Disconnect, LoseSession
<1>12. ASSUME UNCHANGED streamVars PROVE OneControl'
  BY <1>3, <1>12 DEF streamVars
<1> QED
  BY <1>4, <1>6, <1>7, <1>9, <1>10, <1>11, <1>12 DEF StreamNext, Handler

\* What the hub of p makes of the notification n, the next in the log.
HubTakes(p, n) ==
  /\ \A s \in Streams : at[s] # p => hub'[s] = hub[s] /\ Held(s)' = Held(s)
  /\ \A s \in Streams : at[s] = p /\ hub'[s] = "active" =>
       \/ n.kind = "replace" /\ n.stream = s
       \/ /\ hub[s] = "active" /\ Held(s) \subseteq Held(s)'
          /\ n.kind \in {"replace", "ended"} => n.sid # sidOf[s]
          /\ n.kind = "invalidate" => pos[p] + 1 \in Held(s)'
  /\ \A s \in replaced' : s \notin replaced =>
       n.kind = "replace" /\ s \in Active(p) /\ n.sid = sidOf[s] /\ n.stream # s

LEMMA ReceivedKeeps ==
  ASSUME StreamInv, OneControl, StreamTypeOK', NEW p \in Procs, pos[p] < Len(log),
         pos' = [pos EXCEPT ![p] = @ + 1], listener[p] = "on",
         UNCHANGED <<log, listener, at, sidOf>>, HubTakes(p, log[pos[p] + 1])
  PROVE  StreamInv'
<1> DEFINE next == pos[p] + 1
           n == log[next]
<1>1. /\ log \in Seq(Note) /\ pos \in [Procs -> Nat] /\ Len(log) \in Nat
      /\ DOMAIN log = 1..Len(log)
  BY DEF StreamInv, StreamTypeOK
<1>2. /\ next \in DOMAIN log /\ next \in Nat /\ Consistent(n)
      /\ pos'[p] = next /\ \A q \in Procs : q # p => pos'[q] = pos[q]
  BY <1>1 DEF StreamInv, LogIsTrue
<1>3. HubTakes(p, n)
  OBVIOUS
<1>4. pos[p] \in Nat /\ \A i \in Nat : i <= next => i <= pos[p] \/ i = next
  BY <1>1
<1> HIDE DEF n, next
<1>5. LogIsTrue'
  BY <1>1, <1>2 DEF StreamInv, LogIsTrue, Consistent
<1>6. ASSUME NEW q \in Procs, NEW s \in Active(q)', q # p
      PROVE  /\ s \in Streams /\ s \in Active(q) /\ Held(s)' = Held(s) /\ pos'[q] = pos[q]
  <2>1. s \in Streams /\ at[s] = q /\ hub'[s] = "active"
    BY DEF Active, InHub
  <2>2. hub[s] = "active" /\ Held(s)' = Held(s)
    BY <1>3, <1>6, <2>1 DEF HubTakes
  <2> QED
    BY <1>2, <1>6, <2>1, <2>2 DEF Active, InHub
<1>7. ASSUME NEW s \in Active(p)'
      PROVE  /\ s \in Streams
             /\ \/ n.kind = "replace" /\ n.stream = s
                \/ /\ s \in Active(p) /\ Held(s) \subseteq Held(s)'
                   /\ n.kind \in {"replace", "ended"} => n.sid # sidOf[s]
                   /\ n.kind = "invalidate" => next \in Held(s)'
  <2>1. s \in Streams /\ at[s] = p /\ hub'[s] = "active"
    BY DEF Active, InHub
  <2> QED
    BY <1>3, <2>1 DEF HubTakes, Active, InHub, next
<1>8. OffHasNone'
  <2> SUFFICES ASSUME NEW q \in Procs, listener[q] = "off", NEW s \in Active(q)'
               PROVE  FALSE
    BY DEF OffHasNone
  <2>1. q # p
    OBVIOUS
  <2> QED
    BY <1>6, <2>1 DEF StreamInv, OffHasNone
<1>9. LastCommitted'
  <2> SUFFICES ASSUME NEW q \in Procs, NEW s \in Active(q)'
               PROVE  \E c \in Commit(s) :
                 /\ c <= pos'[q]
                 /\ \A j \in c + 1 .. pos'[q] :
                      log[j].kind = "replace" => log[j].sid # sidOf[s]
    BY DEF LastCommitted, Commit
  <2>1. CASE q # p
    BY <1>6, <2>1 DEF StreamInv, LastCommitted
  <2>2. CASE q = p /\ n.kind = "replace" /\ n.stream = s
    <3>1. next \in Commit(s) /\ next <= pos'[q] /\ next + 1 .. pos'[q] = {}
      BY <1>2, <2>2 DEF Commit, n
    <3> QED
      BY <3>1
  <2>3. CASE q = p /\ s \in Active(p) /\ (n.kind \in {"replace", "ended"} => n.sid # sidOf[s])
    <3>1. PICK c \in Commit(s) :
            /\ c <= pos[p]
            /\ \A j \in c + 1 .. pos[p] : log[j].kind = "replace" => log[j].sid # sidOf[s]
      BY <2>3 DEF StreamInv, LastCommitted
    <3>2. c \in Nat /\ c <= next
      BY <1>1, <1>4, <3>1 DEF Commit, next
    <3>3. ASSUME NEW j \in c + 1 .. next, log[j].kind = "replace" PROVE log[j].sid # sidOf[s]
      <4>1. j \in c + 1 .. pos[p] \/ j = next
        BY <1>2, <1>4, <3>2
      <4> QED
        BY <2>3, <3>1, <3>3, <4>1 DEF n
    <3> QED
      BY <1>2, <2>3, <3>2, <3>3
  <2> QED
    BY <1>7, <2>1, <2>2, <2>3
<1>10. HoldsEvents'
  <2> SUFFICES ASSUME NEW q \in Procs, NEW s \in Active(q)', NEW i \in Invalidates,
                      i <= pos'[q], NEW c \in Commit(s), c < i
               PROVE  i \in Held(s)'
    BY DEF HoldsEvents, Commit, Invalidates
  <2>1. i \in Nat /\ i \in DOMAIN log /\ log[i].kind = "invalidate" /\ c \in Nat
    BY <1>1 DEF Invalidates, Commit
  <2>2. CASE q # p
    BY <1>6, <2>2 DEF StreamInv, HoldsEvents
  <2>3. CASE q = p
    <3>1. i <= pos[p] \/ i = next
      BY <1>2, <1>4, <2>1, <2>3
    <3>2. CASE i = next
      <4>1. n.kind = "invalidate"
        BY <2>1, <3>2 DEF n
      <4> QED
        BY <1>7, <2>3, <3>2, <4>1
    <3>3. CASE i <= pos[p]
      <4>1. CASE s \in Active(p) /\ Held(s) \subseteq Held(s)'
        BY <3>3, <4>1 DEF StreamInv, HoldsEvents
      <4>2. CASE n.kind = "replace" /\ n.stream = s
        <5>1. next \in Commit(s)
          BY <1>2, <4>2 DEF Commit, n
        <5>2. c = next
          BY <1>7, <2>3, <5>1 DEF OneControl
        <5> QED
          BY <1>2, <1>4, <2>1, <3>3, <5>2 DEF next
      <4> QED
        BY <1>7, <2>3, <4>1, <4>2
    <3> QED
      BY <3>1, <3>2, <3>3
  <2> QED
    BY <2>2, <2>3
<1>11. CommittedLater'
  <2> SUFFICES ASSUME NEW q \in Procs, NEW s \in Active(q)', NEW i \in Ended(sidOf[s]),
                      i <= pos'[q]
               PROVE  \E c \in Commit(s) : i < c
    BY DEF CommittedLater, Commit, Ended
  <2>1. i \in Nat /\ i \in DOMAIN log /\ log[i].kind = "ended" /\ log[i].sid = sidOf[s]
    BY <1>1 DEF Ended
  <2>2. CASE q # p
    BY <1>6, <2>2 DEF StreamInv, CommittedLater
  <2>3. CASE q = p /\ n.kind = "replace" /\ n.stream = s
    <3>1. next \in Commit(s)
      BY <1>2, <2>3 DEF Commit, n
    <3>2. i # next
      BY <2>1, <2>3 DEF n
    <3>3. i < next
      BY <1>2, <2>1, <2>3, <3>2
    <3> QED
      BY <3>1, <3>3
  <2>4. CASE q = p /\ s \in Active(p) /\ (n.kind \in {"replace", "ended"} => n.sid # sidOf[s])
    <3>1. i # next
      BY <2>1, <2>4 DEF n
    <3>2. i <= pos[p]
      BY <1>2, <1>4, <2>1, <2>4, <3>1
    <3> QED
      BY <2>4, <3>2 DEF StreamInv, CommittedLater
  <2> QED
    BY <1>7, <2>2, <2>3, <2>4
<1>12. LatestNotReplaced'
  <2> SUFFICES ASSUME NEW s \in replaced'
               PROVE  \E t \in Streams \ {s} :
                 /\ sidOf[t] = sidOf[s]
                 /\ \E i \in Commit(s), j \in Commit(t) : i < j
    BY DEF LatestNotReplaced, Commit
  <2>1. CASE s \in replaced
    BY <2>1 DEF StreamInv, LatestNotReplaced
  <2>2. CASE s \notin replaced
    <3>1. n.kind = "replace" /\ s \in Active(p) /\ n.sid = sidOf[s] /\ n.stream # s
      BY <1>3, <2>2 DEF HubTakes
    <3>2. n.stream \in Streams /\ n.sid = sidOf[n.stream]
      BY <1>2, <3>1 DEF Consistent, Note, ReplaceNote, EndedNote, InvalidateNote
    <3>3. next \in Commit(n.stream)
      BY <1>2, <3>1 DEF Commit, n
    <3>4. PICK c \in Commit(s) : c <= pos[p]
      BY <3>1 DEF StreamInv, LastCommitted
    <3>5. c < next
      BY <1>1, <1>4, <3>4 DEF Commit, next
    <3> QED
      BY <3>1, <3>2, <3>3, <3>5
  <2> QED
    BY <2>1, <2>2
<1> QED
  BY <1>5, <1>8, <1>9, <1>10, <1>11, <1>12 DEF StreamInv

\* The three kinds of notifications, as the hub takes them.
LEMMA HubSteps ==
  ASSUME StreamInv, NEW p \in Procs, listener[p] = "on", pos[p] < Len(log),
         HandleNotification(p, log[pos[p] + 1]), UNCHANGED <<at, sidOf, got>>
  PROVE  /\ HubTakes(p, log[pos[p] + 1])
         /\ hub' \in [Streams -> {"none", "paused", "active"}]
         /\ buf' \in [Streams -> Seq(Nat)] /\ \A s \in Streams : Len(buf'[s]) <= Buffer
         /\ replaced' \subseteq Streams
<1> DEFINE n == log[pos[p] + 1]
<1>1. /\ StreamTypeOK /\ replaced \subseteq Streams /\ pos[p] + 1 \in Nat
      /\ hub \in [Streams -> {"none", "paused", "active"}]
      /\ buf \in [Streams -> Seq(Nat)] /\ \A s \in Streams : Len(buf[s]) <= Buffer
      /\ Buffer \in Nat
  BY StreamAssumption DEF StreamInv, StreamTypeOK
<1>2. HandleNotification(p, n)
  OBVIOUS
<1> HIDE DEF n
<1>3. CASE n.kind = "replace" /\ ApplyReplace(p, n)
  <2> DEFINE old == ToReplace(p, n)
  <2>1. /\ hub' = [s \in Streams |-> IF s = n.stream /\ s \in InHub(p)
                                     THEN "active" ELSE Detached(old)[s]]
        /\ buf' = Closed(old, buf) /\ replaced' = replaced \cup old
    BY <1>3 DEF ApplyReplace
  <2>2. \A s \in old : /\ s \in Streams /\ s \in InHub(p) /\ hub[s] = "active"
                       /\ at[s] = p /\ sidOf[s] = n.sid /\ s # n.stream
    BY DEF ToReplace, OfSession, InHub
  <2>3. \A s \in Streams : at[s] = p /\ hub[s] = "active" /\ sidOf[s] = n.sid
                           /\ s # n.stream => s \in old
    BY DEF ToReplace, OfSession, InHub
  <2> HIDE DEF old
  <2>4. /\ Detached(old) \in [Streams -> {"none", "paused", "active"}]
        /\ buf' \in [Streams -> Seq(Nat)] /\ \A s \in Streams : Len(buf'[s]) <= Buffer
        /\ \A s \in Streams : s \notin old =>
             Detached(old)[s] = hub[s] /\ buf'[s] = buf[s]
        /\ \A s \in Streams : s \in old => Detached(old)[s] = "none"
    BY <1>1, <2>1, ClosedFacts
  <2>5. hub' \in [Streams -> {"none", "paused", "active"}]
    BY <2>1, <2>4
  <2>6. \A s \in Streams : at[s] # p => hub'[s] = hub[s] /\ Held(s)' = Held(s)
    BY <2>1, <2>2, <2>4 DEF Held, InHub
  <2>7. ASSUME NEW s \in Streams, at[s] = p, hub'[s] = "active", s # n.stream
        PROVE  hub[s] = "active" /\ Held(s) \subseteq Held(s)' /\ n.sid # sidOf[s]
    <3>1. s \notin old /\ hub[s] = "active" /\ buf'[s] = buf[s]
      BY <2>1, <2>4, <2>7
    <3> QED
      BY <2>3, <2>7, <3>1 DEF Held
  <2>8. \A s \in replaced' : s \notin replaced =>
          s \in Active(p) /\ n.sid = sidOf[s] /\ n.stream # s
    BY <2>1, <2>2 DEF Active
  <2>9. replaced' \subseteq Streams
    BY <1>1, <2>1, <2>2
  <2> QED
    BY <1>3, <2>4, <2>5, <2>6, <2>7, <2>8, <2>9 DEF HubTakes, n
<1>4. CASE n.kind = "ended" /\ ApplySessionEnded(p, n)
  <2> DEFINE S == OfSession(p, n.sid)
  <2>1. hub' = Detached(S) /\ buf' = Closed(S, buf) /\ replaced' = replaced
    BY <1>4 DEF ApplySessionEnded
  <2>2. \A s \in Streams : s \in S <=> at[s] = p /\ hub[s] # "none" /\ sidOf[s] = n.sid
    BY DEF OfSession, InHub
  <2> HIDE DEF S
  <2>3. /\ hub' \in [Streams -> {"none", "paused", "active"}]
        /\ buf' \in [Streams -> Seq(Nat)] /\ \A s \in Streams : Len(buf'[s]) <= Buffer
        /\ \A s \in Streams : s \notin S => hub'[s] = hub[s] /\ buf'[s] = buf[s]
        /\ \A s \in Streams : s \in S => hub'[s] = "none"
    BY <1>1, <2>1, ClosedFacts
  <2>4. \A s \in Streams : at[s] # p => hub'[s] = hub[s] /\ Held(s)' = Held(s)
    BY <2>2, <2>3 DEF Held
  <2>5. ASSUME NEW s \in Streams, at[s] = p, hub'[s] = "active"
        PROVE  hub[s] = "active" /\ Held(s) \subseteq Held(s)' /\ n.sid # sidOf[s]
    <3>1. s \notin S /\ hub[s] = "active" /\ buf'[s] = buf[s]
      BY <2>3, <2>5
    <3> QED
      BY <2>2, <2>5, <3>1 DEF Held
  <2> QED
    BY <1>1, <1>4, <2>1, <2>3, <2>4, <2>5 DEF HubTakes, n
<1>5. CASE n.kind = "invalidate" /\ Dispatch(p)
  <2> DEFINE next == pos[p] + 1
  <2>1. /\ hub' = Detached(Slow(p)) /\ replaced' = replaced
        /\ buf' = [s \in Streams |-> IF s \in InHub(p) \ Slow(p)
                                     THEN Append(buf[s], next) ELSE buf[s]]
    BY <1>5 DEF Dispatch, Slow
  <2>2. \A s \in Streams : /\ s \in InHub(p) <=> at[s] = p /\ hub[s] # "none"
                           /\ s \in Slow(p) <=> s \in InHub(p) /\ Len(buf[s]) >= Buffer
    BY DEF InHub, Slow
  <2>3. /\ hub' \in [Streams -> {"none", "paused", "active"}]
        /\ \A s \in Streams : s \notin Slow(p) => hub'[s] = hub[s]
        /\ \A s \in Streams : s \in Slow(p) => hub'[s] = "none"
    BY <1>1, <2>1, ClosedFacts
  <2>4. ASSUME NEW q \in Seq(Nat), NEW x \in Nat
        PROVE  /\ Append(q, x) \in Seq(Nat) /\ Len(Append(q, x)) = Len(q) + 1 /\ Len(q) \in Nat
               /\ \A k \in DOMAIN q : k \in DOMAIN Append(q, x) /\ Append(q, x)[k] = q[k]
               /\ \E k \in DOMAIN Append(q, x) : Append(q, x)[k] = x
    <3>1. Len(q) \in Nat /\ DOMAIN q = 1..Len(q)
      OBVIOUS
    <3>2. Append(q, x) \in Seq(Nat) /\ Len(Append(q, x)) = Len(q) + 1
      OBVIOUS
    <3>3. DOMAIN Append(q, x) = 1..(Len(q) + 1)
      BY <3>1, <3>2
    <3>4. Append(q, x)[Len(q) + 1] = x /\ \A k \in 1..Len(q) : Append(q, x)[k] = q[k]
      OBVIOUS
    <3> QED
      BY <3>1, <3>2, <3>3, <3>4
  <2>5. ASSUME NEW s \in Streams
        PROVE  /\ buf'[s] \in Seq(Nat) /\ Len(buf'[s]) <= Buffer
               /\ s \notin InHub(p) => buf'[s] = buf[s]
               /\ s \in InHub(p) \ Slow(p) => next \in Held(s)' /\ Held(s) \subseteq Held(s)'
    <3>1. CASE s \in InHub(p) \ Slow(p)
      <4> DEFINE q == buf[s]
                 b == Append(q, next)
      <4>1. buf'[s] = b /\ ~ (Len(q) >= Buffer) /\ buf[s] = q
        BY <2>1, <2>2, <3>1
      <4>0. q \in Seq(Nat) /\ next \in Nat
        BY <1>1
      <4> HIDE DEF q, next
      <4>2. /\ b \in Seq(Nat) /\ Len(b) = Len(q) + 1 /\ Len(q) \in Nat
            /\ \A k \in DOMAIN q : k \in DOMAIN b /\ b[k] = q[k]
            /\ \E k \in DOMAIN b : b[k] = next
        BY <4>0, <2>4
      <4> HIDE DEF b
      <4>3. Len(b) <= Buffer
        BY <1>1, <4>1, <4>2
      <4>4. next \in Held(s)'
        BY <4>1, <4>2 DEF Held
      <4>5. Held(s) \subseteq Held(s)'
        BY <4>1, <4>2 DEF Held
      <4> QED
        BY <3>1, <4>1, <4>2, <4>3, <4>4, <4>5
    <3>2. CASE s \notin InHub(p) \ Slow(p)
      BY <1>1, <2>1, <3>2
    <3> QED
      BY <3>1, <3>2
  <2>6. buf' \in [Streams -> Seq(Nat)]
    BY <2>1, <2>5
  <2>7. \A s \in Streams : at[s] # p => hub'[s] = hub[s] /\ Held(s)' = Held(s)
    BY <2>2, <2>3, <2>5 DEF Held
  <2>8. \A s \in Streams : at[s] = p /\ hub'[s] = "active" =>
          hub[s] = "active" /\ Held(s) \subseteq Held(s)' /\ next \in Held(s)'
    BY <2>2, <2>3, <2>5
  <2> QED
    BY <1>1, <1>5, <2>1, <2>3, <2>5, <2>6, <2>7, <2>8 DEF HubTakes, n
<1> QED
  BY <1>2, <1>3, <1>4, <1>5 DEF HandleNotification

\* The listener passes a notification on to the hub.
LEMMA ReceiveKeeps ==
  ASSUME StreamInv, OneControl, NEW p \in Procs, Receive(p)
  PROVE  StreamInv'
<1>1. /\ listener[p] = "on" /\ pos[p] < Len(log)
      /\ HandleNotification(p, log[pos[p] + 1])
      /\ pos' = [pos EXCEPT ![p] = @ + 1]
      /\ UNCHANGED <<live, log, listener, phase, at, sidOf, got, resets>>
  BY DEF Receive
<1>2. /\ HubTakes(p, log[pos[p] + 1])
      /\ hub' \in [Streams -> {"none", "paused", "active"}]
      /\ buf' \in [Streams -> Seq(Nat)] /\ \A s \in Streams : Len(buf'[s]) <= Buffer
      /\ replaced' \subseteq Streams
  BY <1>1, HubSteps
<1>3. pos' \in [Procs -> Nat]
  BY <1>1 DEF StreamInv, StreamTypeOK
<1>4. StreamTypeOK'
  BY <1>1, <1>2, <1>3 DEF StreamInv, StreamTypeOK
<1> QED
  BY <1>1, <1>2, <1>4, ReceivedKeeps

LEMMA StreamStep ==
  ASSUME StreamInv, OneControl, [StreamNext]_streamVars
  PROVE  StreamInv'
<1>1. CASE UNCHANGED streamVars
  <2>1. UNCHANGED <<live, log, pos, listener, phase, at, sidOf, hub, buf, got, replaced, resets>>
    BY <1>1 DEF streamVars
  <2>2. StreamTypeOK'
    BY <2>1 DEF StreamInv, StreamTypeOK
  <2> QED
    BY <2>1, <2>2, QuietStep DEF LogGrows, Held
<1>2. CASE StreamNext
  BY <1>2, HandlerKeeps, CommitKeeps, LossKeeps, ListenKeeps, ReceiveKeeps
  DEF StreamNext, Handler, Listening
<1> QED
  BY <1>1, <1>2

-----------------------------------------------------------------------------
\* The inductive invariant of UserStreams.
THEOREM StreamInvHolds == StreamSpec => [](StreamInv /\ OneControl)
<1>1. StreamInit => StreamInv /\ OneControl
  BY StreamInitInv DEF StreamInit, OneControl, Commit
<1>2. StreamInv /\ OneControl /\ [StreamNext]_streamVars => (StreamInv /\ OneControl)'
  BY StreamStep, OneControlStep
<1> QED
  BY <1>1, <1>2, PTL DEF StreamSpec

\* The hubs, the listeners and the streams keep their types; no buffer holds
\* more frames than its capacity.
THEOREM StreamTypes == StreamSpec => []StreamTypeOK
<1>1. StreamInv => StreamTypeOK
  BY DEF StreamInv
<1> QED
  BY <1>1, StreamInvHolds, PTL

\* Once the processes are up to date, a session has at most one admitted stream
\* over all of them, and it is the one whose control was committed last.
THEOREM OneStreamHolds == StreamSpec => []OneStream
<1>1. ASSUME StreamInv, NEW p \in Procs, NEW q \in Procs, UpToDate(p), UpToDate(q),
             NEW s \in Active(p), NEW t \in Active(q), sidOf[s] = sidOf[t]
      PROVE  s = t
  <2>1. s \in Streams /\ t \in Streams /\ pos[p] = Len(log) /\ pos[q] = Len(log)
    BY <1>1 DEF Active, InHub, UpToDate
  <2>2. Len(log) \in Nat /\ DOMAIN log = 1..Len(log)
    BY <1>1 DEF StreamInv, StreamTypeOK
  <2>3. PICK c \in Commit(s) : \A j \in c + 1 .. Len(log) :
          log[j].kind = "replace" => log[j].sid # sidOf[s]
    BY <1>1, <2>1 DEF StreamInv, LastCommitted
  <2>4. PICK d \in Commit(t) : \A j \in d + 1 .. Len(log) :
          log[j].kind = "replace" => log[j].sid # sidOf[t]
    BY <1>1, <2>1 DEF StreamInv, LastCommitted
  <2>5. /\ c \in 1..Len(log) /\ log[c].kind = "replace" /\ log[c].stream = s
        /\ d \in 1..Len(log) /\ log[d].kind = "replace" /\ log[d].stream = t
    BY <2>2 DEF Commit
  <2>6. log[c].sid = sidOf[s] /\ log[d].sid = sidOf[t]
    BY <1>1, <2>2, <2>5 DEF StreamInv, LogIsTrue, Consistent
  <2>7. ~ (c < d) /\ ~ (d < c)
    BY <1>1, <2>2, <2>3, <2>4, <2>5, <2>6
  <2>8. c = d
    BY <2>5, <2>7
  <2> QED
    BY <2>5, <2>8
<1>2. ASSUME StreamInv, NEW p \in Procs, UpToDate(p), NEW s \in Active(p)
      PROVE  \E c \in Commit(s) :
               \A t \in Streams : sidOf[t] = sidOf[s] => \A i \in Commit(t) : i <= c
  <2>1. Len(log) \in Nat /\ DOMAIN log = 1..Len(log) /\ pos[p] = Len(log)
    BY <1>2 DEF StreamInv, StreamTypeOK, UpToDate
  <2>2. PICK c \in Commit(s) : \A j \in c + 1 .. Len(log) :
          log[j].kind = "replace" => log[j].sid # sidOf[s]
    BY <1>2, <2>1 DEF StreamInv, LastCommitted
  <2>3. c \in 1..Len(log)
    BY <2>1 DEF Commit
  <2> SUFFICES ASSUME NEW t \in Streams, sidOf[t] = sidOf[s], NEW i \in Commit(t)
               PROVE  i <= c
    OBVIOUS
  <2>4. i \in 1..Len(log) /\ log[i].kind = "replace" /\ log[i].stream = t
    BY <2>1 DEF Commit
  <2>5. log[i].sid = sidOf[s]
    BY <1>2, <2>1, <2>4 DEF StreamInv, LogIsTrue, Consistent
  <2>6. ~ (i \in c + 1 .. Len(log))
    BY <2>2, <2>4, <2>5
  <2> QED
    BY <2>1, <2>3, <2>4, <2>6
<1>3. StreamInv => OneStream
  BY <1>1, <1>2 DEF OneStream
<1> QED
  BY <1>3, StreamInvHolds, PTL

\* Two connections of one session never close each other.
THEOREM LatestIsKept == StreamSpec => []LatestNotReplaced
<1>1. StreamInv => LatestNotReplaced
  BY DEF StreamInv
<1> QED
  BY <1>1, StreamInvHolds, PTL

\* An admitted stream whose listener has its session has been written, or holds,
\* every event from its own control to where the listener is.
THEOREM NoEventIsLost == StreamSpec => []NoSilentLoss
<1>1. StreamInv => NoSilentLoss
  BY DEF StreamInv, HoldsEvents, NoSilentLoss, Held
<1> QED
  BY <1>1, StreamInvHolds, PTL

\* Once its process is up to date, a stream of a session that has ended is one
\* that committed its control after the end.
THEOREM EndedAreClosed == StreamSpec => []EndedStreamsClose
<1>1. ASSUME StreamInv PROVE EndedStreamsClose
  <2> SUFFICES ASSUME NEW p \in Procs, UpToDate(p), NEW s \in Active(p),
                      NEW i \in Ended(sidOf[s])
               PROVE  \E c \in Commit(s) : i < c
    BY DEF EndedStreamsClose
  <2>1. i <= pos[p]
    BY <1>1 DEF StreamInv, StreamTypeOK, Ended, UpToDate
  <2> QED
    BY <1>1, <2>1 DEF StreamInv, CommittedLater
<1> QED
  BY <1>1, StreamInvHolds, PTL
=============================================================================
