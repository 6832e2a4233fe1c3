---------------------------- MODULE UserStreams ----------------------------
(***************************************************************************)
(* GET /api/v1/me/events: the event streams of the sessions of one user,   *)
(* over all API processes.                                                 *)
(*                                                                         *)
(* PostgreSQL orders what the transactions NOTIFY; every process has one   *)
(* listener, which applies the notifications one at a time to the process's*)
(* hub.  A new stream is registered paused, commits a `stream.replace'     *)
(* control and is admitted when its own control comes back: the order of   *)
(* the commits decides which of two concurrent streams stays.              *)
(*                                                                         *)
(* A listener that loses its database session misses what is committed     *)
(* until it listens again; it closes every stream of its process in        *)
(* between.                                                                *)
(***************************************************************************)
EXTENDS Integers, Sequences, FiniteSets

CONSTANTS
  Procs,         \* API processes, each with one hub and one listener
  Streams,       \* bound: connections, named by their stream IDs
  Sids,          \* session IDs of the user
  Buffer,        \* subscriberBuffer
  MaxInvalidate, \* bound: data events committed for the user
  MaxResets      \* bound: database sessions lost by listeners

ASSUME StreamAssumption ==
  /\ Buffer \in Nat \ {0}
  /\ MaxInvalidate \in Nat /\ MaxResets \in Nat

VARIABLES
  live,      \* sessions that have not ended
  log,       \* notifications in the order of their commits
  pos,       \* number of notifications the listener of a process is past
  listener,  \* state of the listener of a process
  phase,     \* where the handler of a stream is
  at,        \* process of a stream
  sidOf,     \* session of a stream
  hub,       \* what the hub of its process holds of a stream
  buf,       \* its buffered frames: a notification's number, 0 for `close'
  got,       \* history: notifications written to the client
  replaced,  \* history: streams a control has closed as replaced
  resets     \* listeners that have lost their session so far

streamVars == <<live, log, pos, listener, phase, at, sidOf, hub, buf, got,
                replaced, resets>>

-----------------------------------------------------------------------------
ListenerStates == {"off", "on", "lost", "noticed"}
Phases == {"new", "validated", "checked", "registered", "waiting", "open",
           "over"}
Close == 0

\* The envelopes that are accepted.  The frames of the three data channels are
\* alike: `invalidate' stands for `roster' and `ocr.updated' too.
ReplaceNote(sid, s) == [kind |-> "replace", sid |-> sid, stream |-> s]
EndedNote(sid) == [kind |-> "ended", sid |-> sid]
InvalidateNote == [kind |-> "invalidate"]
Note == {ReplaceNote(sid, s) : sid \in Sids, s \in Streams}
        \cup {EndedNote(sid) : sid \in Sids} \cup {InvalidateNote}

StreamTypeOK ==
  /\ live \subseteq Sids
  /\ log \in Seq(Note)
  /\ pos \in [Procs -> Nat]
  /\ listener \in [Procs -> ListenerStates]
  /\ phase \in [Streams -> Phases]
  /\ at \in [Streams -> Procs]
  /\ sidOf \in [Streams -> Sids]
  /\ hub \in [Streams -> {"none", "paused", "active"}]
  /\ buf \in [Streams -> Seq(Nat)] /\ \A s \in Streams : Len(buf[s]) <= Buffer
  /\ got \in [Streams -> SUBSET Nat]
  /\ replaced \subseteq Streams
  /\ resets \in Nat

StreamInit ==
  /\ live = Sids
  /\ log = <<>>
  /\ pos = [p \in Procs |-> 0]
  /\ listener = [p \in Procs |-> "off"]
  /\ phase = [s \in Streams |-> "new"]
  /\ at \in [Streams -> Procs]
  /\ sidOf \in [Streams -> Sids]
  /\ hub = [s \in Streams |-> "none"]
  /\ buf = [s \in Streams |-> <<>>]
  /\ got = [s \in Streams |-> {}]
  /\ replaced = {}
  /\ resets = 0

hubVars == <<hub, buf, replaced>>

Goto(s, ph) == phase' = [phase EXCEPT ![s] = ph]

\* unsubscribe: the stream leaves the hub; its buffered frames stay readable
\* but its handler reads no more.
Leave(s) ==
  /\ hub' = [hub EXCEPT ![s] = "none"]
  /\ buf' = [buf EXCEPT ![s] = <<>>]
  /\ Goto(s, "over")
  /\ UNCHANGED replaced

-----------------------------------------------------------------------------
(* The handler. *)

\* The session is looked up once, before the handler.
Validate(s) ==
  /\ phase[s] = "new"
  /\ Goto(s, IF sidOf[s] \in live THEN "validated" ELSE "over")
  /\ UNCHANGED <<live, log, pos, listener, at, sidOf, hubVars, got, resets>>

\* The flag of the listener: it stays up until the listener sees the loss.
Connected(p) == listener[p] \in {"on", "lost"}

CheckListener(s) ==
  /\ phase[s] = "validated"
  /\ Goto(s, IF Connected(at[s]) THEN "checked" ELSE "over")
  /\ UNCHANGED <<live, log, pos, listener, at, sidOf, hubVars, got, resets>>

RegisterPaused(s) ==
  /\ phase[s] = "checked"
  /\ hub' = [hub EXCEPT ![s] = "paused"]
  /\ Goto(s, "registered")
  /\ UNCHANGED <<live, log, pos, listener, at, sidOf, buf, replaced, got, resets>>

PublishReplace(s) ==
  /\ phase[s] = "registered"
  /\ log' = Append(log, ReplaceNote(sidOf[s], s))
  /\ Goto(s, "waiting")
  /\ UNCHANGED <<live, pos, listener, at, sidOf, hubVars, got, resets>>

\* The statement fails, or takes effect without an answer.
PublishFails(s) ==
  /\ phase[s] = "registered"
  /\ log' \in {log, Append(log, ReplaceNote(sidOf[s], s))}
  /\ Leave(s)
  /\ UNCHANGED <<live, pos, listener, at, sidOf, got, resets>>

\* Its own control has come back.
Admit(s) ==
  /\ phase[s] = "waiting"
  /\ hub[s] = "active"
  /\ Goto(s, "open")
  /\ UNCHANGED <<live, log, pos, listener, at, sidOf, hubVars, got, resets>>

\* The stream was closed before it was admitted, the client has gone, or the
\* admission takes too long.
NotAdmitted(s) ==
  /\ phase[s] = "waiting"
  /\ Leave(s)
  /\ UNCHANGED <<live, log, pos, listener, at, sidOf, got, resets>>

\* The next frame; `close' ends the response.
WriteFrame(s) ==
  /\ phase[s] = "open"
  /\ buf[s] # <<>>
  /\ IF Head(buf[s]) = Close
     THEN Leave(s) /\ UNCHANGED got
     ELSE /\ got' = [got EXCEPT ![s] = @ \cup {Head(buf[s])}]
          /\ buf' = [buf EXCEPT ![s] = Tail(@)]
          /\ UNCHANGED <<phase, hub, replaced>>
  /\ UNCHANGED <<live, log, pos, listener, at, sidOf, resets>>

\* The channel has been closed and is empty.
ChannelClosed(s) ==
  /\ phase[s] = "open"
  /\ hub[s] = "none" /\ buf[s] = <<>>
  /\ Leave(s)
  /\ UNCHANGED <<live, log, pos, listener, at, sidOf, got, resets>>

\* maxConnectionAge, or the client has gone.
EndResponse(s) ==
  /\ phase[s] = "open"
  /\ Leave(s)
  /\ UNCHANGED <<live, log, pos, listener, at, sidOf, got, resets>>

-----------------------------------------------------------------------------
(* The hub. *)

\* closeLocked: a stream that is still in the hub gets a `close' frame if there
\* is room for one.
Closed(S, b) ==
  [s \in Streams |-> IF s \in S /\ Len(b[s]) < Buffer
                     THEN Append(b[s], Close) ELSE b[s]]
Detached(S) == [s \in Streams |-> IF s \in S THEN "none" ELSE hub[s]]

InHub(p) == {s \in Streams : at[s] = p /\ hub[s] # "none"}
OfSession(p, sid) == {s \in InHub(p) : sidOf[s] = sid}

\* Mutant: a candidate that is still paused is closed too.
OthersOf(p, n) == OfSession(p, n.sid) \ {n.stream}

\* Mutant: the streams that the session had are left open.
Nobody(p, n) == {}

\* Only streams that have been admitted are closed.
ToReplace(p, n) == {s \in OfSession(p, n.sid) \ {n.stream} : hub[s] = "active"}

ApplyReplace(p, n) ==
  LET old == ToReplace(p, n)
  IN  /\ hub' = [s \in Streams |->
           IF s = n.stream /\ s \in InHub(p) THEN "active" ELSE Detached(old)[s]]
      /\ buf' = Closed(old, buf)
      /\ replaced' = replaced \cup old

\* Admitted or not.
ApplySessionEnded(p, n) ==
  /\ hub' = Detached(OfSession(p, n.sid))
  /\ buf' = Closed(OfSession(p, n.sid), buf)
  /\ UNCHANGED replaced

\* Mutant: the frame is dropped and the stream goes on.
KeepSlow(p) == {}

\* Streams without room for the frame: closed as slow.
Slow(p) == {s \in InHub(p) : Len(buf[s]) >= Buffer}

Dispatch(p) ==
  LET full == {s \in InHub(p) : Len(buf[s]) >= Buffer}
  IN  /\ hub' = Detached(Slow(p))
      /\ buf' = [s \in Streams |-> IF s \in InHub(p) \ full
                                   THEN Append(buf[s], pos[p] + 1) ELSE buf[s]]
      /\ UNCHANGED replaced

HandleNotification(p, n) ==
  \/ n.kind = "replace" /\ ApplyReplace(p, n)
  \/ n.kind = "ended" /\ ApplySessionEnded(p, n)
  \/ n.kind = "invalidate" /\ Dispatch(p)

\* Mutant: the streams outlive the listener's session.
KeepSubscribers(p) == UNCHANGED hubVars

CloseSubscribers(p) ==
  /\ hub' = Detached(InHub(p))
  /\ buf' = Closed(InHub(p), buf)
  /\ UNCHANGED replaced

-----------------------------------------------------------------------------
(* The listener. *)

\* Every channel is listened to, then the flag is set.
Listen(p) ==
  /\ listener[p] = "off"
  /\ listener' = [listener EXCEPT ![p] = "on"]
  /\ pos' = [pos EXCEPT ![p] = Len(log)]
  /\ UNCHANGED <<live, log, phase, at, sidOf, hubVars, got, resets>>

Receive(p) ==
  /\ listener[p] = "on"
  /\ pos[p] < Len(log)
  /\ HandleNotification(p, log[pos[p] + 1])
  /\ pos' = [pos EXCEPT ![p] = @ + 1]
  /\ UNCHANGED <<live, log, listener, phase, at, sidOf, got, resets>>

\* The database session is lost; what it had not delivered is lost with it.
LoseSession(p) ==
  /\ listener[p] = "on"
  /\ resets < MaxResets
  /\ listener' = [listener EXCEPT ![p] = "lost"]
  /\ resets' = resets + 1
  /\ UNCHANGED <<live, log, pos, phase, at, sidOf, hubVars, got>>

\* WaitForNotification returns an error: the flag goes down.
NoticeLoss(p) ==
  /\ listener[p] = "lost"
  /\ listener' = [listener EXCEPT ![p] = "noticed"]
  /\ UNCHANGED <<live, log, pos, phase, at, sidOf, hubVars, got, resets>>

\* onDisconnect, before the listener tries again.
Disconnect(p) ==
  /\ listener[p] = "noticed"
  /\ CloseSubscribers(p)
  /\ listener' = [listener EXCEPT ![p] = "off"]
  /\ UNCHANGED <<live, log, pos, phase, at, sidOf, got, resets>>

-----------------------------------------------------------------------------
(* Transactions of other parts. *)

\* A session is revoked together with its control.
EndSession(sid) ==
  /\ sid \in live
  /\ live' = live \ {sid}
  /\ log' = Append(log, EndedNote(sid))
  /\ UNCHANGED <<pos, listener, phase, at, sidOf, hubVars, got, resets>>

Invalidates == {i \in DOMAIN log : log[i].kind = "invalidate"}

\* A change commits its `invalidate' for the user.
Invalidate ==
  /\ Cardinality(Invalidates) < MaxInvalidate
  /\ log' = Append(log, InvalidateNote)
  /\ UNCHANGED <<live, pos, listener, phase, at, sidOf, hubVars, got, resets>>

Handler(s) ==
  \/ Validate(s) \/ CheckListener(s) \/ RegisterPaused(s)
  \/ PublishReplace(s) \/ PublishFails(s) \/ Admit(s) \/ NotAdmitted(s)
  \/ WriteFrame(s) \/ ChannelClosed(s) \/ EndResponse(s)

Listening(p) == Listen(p) \/ Receive(p) \/ NoticeLoss(p) \/ Disconnect(p)

StreamNext ==
  \/ \E s \in Streams : Handler(s)
  \/ \E p \in Procs : Listening(p) \/ LoseSession(p)
  \/ \E sid \in Sids : EndSession(sid)
  \/ Invalidate

StreamSpec == StreamInit /\ [][StreamNext]_streamVars

-----------------------------------------------------------------------------
(* Properties. *)

Commit(s) == {i \in DOMAIN log : log[i].kind = "replace" /\ log[i].stream = s}
Ended(sid) == {i \in DOMAIN log : log[i].kind = "ended" /\ log[i].sid = sid}
Active(p) == {s \in InHub(p) : hub[s] = "active"}
UpToDate(p) == listener[p] = "on" /\ pos[p] = Len(log)

\* Once the processes are up to date, a session has at most one admitted stream
\* over all of them, and it is the one whose control was committed last
\* (ApplyReplace of the hub).
OneStream ==
  /\ \A p, q \in Procs : UpToDate(p) /\ UpToDate(q) =>
       \A s \in Active(p), t \in Active(q) : sidOf[s] = sidOf[t] => s = t
  /\ \A p \in Procs : UpToDate(p) =>
       \A s \in Active(p) : \E c \in Commit(s) :
         \A t \in Streams : sidOf[t] = sidOf[s] => \A i \in Commit(t) : i <= c

\* Two connections of one session never close each other: a stream is closed as
\* replaced only when another one has committed its control later, so the
\* latest is not (ApplyReplace spares paused candidates).
LatestNotReplaced ==
  \A s \in replaced : \E t \in Streams \ {s} :
    /\ sidOf[t] = sidOf[s]
    /\ \E i \in Commit(s), j \in Commit(t) : i < j

\* No event is lost in silence: while its listener has its session, an admitted
\* stream that is still open has been written, or holds in its buffer, every
\* event of its user from its own control to where the listener is (a stream
\* that cannot take an event, or whose listener missed some, is closed).
NoSilentLoss ==
  \A p \in Procs : listener[p] = "on" =>
    \A s \in Active(p), i \in Invalidates :
      (i <= pos[p] /\ \E c \in Commit(s) : c < i) =>
        i \in got[s] \cup {buf[s][k] : k \in DOMAIN buf[s]}

\* Once its process is up to date, an admitted stream of a session that has
\* ended committed its own control after the end of the session: its session
\* was looked up before (ApplySessionEnded closes candidates too).
EndedStreamsClose ==
  \A p \in Procs : UpToDate(p) =>
    \A s \in Active(p) : \A i \in Ended(sidOf[s]) : \E c \in Commit(s) : i < c

=============================================================================
