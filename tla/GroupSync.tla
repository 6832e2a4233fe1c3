----------------------------- MODULE GroupSync -----------------------------
(***************************************************************************)
(* How a member's client follows the roster: the log of the events, the    *)
(* catch-up call GET /sync, and the stream GET /events of one process,     *)
(* which hears of new events from the PostgreSQL listener.                 *)
(*                                                                         *)
(* Follower is the user whose client is followed; the other users only     *)
(* change the roster.  A catch-up makes three reads, each on a snapshot of *)
(* its own: the membership, the cursor, and the events (or a snapshot,     *)
(* which is one REPEATABLE READ transaction).  Mutations and the retention *)
(* job may come between any two of them.                                   *)
(*                                                                         *)
(* The retention job deletes by created_at, which is when the transaction  *)
(* of an event began; its version is given later, under the lock of the    *)
(* group.  So it may delete any of the events, in any order.               *)
(***************************************************************************)
EXTENDS GroupRoster, SequencesExt

CONSTANTS
  Follower,         \* user of the client
  SubscriberBuffer, \* capacity of a stream's channel (32 in the code)
  PageLimit,        \* events in one delta (200 in the code)
  MaxDeleted        \* bound: events the retention job deletes

ASSUME SyncAssumption ==
  /\ Follower \in Users \ {Creator}
  /\ SubscriberBuffer \in Nat \ {0} /\ PageLimit \in Nat \ {0}
  /\ MaxDeleted \in Nat

VARIABLES
  deleted,  \* versions that are no longer in group_events
  listener, \* the process's listener: "listening", "lost" or "down"
  pos,      \* last notification it was sent, or missed
  stream,   \* the stream of the client
  calls,    \* catch-up calls: of the stream's handler, and of the client
  client,   \* the client's roster and its version
  gap,      \* the client has seen versions jump and must call /sync
  damage    \* history: "raced" once the log was cut between two reads of a
            \* call, "holed" once an event was deleted before an older one

syncVars == <<deleted, listener, pos, stream, calls, client, gap, damage>>
vars == <<rosterVars, syncVars>>

-----------------------------------------------------------------------------
Callers == {"stream", "client"}
Stream == [phase : {"closed", "starting", "open"}, subscribed : BOOLEAN,
           buffer : Seq(1..MaxVersion), lastSent : 0..MaxVersion, missed : BOOLEAN]
Call == [phase : {"idle", "asked", "member", "cursor"}, since : 0..MaxVersion,
         current : 0..MaxVersion, oldest : 0..MaxVersion]
Client == [version : 0..MaxVersion, roster : Roster]

TypeOK ==
  /\ RosterTypeOK
  /\ deleted \subseteq 1..version
  /\ listener \in {"listening", "lost", "down"}
  /\ pos \in 0..version
  /\ stream \in Stream /\ Len(stream.buffer) <= SubscriberBuffer
  /\ calls \in [Callers -> Call]
  /\ client \in Client
  /\ gap \in BOOLEAN /\ damage \in {"none", "raced", "holed"}

NoStream == [phase |-> "closed", subscribed |-> FALSE, buffer |-> <<>>,
             lastSent |-> 0, missed |-> FALSE]
NoCall == [phase |-> "idle", since |-> 0, current |-> 0, oldest |-> 0]

Init ==
  /\ RosterInit
  /\ deleted = {}
  /\ listener = "listening" /\ pos = 0
  /\ stream = NoStream
  /\ calls = [c \in Callers |-> NoCall]
  /\ client = [version |-> 0, roster |-> [active |-> {}, captain |-> Creator]]
  /\ gap = FALSE /\ damage = "none"

-----------------------------------------------------------------------------
(* Helpers. *)

\* The rows of group_events, by version.
Kept == (1..version) \ deleted

\* MIN(version) of the log, 0 when it is empty.
OldestVersion == IF Kept = {} THEN 0 ELSE Min(Kept)

CanServeDelta(call) ==
  /\ call.since > 0 /\ call.since <= call.current
  /\ \/ call.since = call.current
     \/ call.oldest > 0 /\ call.oldest <= call.since + 1

SomeMax(a, b) == IF a > b THEN a ELSE b

\* ORDER BY version LIMIT 200: the first events of the log after since.
ListEventsSince(since) ==
  {v \in Kept : /\ v > since
                /\ Cardinality({w \in Kept : since < w /\ w <= v}) <= PageLimit}

TooLong(call, page) ==
  /\ Cardinality(page) = PageLimit
  /\ call.current > call.since + PageLimit

RosterAt(v) == rosters[v + 1]
Present == [active |-> active, captain |-> captain]

\* The client's own version of an event.
ApplyEvent(roster, e) ==
  [active  |-> CASE e.type = "member_joined" -> roster.active \cup {e.user}
                 [] e.type = "member_left" -> roster.active \ {e.user}
                 [] e.type = "group_archived" -> {}
                 [] OTHER -> roster.active,
   captain |-> IF e.type = "captain_transferred" THEN e.user ELSE roster.captain]

\* The events that bring the client to a version; those it was not sent
\* leave its roster as it is.
NotSent == [type |-> "none", user |-> Creator]
Received(page, last) == [i \in 1..(last - client.version) |->
  LET v == client.version + i IN IF v \in page THEN events[v] ELSE NotSent]

Advance(page, last) ==
  client' = IF last <= client.version THEN client
            ELSE [version |-> last,
                  roster |-> FoldLeft(ApplyEvent, client.roster, Received(page, last))]

\* Fencing, frame by frame: what the client has is skipped, and what comes
\* after a jump is not applied.
Reached(page) ==
  Max({client.version} \cup {v \in page : client.version + 1 .. v \subseteq page})

ApplyFrames(page) ==
  /\ Advance(page, Reached(page))
  /\ gap' = (gap \/ \E v \in page : v > Reached(page))

\* The answer of GET /sync is applied as a whole, and its version noted.
ApplyResponse(page) ==
  /\ Advance(page, Max(page))
  /\ gap' = FALSE

ApplySnapshot ==
  /\ client' = IF version < client.version THEN client
               ELSE [version |-> version, roster |-> Present]
  /\ gap' = FALSE

\* An empty delta leaves the client at the version of the cursor.
ApplyNothing(v) ==
  /\ client' = [client EXCEPT !.version = SomeMax(@, v)]
  /\ gap' = FALSE

EndsMembership(e) ==
  \/ e.type = "group_archived"
  \/ e.type = "member_left" /\ e.user = Follower

\* The deferred unsubscribe.
CloseStream == stream' = NoStream

-----------------------------------------------------------------------------
(* Catching up: the three reads of Service.Sync. *)

\* ErrGroupNotFound: the caller is told nothing more.
Refused(c) ==
  /\ calls' = [calls EXCEPT ![c] = NoCall]
  /\ IF c = "stream" THEN CloseStream ELSE UNCHANGED stream
  /\ gap' = FALSE
  /\ UNCHANGED client

CheckMembership(c) ==
  /\ calls[c].phase = "asked"
  /\ IF Follower \in active
     THEN /\ calls' = [calls EXCEPT ![c].phase = "member"]
          /\ UNCHANGED <<stream, client, gap>>
     ELSE Refused(c)
  /\ UNCHANGED <<rosterVars, deleted, listener, pos, damage>>

GetSyncCursor(c) ==
  /\ calls[c].phase = "member"
  /\ calls' = [calls EXCEPT ![c].phase = "cursor", ![c].current = version,
                            ![c].oldest = OldestVersion]
  /\ UNCHANGED <<rosterVars, deleted, listener, pos, stream, client, gap, damage>>

\* Mutant: the handler subscribes once it has read.
SubscribesLate(c, v) ==
  /\ calls' = [calls EXCEPT ![c] = NoCall]
  /\ IF c = "stream"
     THEN stream' = [stream EXCEPT !.phase = "open", !.lastSent = v, !.buffer = <<>>]
     ELSE UNCHANGED stream

\* The page goes to the client; the stream's handler notes its version.
Answered(c, v) ==
  /\ calls' = [calls EXCEPT ![c] = NoCall]
  /\ IF c = "stream"
     THEN stream' = [stream EXCEPT !.phase = "open", !.lastSent = v]
     ELSE UNCHANGED stream

\* Mutant: the snapshot carries the version of the cursor.
SnapshotOfCursor(c) ==
  IF Follower \in active
  THEN /\ Answered(c, calls[c].current)
       /\ client' = [version |-> calls[c].current, roster |-> Present]
       /\ gap' = FALSE
  ELSE Refused(c)

SendSnapshot(c) ==
  IF Follower \in active
  THEN Answered(c, version) /\ ApplySnapshot
  ELSE Refused(c)

SendDelta(c, page) ==
  IF page = {}
  THEN Answered(c, calls[c].current) /\ ApplyNothing(calls[c].current)
  ELSE /\ Answered(c, Max(page))
       /\ IF c = "stream" THEN ApplyFrames(page) ELSE ApplyResponse(page)

Sync(c) ==
  /\ calls[c].phase = "cursor"
  /\ LET page == ListEventsSince(calls[c].since) IN
     IF ~CanServeDelta(calls[c]) \/ TooLong(calls[c], page)
     THEN SendSnapshot(c)
     ELSE SendDelta(c, page)
  /\ UNCHANGED <<rosterVars, deleted, listener, pos, damage>>

\* DeleteEventsBefore(cutoff): old are the events from before the cutoff.
RunEventRetention(old) ==
  /\ Cardinality(deleted \cup old) <= MaxDeleted
  /\ deleted' = deleted \cup old
  /\ damage' = IF \E v \in deleted', w \in Kept \ old : w < v THEN "holed"
               ELSE IF /\ damage = "none"
                       /\ \E c \in Callers, v \in old :
                            /\ calls[c].phase = "cursor" /\ CanServeDelta(calls[c])
                            /\ calls[c].since < v
               THEN "raced" ELSE damage
  /\ UNCHANGED <<rosterVars, listener, pos, stream, calls, client, gap>>

-----------------------------------------------------------------------------
(* The client. *)

\* The handler subscribes first, and then reads.
StreamGroupEvents ==
  /\ stream.phase = "closed"
  /\ stream' = [NoStream EXCEPT !.phase = "starting", !.subscribed = TRUE]
  /\ calls' = [calls EXCEPT !["stream"] =
                 [NoCall EXCEPT !.phase = "asked", !.since = client.version]]
  /\ UNCHANGED <<rosterVars, deleted, listener, pos, client, gap, damage>>

SyncGroup ==
  /\ gap
  /\ calls["client"].phase = "idle"
  /\ calls' = [calls EXCEPT !["client"] =
                 [NoCall EXCEPT !.phase = "asked", !.since = client.version]]
  /\ UNCHANGED <<rosterVars, deleted, listener, pos, stream, client, gap, damage>>

ConnectionBreaks ==
  /\ stream.phase = "open"
  /\ CloseStream
  /\ UNCHANGED <<rosterVars, deleted, listener, pos, calls, client, gap, damage>>

-----------------------------------------------------------------------------
(* The stream's handler, after the first page. *)

TakeEvent == [stream EXCEPT !.buffer = Tail(@),
                            !.lastSent = SomeMax(@, Head(stream.buffer))]

WriteEvent ==
  /\ stream.phase = "open" /\ stream.buffer # <<>>
  /\ LET v == Head(stream.buffer) IN
     IF v <= stream.lastSent
     THEN stream' = TakeEvent /\ UNCHANGED <<client, gap>>
     ELSE /\ IF EndsMembership(events[v]) THEN CloseStream ELSE stream' = TakeEvent
          /\ ApplyFrames({v})
  /\ UNCHANGED <<rosterVars, deleted, listener, pos, calls, damage>>

\* The hub closed the channel; what it still holds is written first.
ChannelClosed ==
  /\ stream.phase = "open" /\ ~stream.subscribed /\ stream.buffer = <<>>
  /\ CloseStream
  /\ UNCHANGED <<rosterVars, deleted, listener, pos, calls, client, gap, damage>>

\* Mutant: the close event is written, and the handler goes on.
KeepsGoing ==
  /\ stream.phase = "open"
  /\ UNCHANGED vars

MaxConnectionAge ==
  /\ stream.phase = "open"
  /\ CloseStream
  /\ UNCHANGED <<rosterVars, deleted, listener, pos, calls, client, gap, damage>>

-----------------------------------------------------------------------------
(* The hub and its listener. *)

Publish(v) ==
  stream' = IF ~stream.subscribed THEN stream
            ELSE IF Len(stream.buffer) < SubscriberBuffer
            THEN [stream EXCEPT !.buffer = Append(@, v)]
            ELSE [stream EXCEPT !.missed = TRUE]

HandlePostgresNotification ==
  /\ listener = "listening" /\ pos < version
  /\ pos' = pos + 1
  /\ Publish(pos + 1)
  /\ UNCHANGED <<rosterVars, deleted, listener, calls, client, gap, damage>>

LoseSession ==
  /\ listener = "listening"
  /\ listener' = "lost"
  /\ UNCHANGED <<rosterVars, deleted, pos, stream, calls, client, gap, damage>>

CloseSubscribers ==
  /\ listener = "lost"
  /\ listener' = "down"
  /\ stream' = [stream EXCEPT !.subscribed = FALSE]
  /\ UNCHANGED <<rosterVars, deleted, pos, calls, client, gap, damage>>

\* LISTEN again: what was notified in between never arrives.
Listen ==
  /\ listener = "down"
  /\ listener' = "listening"
  /\ pos' = version
  /\ stream' = [stream EXCEPT !.missed = @ \/ pos < version]
  /\ UNCHANGED <<rosterVars, deleted, calls, client, gap, damage>>

-----------------------------------------------------------------------------
Reads(c) == CheckMembership(c) \/ GetSyncCursor(c) \/ Sync(c)
Handler == WriteEvent \/ ChannelClosed \/ MaxConnectionAge

Next ==
  \/ RosterNext /\ UNCHANGED syncVars
  \/ \E c \in Callers : Reads(c)
  \/ \E old \in (SUBSET Kept) \ {{}} : RunEventRetention(old)
  \/ StreamGroupEvents \/ SyncGroup \/ ConnectionBreaks
  \/ Handler
  \/ HandlePostgresNotification \/ LoseSession \/ CloseSubscribers \/ Listen

Spec == Init /\ [][Next]_vars

\* The handlers run on, their timer fires, and the client reconnects.
FairSpec == /\ Spec
            /\ \A c \in Callers : WF_vars(Reads(c))
            /\ WF_vars(MaxConnectionAge)
            /\ WF_vars(StreamGroupEvents)

-----------------------------------------------------------------------------
(* Properties. *)

(* However catch-ups, events, the retention job and lost connections are   *)
(* ordered, the client holds the roster as it was at the version it has -  *)
(* as long as the log was neither cut between two reads of one call nor    *)
(* ever lost an event before an older one (Service.Sync, GetGroupDetail,   *)
(* the fencing by version).                                                *)
ClientTruth ==
  client.version > 0 /\ damage = "none" => client.roster = RosterAt(client.version)

(* An open stream leaves out nothing between its first page and what the   *)
(* listener was sent: it was written, or waits in the channel - unless the *)
(* channel was full or the listener was reset, or the log once lost an     *)
(* event before an older one (Hub.Publish; the handler subscribes before   *)
(* it reads).                                                              *)
NothingBetween ==
  stream.phase = "open" /\ ~stream.missed /\ stream.subscribed /\ damage # "holed" =>
    \A v \in stream.lastSent + 1 .. pos :
      \E k \in DOMAIN stream.buffer : stream.buffer[k] = v

(* Whatever was lost on the way: once the roster rests, a member's client  *)
(* comes to its version, and the stream of one who is no longer a member   *)
(* closes (maxConnectionAge, and the catch-up of every new stream).        *)
CatchesUp ==
  <>[](IF Follower \in active THEN client.version = version
                              ELSE stream.phase # "open")
=============================================================================
