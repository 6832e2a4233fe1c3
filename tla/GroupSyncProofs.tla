-------------------------- MODULE GroupSyncProofs --------------------------
(***************************************************************************)
(* Theorems about GroupRoster and GroupSync, for every set of users and    *)
(* invites, every limit of members, of the channel and of a page, and      *)
(* every number of events.                                                 *)
(*                                                                         *)
(* The inductive invariant is the conjunction SyncInv.  That the client    *)
(* holds the roster of its version (ClientTruth) needs that the log of     *)
(* events leads from each roster to the next (RostersFollow), that a call  *)
(* asks for what comes after a version the client has (Behind), and that   *)
(* what was deleted lies before that (LogIsThere).  That a stream leaves   *)
(* nothing out (NothingBetween) needs that what is published while its     *)
(* first page is read waits in the channel (CoveredEarly), and that the    *)
(* log lost nothing but its beginning (LogIsEven).                         *)
(***************************************************************************)
EXTENDS GroupSync, FiniteSums

AtMostOne ==
  /\ \A i, j \in Available : i = j
  /\ archived => Available = {}
  /\ \A i \in Invites : invites[i].max = 0 \/ invites[i].uses <= invites[i].max

RostersFollow ==
  /\ RosterAt(version) = Present
  /\ \A v \in 1..version : RosterAt(v) = ApplyEvent(RosterAt(v - 1), events[v])

\* The first event is that somebody joined the creator.
FollowerJoined == Follower \in active => version > 0

RosterInv ==
  /\ RosterTypeOK
  /\ AtMostOne
  /\ RostersFollow
  /\ FollowerJoined

Behind ==
  /\ client.version <= version
  /\ \A c \in Callers : calls[c].phase # "idle" => calls[c].since <= client.version
  /\ \A c \in Callers : calls[c].phase = "cursor" => calls[c].current <= version
  /\ \A k \in DOMAIN stream.buffer : stream.buffer[k] <= pos

Phases ==
  /\ calls["stream"].phase # "idle" <=> stream.phase = "starting"
  /\ stream.phase = "open" => client.version > 0

LogIsThere ==
  damage = "none" => \A c \in Callers :
    calls[c].phase = "cursor" /\ CanServeDelta(calls[c]) =>
      \A v \in deleted : v <= calls[c].since

LogIsEven ==
  damage # "holed" => \A v \in deleted, w \in Kept : v < w

Waiting(from) ==
  \A v \in from + 1 .. pos : \E k \in DOMAIN stream.buffer : stream.buffer[k] = v

CoveredEarly ==
  calls["stream"].phase = "cursor" /\ ~stream.missed /\ stream.subscribed
    => Waiting(calls["stream"].current)

SyncInv ==
  /\ TypeOK
  /\ RosterInv
  /\ Behind
  /\ Phases
  /\ LogIsThere
  /\ LogIsEven
  /\ ClientTruth
  /\ CoveredEarly
  /\ NothingBetween

-----------------------------------------------------------------------------
(* Folding the events of a page. *)

\* h is what the events of s make of b, over every subset of the first n.
IsFold(h, b, s, n) ==
  h = [T \in SUBSET (1..n) |->
         IF T = {} THEN b ELSE ApplyEvent(h[T \ {Max(T)}], s[Max(T)])]

\* The largest number of 1..n, and of any set of those that holds n.
LEMMA MaxIsLast ==
  ASSUME NEW n \in Nat, NEW T \in SUBSET (1..n), n \in T
  PROVE  Max(T) = n
<1>1. \A y \in T : n >= y
  OBVIOUS
<1>2. \A x \in T : (\A y \in T : x >= y) => x = n
  OBVIOUS
<1> QED
  BY <1>1, <1>2 DEF Max

LEMMA FoldExists ==
  ASSUME NEW b, NEW s, NEW n \in Nat
  PROVE  \E h : IsFold(h, b, s, n)
<1> DEFINE N == {m \in Nat : \E h : IsFold(h, b, s, m)}
<1>1. 0 \in N
  <2> DEFINE h == [T \in SUBSET (1..0) |-> b]
  <2>1. \A T \in SUBSET (1..0) : T = {}
    OBVIOUS
  <2>2. IsFold(h, b, s, 0)
    BY <2>1 DEF IsFold
  <2> QED
    BY <2>2
<1>2. ASSUME NEW m \in N PROVE m + 1 \in N
  <2>1. PICK g : IsFold(g, b, s, m)
    OBVIOUS
  <2>2. m \in Nat /\ m + 1 \in Nat
    OBVIOUS
  <2> DEFINE h == [T \in SUBSET (1..(m + 1)) |->
                     IF m + 1 \in T
                     THEN ApplyEvent(g[T \ {m + 1}], s[m + 1]) ELSE g[T]]
  <2>3. ASSUME NEW T \in SUBSET (1..(m + 1))
        PROVE  h[T] = IF T = {} THEN b ELSE ApplyEvent(h[T \ {Max(T)}], s[Max(T)])
    <3>1. CASE m + 1 \in T
      <4>1. Max(T) = m + 1
        BY <2>2, <3>1, MaxIsLast
      <4>2. T \ {m + 1} \in SUBSET (1..(m + 1)) /\ m + 1 \notin T \ {m + 1} /\ T # {}
        BY <3>1
      <4>3. h[T \ {m + 1}] = g[T \ {m + 1}]
        BY <4>2
      <4>4. h[T] = ApplyEvent(g[T \ {m + 1}], s[m + 1])
        BY <3>1
      <4> QED
        BY <4>1, <4>2, <4>3, <4>4
    <3>2. CASE m + 1 \notin T
      <4>1. T \in SUBSET (1..m)
        BY <2>2, <3>2
      <4>2. h[T] = g[T]
        BY <3>2
      <4>3. T \ {Max(T)} \in SUBSET (1..(m + 1)) /\ m + 1 \notin T \ {Max(T)}
        BY <3>2
      <4>4. h[T \ {Max(T)}] = g[T \ {Max(T)}]
        BY <4>3
      <4>5. g[T] = IF T = {} THEN b ELSE ApplyEvent(g[T \ {Max(T)}], s[Max(T)])
        BY <2>1, <4>1 DEF IsFold
      <4> QED
        BY <4>2, <4>4, <4>5
    <3> QED
      BY <3>1, <3>2
  <2>4. h = [T \in SUBSET (1..(m + 1)) |-> h[T]]
    OBVIOUS
  <2> HIDE DEF h
  <2>5. IsFold(h, b, s, m + 1)
    BY <2>3, <2>4 DEF IsFold
  <2> QED
    BY <2>2, <2>5
<1>3. N = Nat
  <2>1. N \in SUBSET Nat
    OBVIOUS
  <2> HIDE DEF N
  <2> QED
    BY <1>1, <1>2, <2>1, NatSetInduction
<1> QED
  BY <1>3

\* A sequence of rosters that follow one another ends with the fold.
LEMMA FoldFollows ==
  ASSUME NEW s, NEW n \in Nat, DOMAIN s = 1..n,
         NEW r, \A k \in 1..n : r[k] = ApplyEvent(r[k - 1], s[k])
  PROVE  FoldLeft(ApplyEvent, r[0], s) = r[n]
<1> DEFINE Rec(h) == IsFold(h, r[0], s, n)
           iter == CHOOSE h : Rec(h)
<1>1. FoldLeft(ApplyEvent, r[0], s) = iter[1..n]
  BY DEF FoldLeft, MapThenFoldSet, IsFold
<1>2. Rec(iter)
  <2>1. \E h : Rec(h)
    BY FoldExists
  <2> HIDE DEF Rec
  <2> QED
    BY <2>1
<1> HIDE DEF iter
<1> DEFINE N == {m \in Nat : m <= n => iter[1..m] = r[m]}
<1>3. 0 \in N
  <2>1. 1..0 = {} /\ {} \in SUBSET (1..n)
    OBVIOUS
  <2> QED
    BY <1>2, <2>1 DEF IsFold
<1>4. ASSUME NEW m \in N PROVE m + 1 \in N
  <2> SUFFICES ASSUME m + 1 <= n PROVE iter[1..(m + 1)] = r[m + 1]
    OBVIOUS
  <2>1. m \in Nat /\ m + 1 \in Nat /\ m + 1 \in 1..n /\ m <= n
    OBVIOUS
  <2>2. Max(1..(m + 1)) = m + 1
    <3>1. m + 1 \in 1..(m + 1) /\ 1..(m + 1) \in SUBSET (1..(m + 1))
      BY <2>1
    <3> QED
      BY <2>1, <3>1, MaxIsLast
  <2> DEFINE T == 1..(m + 1)
  <2>3. T \ {m + 1} = 1..m
    BY <2>1
  <2>4. iter[T] = ApplyEvent(iter[1..m], s[m + 1])
    <3>1. m + 1 \in T /\ T \in SUBSET (1..n)
      BY <2>1
    <3> HIDE DEF T
    <3>2. T # {}
      BY <3>1
    <3>3. iter[T] = ApplyEvent(iter[T \ {Max(T)}], s[Max(T)])
      BY <1>2, <3>1, <3>2 DEF IsFold
    <3>4. Max(T) = m + 1
      BY <2>2 DEF T
    <3> QED
      BY <2>3, <3>3, <3>4
  <2>5. iter[1..m] = r[m]
    BY <2>1
  <2>6. r[m + 1] = ApplyEvent(r[(m + 1) - 1], s[m + 1]) /\ (m + 1) - 1 = m
    BY <2>1
  <2> QED
    BY <2>4, <2>5, <2>6
<1>5. N = Nat
  <2>1. N \in SUBSET Nat
    OBVIOUS
  <2> HIDE DEF N
  <2> QED
    BY <1>3, <1>4, <2>1, NatSetInduction
<1> QED
  BY <1>1, <1>5

\* The fold of events is a roster, whatever roster it starts from.
LEMMA FoldIsRoster ==
  ASSUME NEW s, NEW n \in Nat, DOMAIN s = 1..n, \A k \in 1..n : s[k].user \in Users,
         NEW b \in Roster
  PROVE  FoldLeft(ApplyEvent, b, s) \in Roster
<1>1. n \in Nat /\ DOMAIN s = 1..n /\ \A k \in 1..n : s[k].user \in Users
  OBVIOUS
<1>2. PICK h : IsFold(h, b, s, n)
  BY <1>1, FoldExists
<1> DEFINE r == [k \in 0..n |-> h[1..k]]
<1>3. r[0] = b
  <2>1. 1..0 = {} /\ {} \in SUBSET (1..n) /\ 0 \in 0..n
    BY <1>1
  <2>2. h[{}] = b
    BY <1>2, <2>1 DEF IsFold
  <2> QED
    BY <2>1, <2>2
<1>4. ASSUME NEW k \in 1..n PROVE r[k] = ApplyEvent(r[k - 1], s[k])
  <2> DEFINE T == 1..k
  <2>1. k \in Nat /\ k \in T /\ T \in SUBSET (1..n) /\ T \in SUBSET (1..k)
    BY <1>1
  <2>2. Max(T) = k
    BY <2>1, MaxIsLast
  <2>3. T \ {k} = 1..(k - 1) /\ k \in 0..n /\ k - 1 \in 0..n
    BY <1>1
  <2>4. r[k] = h[T] /\ r[k - 1] = h[1..(k - 1)]
    BY <2>3
  <2> HIDE DEF T, r
  <2>5. T # {}
    BY <2>1
  <2>6. h[T] = ApplyEvent(h[T \ {Max(T)}], s[Max(T)])
    BY <1>2, <2>1, <2>5 DEF IsFold
  <2> QED
    BY <2>2, <2>3, <2>4, <2>6
<1> HIDE DEF r
<1>5. FoldLeft(ApplyEvent, b, s) = r[n]
  BY <1>1, <1>3, <1>4, FoldFollows
<1> DEFINE N == {m \in Nat : m <= n => r[m] \in Roster}
<1>6. 0 \in N
  BY <1>3
<1>7. ASSUME NEW m \in N PROVE m + 1 \in N
  <2> SUFFICES ASSUME m + 1 <= n PROVE r[m + 1] \in Roster
    OBVIOUS
  <2>1. m \in Nat /\ m + 1 \in 1..n /\ m <= n /\ (m + 1) - 1 = m
    BY <1>1
  <2>2. r[m + 1] = ApplyEvent(r[m], s[m + 1])
    BY <1>4, <2>1
  <2>3. r[m] \in Roster /\ s[m + 1].user \in Users
    BY <1>1, <2>1
  <2> QED
    BY <2>2, <2>3 DEF ApplyEvent, Roster
<1>8. N = Nat
  <2>1. N \in SUBSET Nat
    OBVIOUS
  <2> HIDE DEF N
  <2> QED
    BY <1>6, <1>7, <2>1, NatSetInduction
<1> QED
  BY <1>1, <1>5, <1>8

-----------------------------------------------------------------------------
(* The roster: its events, and its invites. *)

\* What every mutation that ends in an event does to the log.
LEMMA EmitFollows ==
  ASSUME RosterTypeOK, RostersFollow, NEW t \in Types, NEW u \in Users,
         EmitGroupEvent(t, u), active' \subseteq Users, captain' \in Users,
         Present' = ApplyEvent(Present, [type |-> t, user |-> u])
  PROVE  /\ RostersFollow'
         /\ events' \in Seq(Event) /\ Len(events') <= MaxVersion
         /\ rosters' \in Seq(Roster) /\ Len(rosters') = Len(events') + 1
         /\ version' = version + 1
         /\ \A v \in 0..version : rosters'[v + 1] = rosters[v + 1]
         /\ \A v \in 1..version : events'[v] = events[v]
<1> DEFINE e == [type |-> t, user |-> u]
           p == [active |-> active', captain |-> captain']
<1>1. e \in Event /\ p \in Roster
  BY DEF Event, Roster
<1>2. events' = Append(events, e) /\ rosters' = Append(rosters, p) /\ version < MaxVersion
  BY DEF EmitGroupEvent
<1> HIDE DEF e
<1>3. /\ events \in Seq(Event) /\ rosters \in Seq(Roster)
      /\ Len(rosters) = Len(events) + 1 /\ version = Len(events) /\ version \in Nat
  BY DEF RosterTypeOK, version
<1>4. p = Present'
  BY DEF Present
<1> HIDE DEF p
<1>5. /\ events' \in Seq(Event) /\ Len(events') = version + 1
      /\ rosters' \in Seq(Roster) /\ Len(rosters') = version + 2
  BY <1>1, <1>2, <1>3
<1>6. \A v \in 0..version : rosters'[v + 1] = rosters[v + 1]
  BY <1>1, <1>2, <1>3
<1>7. \A v \in 1..version : events'[v] = events[v]
  BY <1>1, <1>2, <1>3
<1>8. rosters'[version + 2] = p /\ events'[version + 1] = e
  BY <1>1, <1>2, <1>3
<1>9. version' = version + 1 /\ MaxVersion \in Nat
  BY <1>5, RosterAssumption DEF version
<1>10. RostersFollow'
  <2>1. rosters'[version' + 1] = Present'
    BY <1>3, <1>4, <1>8, <1>9
  <2>2. ASSUME NEW v \in 1..version'
        PROVE  rosters'[v + 1] = ApplyEvent(rosters'[(v - 1) + 1], events'[v])
    <3>1. CASE v = version + 1
      <4>1. rosters'[(v - 1) + 1] = Present
        BY <1>3, <1>6, <3>1 DEF RostersFollow, RosterAt
      <4>2. rosters'[v + 1] = p /\ events'[v] = e
        BY <1>3, <1>8, <3>1
      <4> QED
        BY <1>4, <4>1, <4>2 DEF e
    <3>2. CASE v # version + 1
      <4>1. v \in 1..version /\ v \in 0..version /\ v - 1 \in 0..version
        BY <1>3, <1>9, <3>2
      <4>2. rosters[v + 1] = ApplyEvent(rosters[(v - 1) + 1], events[v])
        BY <4>1 DEF RostersFollow, RosterAt
      <4> QED
        BY <1>6, <1>7, <4>1, <4>2
    <3> QED
      BY <3>1, <3>2
  <2> QED
    BY <2>1, <2>2 DEF RostersFollow, RosterAt
<1> QED
  BY <1>2, <1>5, <1>6, <1>7, <1>9, <1>10, <1>3

LEMMA NoInviteIsAnInvite ==
  NoInvite \in Invite /\ NoInvite.uses <= NoInvite.max /\ ~ InviteAvailable(NoInvite)
<1>1. NoInvite \in Invite /\ NoInvite.uses = 0 /\ ~ NoInvite.open
  BY RosterAssumption DEF NoInvite, Invite
<1>2. NoInvite.max \in Nat
  BY <1>1, RosterAssumption DEF Invite
<1> QED
  BY <1>1, <1>2 DEF InviteAvailable

\* A place of an invite that is withdrawn, or one more use of an invite.
LEMMA NarrowedInvites ==
  ASSUME RosterTypeOK, AtMostOne,
         invites' \in [Invites -> Invite], archived' = archived,
         \A i \in Invites : \/ invites'[i] \in {invites[i], NoInvite}
                            \/ /\ i \in Available
                               /\ invites'[i] = [invites[i] EXCEPT !.uses = @ + 1]
  PROVE  AtMostOne'
<1>1. ASSUME NEW i \in Invites, InviteAvailable(invites'[i])
      PROVE  i \in Available
  <2>1. ~ InviteAvailable(NoInvite)
    BY NoInviteIsAnInvite
  <2> QED
    BY <1>1, <2>1 DEF InviteAvailable, Available, RosterTypeOK, Invite
<1>2. \A i \in Available' : i \in Available
  BY <1>1 DEF Available
<1>3. ASSUME NEW i \in Invites
      PROVE  invites'[i].max = 0 \/ invites'[i].uses <= invites'[i].max
  <2>1. /\ invites[i] \in Invite /\ invites[i].max \in Nat
        /\ invites[i].max = 0 \/ invites[i].uses <= invites[i].max
    BY RosterAssumption DEF AtMostOne, RosterTypeOK, Invite
  <2>2. NoInvite.uses <= NoInvite.max
    BY NoInviteIsAnInvite
  <2>3. CASE i \in Available /\ invites'[i] = [invites[i] EXCEPT !.uses = @ + 1]
    BY <2>1, <2>3 DEF Available, InviteAvailable, Invite
  <2> QED
    BY <2>1, <2>2, <2>3
<1> QED
  BY <1>2, <1>3 DEF AtMostOne

\* One new invite, where no other can be used.
LEMMA CreatedInvite ==
  ASSUME NEW book \in [Invites -> Invite], NEW m \in MaxUses, ~archived,
         \A i \in Invites : ~ InviteAvailable(book[i]),
         \A i \in Invites : book[i].max = 0 \/ book[i].uses <= book[i].max,
         archived' = archived, invites' = CreateInvite(book, m)
  PROVE  AtMostOne' /\ invites' \in [Invites -> Invite]
<1> DEFINE new == [open |-> TRUE, max |-> m, uses |-> 0]
<1>1. new \in Invite /\ new.uses <= new.max
  BY RosterAssumption DEF Invite
<1> HIDE DEF new
<1>2. PICK i : invites' = [book EXCEPT ![i] = new]
  BY DEF CreateInvite, new
<1>3. \A j \in Invites : invites'[j] = IF j = i THEN new ELSE book[j]
  BY <1>2
<1>4. invites' \in [Invites -> Invite]
  BY <1>1, <1>2
<1>5. \A j \in Available' : j = i
  BY <1>3 DEF Available
<1> QED
  BY <1>1, <1>3, <1>4, <1>5 DEF AtMostOne

LEMMA RevokedInvites ==
  ASSUME RosterTypeOK, AtMostOne
  PROVE  /\ RevokeAvailableInvites \in [Invites -> Invite]
         /\ \A i \in Invites : ~ InviteAvailable(RevokeAvailableInvites[i])
         /\ \A i \in Invites : \/ RevokeAvailableInvites[i].max = 0
                               \/ RevokeAvailableInvites[i].uses <= RevokeAvailableInvites[i].max
<1>1. ~ InviteAvailable(NoInvite) /\ NoInvite.uses <= NoInvite.max
  BY NoInviteIsAnInvite
<1>3. \A i \in Invites : RevokeAvailableInvites[i] =
                           IF i \in Available THEN NoInvite ELSE invites[i]
  BY DEF RevokeAvailableInvites
<1>4. \A i \in Invites : i \in Available <=> InviteAvailable(invites[i])
  BY DEF Available
<1>5. RevokeAvailableInvites \in [Invites -> Invite]
  BY NoInviteIsAnInvite DEF RevokeAvailableInvites, RosterTypeOK
<1> QED
  BY <1>1, <1>3, <1>4, <1>5 DEF AtMostOne

\* A mutation that ends in an event, given what it does to the invites.
LEMMA MutationKeeps ==
  ASSUME RosterInv, NEW t \in Types, NEW u \in Users, EmitGroupEvent(t, u),
         archived' \in BOOLEAN, active' \subseteq Users, captain' \in Users,
         invites' \in [Invites -> Invite],
         AtMostOne', Present' = ApplyEvent(Present, [type |-> t, user |-> u])
  PROVE  RosterInv'
<1>1. /\ RostersFollow'
      /\ events' \in Seq(Event) /\ Len(events') <= MaxVersion
      /\ rosters' \in Seq(Roster) /\ Len(rosters') = Len(events') + 1
      /\ version' = version + 1
  BY EmitFollows DEF RosterInv
<1>2. RosterTypeOK'
  BY <1>1 DEF RosterTypeOK
<1>3. version \in Nat
  BY DEF RosterInv, RosterTypeOK, version
<1>4. FollowerJoined'
  BY <1>1, <1>3 DEF FollowerJoined
<1> QED
  BY <1>1, <1>2, <1>4 DEF RosterInv

\* An action of invites alone.
LEMMA InvitesKeep ==
  ASSUME RosterInv, invites' \in [Invites -> Invite], AtMostOne',
         UNCHANGED <<archived, active, captain, events, rosters>>
  PROVE  RosterInv'
<1>1. RosterTypeOK'
  BY DEF RosterInv, RosterTypeOK
<1>2. RostersFollow' /\ FollowerJoined'
  BY DEF RosterInv, RostersFollow, FollowerJoined, RosterAt, Present, version
<1> QED
  BY <1>1, <1>2 DEF RosterInv

\* The roster of a new group.
LEMMA RosterInitInv == RosterInit => RosterInv
<1> SUFFICES ASSUME RosterInit PROVE RosterInv
  OBVIOUS
<1> DEFINE r == [active |-> {Creator}, captain |-> Creator]
<1>1. r \in Roster
  BY RosterAssumption DEF Roster
<1>2. rosters = <<r>> /\ r = Present
  BY DEF RosterInit, Present
<1> HIDE DEF r
<1>3. version = 0 /\ events = <<>>
  BY DEF RosterInit, version
<1>4. RosterTypeOK
  <2>1. rosters \in Seq(Roster) /\ Len(rosters) = 1 /\ Len(events) = 0
    BY <1>1, <1>2, <1>3
  <2>2. events \in Seq(Event)
    BY <1>3
  <2>3. invites \in [Invites -> Invite]
    BY NoInviteIsAnInvite DEF RosterInit
  <2>4. archived \in BOOLEAN /\ active \subseteq Users /\ captain \in Users
    BY RosterAssumption DEF RosterInit
  <2>5. Len(events) <= MaxVersion /\ Len(rosters) = Len(events) + 1
    BY <2>1, RosterAssumption
  <2> QED
    BY <2>1, <2>2, <2>3, <2>4, <2>5 DEF RosterTypeOK
<1>5. AtMostOne
  BY NoInviteIsAnInvite DEF RosterInit, AtMostOne, Available
<1>6. RostersFollow
  BY <1>2, <1>3 DEF RostersFollow, RosterAt
<1>7. FollowerJoined
  BY SyncAssumption DEF RosterInit, FollowerJoined
<1> QED
  BY <1>4, <1>5, <1>6, <1>7 DEF RosterInv

\* Every mutation of a group, and every action of its invites.
LEMMA RosterStep ==
  ASSUME RosterInv, RosterNext
  PROVE  RosterInv'
<1> USE DEF RosterInv
<1>0. /\ archived \in BOOLEAN /\ active \subseteq Users /\ captain \in Users
      /\ invites \in [Invites -> Invite]
  BY DEF RosterTypeOK
<1>1. ASSUME NEW m \in MaxUses, RegenerateInvite(m) PROVE RosterInv'
  <2>1. ~ archived /\ invites' = CreateInvite(RevokeAvailableInvites, m)
    BY <1>1 DEF RegenerateInvite, LockActiveGroup
  <2>2. AtMostOne' /\ invites' \in [Invites -> Invite]
    BY <1>1, <2>1, RevokedInvites, CreatedInvite DEF RegenerateInvite
  <2> QED
    BY <1>1, <2>2, InvitesKeep DEF RegenerateInvite
<1>2. ASSUME NEW m \in MaxUses, CreateOrReuseInvite(m) PROVE RosterInv'
  <2>1. ~ archived /\ invites' = CreateInvite(invites, m)
    BY <1>2 DEF CreateOrReuseInvite, LockActiveGroup
  <2>2. \A i \in Invites : ~ InviteAvailable(invites[i])
    BY <1>2 DEF CreateOrReuseInvite, Available
  <2>3. AtMostOne' /\ invites' \in [Invites -> Invite]
    BY <1>0, <1>2, <2>1, <2>2, CreatedInvite DEF CreateOrReuseInvite, AtMostOne
  <2> QED
    BY <1>2, <2>3, InvitesKeep DEF CreateOrReuseInvite
<1>3. ASSUME NEW i \in Invites, RevokeInvite(i) \/ ExpireInvite(i) PROVE RosterInv'
  <2>1. /\ invites' = [invites EXCEPT ![i] = NoInvite]
        /\ UNCHANGED <<archived, active, captain, events, rosters>>
    BY <1>3 DEF RevokeInvite, ExpireInvite
  <2>2. invites' \in [Invites -> Invite]
    BY <1>0, <2>1, NoInviteIsAnInvite
  <2>3. AtMostOne'
    BY <1>0, <2>1, <2>2, NarrowedInvites
  <2> QED
    BY <2>1, <2>2, <2>3, InvitesKeep
<1>4. ASSUME NEW i \in Invites, NEW u \in Users, RedeemInvite(i, u) PROVE RosterInv'
  <2> DEFINE used == [invites[i] EXCEPT !.uses = @ + 1]
  <2>1. invites' = [invites EXCEPT ![i] = used] /\ i \in Available
    BY <1>4 DEF RedeemInvite
  <2>2. used \in Invite
    BY <1>0 DEF Invite
  <2>3. invites' \in [Invites -> Invite]
    BY <1>0, <2>1, <2>2
  <2>4. AtMostOne'
    <3>1. archived' = archived
      BY <1>4 DEF RedeemInvite
    <3>2. \A j \in Invites : \/ invites'[j] \in {invites[j], NoInvite}
                             \/ /\ j \in Available
                                /\ invites'[j] = [invites[j] EXCEPT !.uses = @ + 1]
      BY <1>0, <2>1
    <3> QED
      BY <2>3, <3>1, <3>2, NarrowedInvites
  <2>5. Present' = ApplyEvent(Present, [type |-> "member_joined", user |-> u])
    BY <1>4 DEF RedeemInvite, Present, ApplyEvent
  <2> HIDE DEF used
  <2> QED
    BY <1>0, <1>4, <2>3, <2>4, <2>5, MutationKeeps DEF RedeemInvite, Types
<1>5. ASSUME NEW u \in Users, LeaveOrRemoveMember(u) PROVE RosterInv'
  <2>1. AtMostOne'
    BY <1>0, <1>5, NarrowedInvites DEF LeaveOrRemoveMember
  <2>2. Present' = ApplyEvent(Present, [type |-> "member_left", user |-> u])
    BY <1>5 DEF LeaveOrRemoveMember, Present, ApplyEvent
  <2> QED
    BY <1>0, <1>5, <2>1, <2>2, MutationKeeps DEF LeaveOrRemoveMember, Types
<1>6. ASSUME NEW u \in Users, TransferCaptain(u) PROVE RosterInv'
  <2>1. AtMostOne'
    BY <1>0, <1>6, NarrowedInvites DEF TransferCaptain
  <2>2. Present' = ApplyEvent(Present, [type |-> "captain_transferred", user |-> u])
    BY <1>6 DEF TransferCaptain, Present, ApplyEvent
  <2> QED
    BY <1>0, <1>6, <2>1, <2>2, MutationKeeps DEF TransferCaptain, Types
<1>7. ASSUME RenameGroup PROVE RosterInv'
  <2>1. AtMostOne'
    BY <1>0, <1>7, NarrowedInvites DEF RenameGroup
  <2>2. Present' = ApplyEvent(Present, [type |-> "group_renamed", user |-> captain])
    BY <1>7 DEF RenameGroup, Present, ApplyEvent
  <2> QED
    BY <1>0, <1>7, <2>1, <2>2, MutationKeeps DEF RenameGroup, Types
<1>8. ASSUME DisbandGroup PROVE RosterInv'
  <2>1. /\ invites' = RevokeAvailableInvites /\ archived' = TRUE
        /\ active' = {} /\ captain' = captain
    BY <1>8 DEF DisbandGroup
  <2>2. invites' \in [Invites -> Invite]
    BY <2>1, RevokedInvites
  <2>3. AtMostOne'
    BY <2>1, RevokedInvites DEF AtMostOne, Available
  <2>4. Present' = ApplyEvent(Present, [type |-> "group_archived", user |-> captain])
    BY <2>1 DEF Present, ApplyEvent
  <2> QED
    BY <1>0, <1>8, <2>1, <2>2, <2>3, <2>4, MutationKeeps DEF DisbandGroup, Types
<1> QED
  BY <1>1, <1>2, <1>3, <1>4, <1>5, <1>6, <1>7, <1>8 DEF RosterNext

LEMMA RosterStutter ==
  ASSUME RosterInv, UNCHANGED rosterVars
  PROVE  RosterInv'
  BY DEF RosterInv, rosterVars, RosterTypeOK, AtMostOne, Available, RostersFollow,
         RosterAt, Present, version, FollowerJoined

\* Events and rosters are only added.
LEMMA RosterGrows ==
  ASSUME RosterInv, RosterNext \/ UNCHANGED rosterVars
  PROVE  /\ version \in Nat /\ version' \in Nat /\ version <= version'
         /\ \A v \in 0..version : RosterAt(v)' = RosterAt(v)
<1> DEFINE Goal == /\ version' \in Nat /\ version <= version'
                   /\ \A v \in 0..version : rosters'[v + 1] = rosters[v + 1]
<1> USE DEF RosterInv
<1>0. version \in Nat
  BY DEF RosterTypeOK, version
<1>1. ASSUME UNCHANGED <<events, rosters>> PROVE Goal
  BY <1>0, <1>1 DEF version
<1>2. ASSUME NEW t \in Types, NEW u \in Users, EmitGroupEvent(t, u),
             active' \subseteq Users, captain' \in Users
      PROVE  Goal
  <2> DEFINE p == [active |-> active', captain |-> captain']
  <2>1. p \in Roster
    BY <1>2 DEF Roster
  <2>2. rosters' = Append(rosters, p) /\ events' = Append(events, [type |-> t, user |-> u])
    BY <1>2 DEF EmitGroupEvent
  <2>3. rosters \in Seq(Roster) /\ Len(rosters) = version + 1 /\ events \in Seq(Event)
    BY DEF RosterTypeOK, version
  <2>4. [type |-> t, user |-> u] \in Event
    BY DEF Event
  <2> HIDE DEF p
  <2>5. \A v \in 0..version : rosters'[v + 1] = rosters[v + 1]
    BY <1>0, <2>1, <2>2, <2>3
  <2>6. version' = version + 1
    BY <2>2, <2>3, <2>4 DEF version
  <2> QED
    BY <1>0, <2>5, <2>6
<1>3. active \subseteq Users /\ captain \in Users
  BY DEF RosterTypeOK
<1>4. ASSUME NEW m \in MaxUses, RegenerateInvite(m) \/ CreateOrReuseInvite(m) PROVE Goal
  BY <1>1, <1>4 DEF RegenerateInvite, CreateOrReuseInvite
<1>5. ASSUME NEW i \in Invites, RevokeInvite(i) \/ ExpireInvite(i) PROVE Goal
  BY <1>1, <1>5 DEF RevokeInvite, ExpireInvite
<1>6. ASSUME NEW i \in Invites, NEW u \in Users, RedeemInvite(i, u) PROVE Goal
  BY <1>2, <1>3, <1>6 DEF RedeemInvite, Types
<1>7. ASSUME NEW u \in Users, LeaveOrRemoveMember(u) PROVE Goal
  BY <1>2, <1>3, <1>7 DEF LeaveOrRemoveMember, Types
<1>8. ASSUME NEW u \in Users, TransferCaptain(u) PROVE Goal
  BY <1>2, <1>3, <1>8 DEF TransferCaptain, Types
<1>9. ASSUME RenameGroup PROVE Goal
  BY <1>2, <1>3, <1>9 DEF RenameGroup, Types
<1>10. ASSUME DisbandGroup PROVE Goal
  BY <1>2, <1>3, <1>10 DEF DisbandGroup, Types
<1>11. ASSUME UNCHANGED rosterVars PROVE Goal
  BY <1>1, <1>11 DEF rosterVars
<1> HIDE DEF Goal
<1>12. Goal
  BY <1>4, <1>5, <1>6, <1>7, <1>8, <1>9, <1>10, <1>11 DEF RosterNext
<1> QED
  BY <1>0, <1>12 DEF Goal, RosterAt

LEMMA OneInviteFollows == AtMostOne => OneInvite
<1> SUFFICES ASSUME AtMostOne PROVE OneInvite
  OBVIOUS
<1>1. CASE Available = {}
  BY <1>1, FS_EmptySet DEF OneInvite, AtMostOne
<1>2. CASE Available # {}
  <2>1. PICK i : i \in Available
    BY <1>2
  <2>2. Available = {i}
    BY <2>1 DEF AtMostOne
  <2>3. Cardinality({i}) = 1
    BY FS_Singleton
  <2> QED
    BY <1>2, <2>2, <2>3 DEF OneInvite, AtMostOne
<1> QED
  BY <1>1, <1>2

-----------------------------------------------------------------------------
(* What the client makes of events and pages. *)

\* The least and the largest of a set of numbers.
LEMMA MinIsIn ==
  ASSUME NEW n \in Nat, NEW T \in SUBSET (1..n), T # {}
  PROVE  Min(T) \in T /\ \A y \in T : Min(T) <= y
<1>1. \E x \in T : \A y \in T : x <= y
  <2>1. T \in SUBSET Nat
    OBVIOUS
  <2> QED
    BY <2>1, LeastExists
<1> QED
  BY <1>1 DEF Min

LEMMA MaxIsIn ==
  ASSUME NEW n \in Nat, NEW T \in SUBSET (1..n), T # {}
  PROVE  Max(T) \in T /\ \A y \in T : y <= Max(T)
<1> DEFINE N == {n - y : y \in T}
<1>1. N \in SUBSET Nat /\ N # {}
  OBVIOUS
<1>2. PICK k \in N : \A m \in N : k <= m
  <2> HIDE DEF N
  <2> QED
    BY <1>1, LeastExists
<1>3. PICK x \in T : k = n - x
  BY <1>2
<1>4. \A y \in T : x >= y
  <2> SUFFICES ASSUME NEW y \in T PROVE x >= y
    OBVIOUS
  <2>1. n - x <= n - y
    BY <1>2, <1>3
  <2>2. x \in 1..n /\ y \in 1..n
    OBVIOUS
  <2> QED
    BY <2>1, <2>2
<1> QED
  BY <1>4 DEF Max

\* A run of events leads from the roster of one version to that of another.
LEMMA FoldOfLog ==
  ASSUME RosterInv, NEW b \in 0..version, NEW l \in 0..version, b < l,
         NEW s, DOMAIN s = 1..(l - b), \A k \in 1..(l - b) : s[k] = events[b + k]
  PROVE  FoldLeft(ApplyEvent, RosterAt(b), s) = RosterAt(l)
<1> DEFINE n == l - b
           r == [k \in 0..n |-> RosterAt(b + k)]
<1>1. version \in Nat
  BY DEF RosterInv, RosterTypeOK, version
<1>2. n \in Nat /\ b \in Nat /\ l \in Nat /\ b + n = l
  BY <1>1
<1>3. DOMAIN s = 1..n /\ \A k \in 1..n : s[k] = events[b + k]
  OBVIOUS
<1>5. ASSUME NEW k \in 1..n PROVE r[k] = ApplyEvent(r[k - 1], s[k])
  <2>1. b + k \in 1..version /\ (b + k) - 1 = b + (k - 1) /\ k \in 0..n /\ k - 1 \in 0..n
    BY <1>1, <1>2
  <2>2. RosterAt(b + k) = ApplyEvent(RosterAt((b + k) - 1), events[b + k])
    BY <2>1 DEF RosterInv, RostersFollow
  <2> QED
    BY <1>3, <2>1, <2>2
<1>6. r[0] = RosterAt(b) /\ r[n] = RosterAt(l)
  <2>1. 0 \in 0..n /\ n \in 0..n /\ b + 0 = b
    BY <1>2
  <2> QED
    BY <1>2, <2>1
<1> HIDE DEF r, n
<1>7. FoldLeft(ApplyEvent, r[0], s) = r[n]
  BY <1>2, <1>3, <1>5, FoldFollows
<1> QED
  BY <1>6, <1>7

\* What a step of the client may make of its roster.
ClientMoves ==
  /\ client' \in Client /\ gap' \in BOOLEAN
  /\ client.version <= client'.version /\ client'.version <= version
  /\ client'.version > 0 /\ damage = "none" => client'.roster = RosterAt(client'.version)

LEMMA ClientRests ==
  ASSUME SyncInv, client' = client, gap' \in BOOLEAN
  PROVE  ClientMoves
<1>1. client \in Client /\ client.version <= version
  BY DEF SyncInv, TypeOK, Behind
<1>2. client.version \in Nat
  BY <1>1, RosterAssumption DEF Client
<1> QED
  BY <1>1, <1>2 DEF ClientMoves, SyncInv, ClientTruth

\* Events without a hole leave the client with the roster of its version.
LEMMA Advanced ==
  ASSUME SyncInv, client.version > 0, gap' \in BOOLEAN,
         NEW page \in SUBSET (1..version), NEW last \in 0..version, Advance(page, last),
         damage = "none" => client.version + 1 .. last \subseteq page
  PROVE  ClientMoves /\ client'.version > 0
<1>1. /\ client \in Client /\ client.version \in 0..version
      /\ damage = "none" => client.roster = RosterAt(client.version)
      /\ version \in Nat /\ version <= MaxVersion /\ MaxVersion \in Nat
      /\ events \in Seq(Event) /\ Len(events) = version
  BY RosterAssumption
     DEF SyncInv, TypeOK, Behind, ClientTruth, RosterTypeOK, version, Client
<1>2. CASE last <= client.version
  BY <1>1, <1>2, ClientRests DEF Advance
<1>3. CASE ~ (last <= client.version)
  <2> DEFINE b == client.version
             n == last - b
             s == Received(page, last)
             r == FoldLeft(ApplyEvent, client.roster, s)
             new == [version |-> last, roster |-> r]
  <2>1. client' = new
    BY <1>3 DEF Advance
  <2>2. n \in Nat /\ b < last /\ client.roster \in Roster /\ last \in 1..version
    BY <1>1, <1>3 DEF Client
  <2>3. DOMAIN s = 1..n
    BY DEF Received
  <2>4. \A k \in 1..n : s[k] = IF b + k \in page THEN events[b + k] ELSE NotSent
    BY DEF Received
  <2>5. ASSUME NEW k \in 1..n PROVE s[k].user \in Users
    <3>1. CASE b + k \in page
      <4>1. events[b + k] \in Event
        BY <1>1, <3>1
      <4> QED
        BY <2>4, <3>1, <4>1 DEF Event
    <3>2. CASE b + k \notin page
      BY <2>4, <3>2, RosterAssumption DEF NotSent
    <3> QED
      BY <3>1, <3>2
  <2>6. r \in Roster
    <3> HIDE DEF s, n
    <3> QED
      BY <2>2, <2>3, <2>5, FoldIsRoster
  <2>7. damage = "none" => r = RosterAt(last)
    <3> SUFFICES ASSUME damage = "none" PROVE r = RosterAt(last)
      OBVIOUS
    <3>1. ASSUME NEW k \in 1..n PROVE s[k] = events[b + k]
      <4>1. b + k \in b + 1 .. last
        BY <1>1, <2>2
      <4>2. b + k \in page
        BY <4>1
      <4> QED
        BY <2>4, <4>2
    <3>2. client.roster = RosterAt(b) /\ RosterInv
      BY <1>1 DEF SyncInv
    <3>4. b \in 0..version /\ b < last
      BY <1>1, <2>2
    <3> HIDE DEF s, b
    <3>3. FoldLeft(ApplyEvent, RosterAt(b), s) = RosterAt(last)
      BY <2>3, <3>1, <3>2, <3>4, FoldOfLog
    <3> QED
      BY <3>2, <3>3
  <2> HIDE DEF r
  <2>8. new \in Client /\ new.version = last /\ new.roster = r
    BY <1>1, <2>2, <2>6 DEF Client
  <2> HIDE DEF new
  <2> QED
    BY <1>1, <2>1, <2>2, <2>7, <2>8 DEF ClientMoves
<1> QED
  BY <1>2, <1>3

\* Frames are applied as far as they follow one another.
LEMMA AppliedFrames ==
  ASSUME SyncInv, client.version > 0,
         NEW page \in SUBSET (1..version), ApplyFrames(page)
  PROVE  ClientMoves /\ client'.version > 0
<1> DEFINE T == {client.version} \cup {v \in page : client.version + 1 .. v \subseteq page}
           last == Reached(page)
<1>1. version \in Nat /\ client.version \in 1..version
  BY RosterAssumption DEF SyncInv, TypeOK, Behind, RosterTypeOK, version, Client
<1>2. T \in SUBSET (1..version) /\ T # {}
  BY <1>1
<1>3. last = Max(T)
  BY DEF Reached
<1>4. last \in T
  <2> HIDE DEF T, last
  <2> QED
    BY <1>1, <1>2, <1>3, MaxIsIn
<1>5. client.version + 1 .. last \subseteq page
  <2>1. CASE last = client.version
    BY <1>1, <2>1
  <2>2. CASE last # client.version
    BY <1>4, <2>2
  <2> QED
    BY <2>1, <2>2
<1>6. last \in 0..version
  BY <1>1, <1>2, <1>4
<1>7. Advance(page, last) /\ gap' \in BOOLEAN
  BY DEF ApplyFrames, SyncInv, TypeOK
<1> HIDE DEF last, T
<1> QED
  BY <1>5, <1>6, <1>7, Advanced

\* The page of a call, and what it leaves to the stream.
PageIsGood(c, page) ==
  /\ client.version > 0 /\ page \in SUBSET (1..version)
  /\ page # {} => /\ Max(page) \in page
                  /\ damage # "holed" => calls[c].current <= Max(page)
                  /\ damage = "none" => client.version + 1 .. Max(page) \subseteq page
  /\ page = {} /\ damage = "none" => calls[c].current <= client.version

LEMMA PageFacts ==
  ASSUME SyncInv, NEW c \in Callers, calls[c].phase = "cursor",
         NEW page, page = ListEventsSince(calls[c].since),
         CanServeDelta(calls[c]), ~ TooLong(calls[c], page)
  PROVE  PageIsGood(c, page)
<1> DEFINE since == calls[c].since
           current == calls[c].current
           Upto(v) == {w \in Kept : since < w /\ w <= v}
<1>1. /\ since \in Nat /\ current \in Nat
      /\ version \in Nat /\ client.version \in Nat
      /\ current <= version /\ since <= client.version
      /\ PageLimit \in Nat /\ PageLimit > 0
      /\ Kept \in SUBSET (1..version)
  BY RosterAssumption, SyncAssumption
     DEF SyncInv, TypeOK, RosterTypeOK, Behind, Call, Client, version, Kept
<1>2. since > 0
  BY DEF CanServeDelta
<1>3. damage = "none" => \A v \in 1..version : v > since => v \in Kept
  <2> SUFFICES ASSUME damage = "none", NEW v \in 1..version, v > since PROVE v \in Kept
    OBVIOUS
  <2>1. ~ (v <= since)
    BY <1>1
  <2> QED
    BY <2>1 DEF SyncInv, LogIsThere, Kept
<1>4. \A v : v \in page <=> v \in Kept /\ v > since /\ Cardinality(Upto(v)) <= PageLimit
  BY DEF ListEventsSince
<1>5. ~ (Cardinality(page) = PageLimit /\ current > since + PageLimit)
  BY DEF TooLong
<1> HIDE DEF since, current
<1>6. /\ page \in SUBSET Kept /\ page \in SUBSET (1..version)
      /\ \A v \in page : v > since
  BY <1>1, <1>4
<1>7. \A v \in Nat : /\ IsFiniteSet(Upto(v)) /\ Cardinality(Upto(v)) \in Nat
                     /\ v > since => Cardinality(Upto(v)) <= v - since
  <2> SUFFICES ASSUME NEW v \in Nat
               PROVE  /\ IsFiniteSet(Upto(v)) /\ Cardinality(Upto(v)) \in Nat
                      /\ v > since => Cardinality(Upto(v)) <= v - since
    OBVIOUS
  <2>1. \A w \in Upto(v) : w \in since + 1 .. v
    BY <1>1
  <2> HIDE DEF Upto
  <2>2. /\ IsFiniteSet(since + 1 .. v)
        /\ Cardinality(since + 1 .. v) = IF since + 1 > v THEN 0 ELSE v - (since + 1) + 1
    <3> DEFINE a == since + 1
    <3>1. a \in Int /\ v \in Int
      BY <1>1
    <3> HIDE DEF a
    <3>2. /\ IsFiniteSet(a .. v)
          /\ Cardinality(a .. v) = IF a > v THEN 0 ELSE v - a + 1
      BY <3>1, FS_Interval
    <3> QED
      BY <3>2 DEF a
  <2>3. IsFiniteSet(Upto(v)) /\ Cardinality(Upto(v)) <= Cardinality(since + 1 .. v)
    <3>1. Upto(v) \in SUBSET (since + 1 .. v)
      BY <2>1
    <3> QED
      BY <2>2, <3>1, FS_Subset
  <2>4. Cardinality(Upto(v)) \in Nat
    BY <2>3, FS_CardinalityType
  <2> QED
    BY <1>1, <2>2, <2>3, <2>4
<1>8. ASSUME NEW v \in page, NEW u \in Kept, since < u, u <= v PROVE u \in page
  <2>1. u \in Nat /\ v \in Nat
    BY <1>1, <1>6
  <2>2. Upto(u) \in SUBSET Upto(v)
    <3>1. \A w \in Kept : w \in Nat /\ (w <= u => w <= v)
      BY <1>1, <1>8, <2>1
    <3> QED
      BY <3>1
  <2>3. /\ Cardinality(Upto(u)) <= Cardinality(Upto(v))
        /\ Cardinality(Upto(u)) \in Nat /\ Cardinality(Upto(v)) \in Nat
    <3> HIDE DEF Upto
    <3> QED
      BY <1>7, <2>1, <2>2, FS_Subset
  <2>4. Cardinality(Upto(v)) <= PageLimit
    BY <1>4
  <2> HIDE DEF Upto
  <2>5. Cardinality(Upto(u)) <= PageLimit
    BY <1>1, <2>3, <2>4
  <2> QED
    BY <1>4, <1>8, <2>5
<1>9. ASSUME page # {} PROVE Max(page) \in page /\ \A v \in page : v <= Max(page)
  BY <1>1, <1>6, <1>9, MaxIsIn
<1>10. ASSUME page # {}, damage # "holed" PROVE current <= Max(page)
  <2> DEFINE m == Max(page)
             k == m + 1
  <2> SUFFICES ASSUME m < current PROVE FALSE
    <3>1. m \in Nat
      BY <1>1, <1>6, <1>9, <1>10
    <3> QED
      BY <1>1, <3>1
  <2>1. m \in page /\ m \in Kept /\ m \in 1..version /\ m > since /\ \A v \in page : v <= m
    BY <1>6, <1>9, <1>10
  <2> HIDE DEF m
  <2>2. m \in Nat /\ k \in 1..version /\ k > since
    BY <1>1, <2>1
  <2>3. k \in Kept
    <3> SUFFICES ASSUME k \in deleted PROVE FALSE
      BY <2>2 DEF Kept
    <3>1. k < m
      BY <1>10, <2>1 DEF SyncInv, LogIsEven
    <3> QED
      BY <2>2, <3>1
  <2>4. k \notin page
    BY <2>1, <2>2
  <2>5. ~ (Cardinality(Upto(k)) <= PageLimit)
    BY <1>4, <2>2, <2>3, <2>4
  <2>6. Upto(k) = Upto(m) \cup {k} /\ k \notin Upto(m)
    <3>1. \A w \in Kept : w <= k <=> w <= m \/ w = k
      BY <1>1, <2>2
    <3>2. ~ (k <= m)
      BY <2>2
    <3> HIDE DEF k
    <3> QED
      BY <2>2, <2>3, <3>1, <3>2
  <2>7. page = Upto(m)
    <3>1. \A v \in page : v \in Upto(m)
      BY <1>6, <2>1
    <3>2. \A v \in Upto(m) : v \in page
      BY <1>8, <2>1
    <3> QED
      BY <3>1, <3>2
  <2>8. Cardinality(Upto(m)) <= PageLimit
    BY <1>4, <2>1
  <2> HIDE DEF Upto
  <2>9. /\ IsFiniteSet(Upto(m)) /\ Cardinality(Upto(m)) \in Nat
        /\ Cardinality(Upto(m)) <= m - since
    BY <1>7, <2>1, <2>2
  <2>10. Cardinality(Upto(k)) = Cardinality(Upto(m)) + 1
    BY <2>6, <2>9, FS_AddElement
  <2>11. Cardinality(Upto(m)) = PageLimit
    BY <1>1, <2>5, <2>8, <2>9, <2>10
  <2>12. ~ (current > since + PageLimit)
    BY <1>5, <2>7, <2>11
  <2> QED
    BY <1>1, <2>2, <2>9, <2>11, <2>12
<1>11. ASSUME page # {}, damage = "none"
       PROVE  client.version + 1 .. Max(page) \subseteq page
  <2> SUFFICES ASSUME NEW u \in client.version + 1 .. Max(page) PROVE u \in page
    OBVIOUS
  <2>1. Max(page) \in page /\ Max(page) \in 1..version
    BY <1>6, <1>9, <1>11
  <2>2. u \in 1..version /\ since < u /\ u <= Max(page)
    BY <1>1, <2>1
  <2>3. u \in Kept
    BY <1>1, <1>3, <1>11, <2>2
  <2> QED
    BY <1>8, <2>1, <2>2, <2>3
<1>12. ASSUME page = {}, damage = "none" PROVE current <= client.version
  <2> DEFINE k == since + 1
  <2> SUFFICES ASSUME current > client.version PROVE FALSE
    BY <1>1
  <2>1. k \in 1..version /\ k > since /\ k \in Nat
    BY <1>1
  <2>2. k \in Kept
    BY <1>3, <1>12, <2>1
  <2> HIDE DEF Upto
  <2>3. Cardinality(Upto(k)) <= k - since /\ Cardinality(Upto(k)) \in Nat
    BY <1>7, <2>1
  <2>4. Cardinality(Upto(k)) <= PageLimit
    BY <1>1, <2>3
  <2> QED
    BY <1>4, <1>12, <2>1, <2>2, <2>4
<1> QED
  <2>1. client.version > 0
    BY <1>1, <1>2
  <2> QED
    BY <1>6, <1>9, <1>10, <1>11, <1>12, <2>1 DEF PageIsGood, current

-----------------------------------------------------------------------------
(* Every step keeps the invariant. *)

LEMMA InitInv == Init => SyncInv
<1> SUFFICES ASSUME Init PROVE SyncInv
  OBVIOUS
<1>1. RosterInv /\ version = 0
  BY RosterInitInv DEF Init, RosterInit, version
<1>2. MaxVersion \in Nat /\ Creator \in Users
  BY RosterAssumption
<1>3. NoStream \in Stream /\ NoStream.buffer = <<>> /\ NoStream.phase = "closed"
  BY <1>2 DEF NoStream, Stream
<1>4. NoCall \in Call /\ NoCall.phase = "idle"
  BY <1>2 DEF NoCall, Call
<1>5. client \in Client /\ client.version = 0
  BY <1>2 DEF Init, Client, Roster
<1>6. TypeOK
  <2>1. calls \in [Callers -> Call]
    BY <1>4 DEF Init
  <2>2. stream \in Stream /\ Len(stream.buffer) <= SubscriberBuffer
    BY <1>3, SyncAssumption DEF Init
  <2>3. deleted \subseteq 1..version /\ pos \in 0..version
    BY <1>1 DEF Init
  <2>4. /\ listener \in {"listening", "lost", "down"}
        /\ gap \in BOOLEAN /\ damage \in {"none", "raced", "holed"}
    BY DEF Init
  <2> QED
    BY <1>1, <1>5, <2>1, <2>2, <2>3, <2>4 DEF TypeOK, RosterInv
<1>7. /\ Behind /\ Phases /\ LogIsThere /\ LogIsEven
      /\ ClientTruth /\ CoveredEarly /\ NothingBetween
  BY <1>1, <1>3, <1>4, <1>5
     DEF Init, Behind, Phases, LogIsThere, LogIsEven, ClientTruth, CoveredEarly, NothingBetween, Callers
<1> QED
  BY <1>1, <1>6, <1>7 DEF SyncInv

\* The types of the steps that leave the roster alone.
LEMMA RosterKept ==
  ASSUME SyncInv, UNCHANGED rosterVars
  PROVE  /\ RosterInv' /\ RosterTypeOK' /\ version' = version
         /\ \A v \in 0..version : RosterAt(v)' = RosterAt(v)
         /\ version \in Nat /\ version <= MaxVersion /\ MaxVersion \in Nat
<1>1. RosterInv'
  BY RosterStutter DEF SyncInv
<1> QED
  BY <1>1, RosterAssumption DEF RosterInv, rosterVars, version, RosterAt, SyncInv, RosterTypeOK

\* A mutation of the group, while everything else stands still.
LEMMA RosterMoves ==
  ASSUME SyncInv, RosterNext \/ UNCHANGED rosterVars, UNCHANGED syncVars
  PROVE  SyncInv'
<1> USE DEF SyncInv
<1>1. RosterInv'
  BY RosterStep, RosterStutter
<1>2. /\ version \in Nat /\ version' \in Nat /\ version <= version'
      /\ \A v \in 0..version : RosterAt(v)' = RosterAt(v)
  BY RosterGrows
<1>3. UNCHANGED <<deleted, listener, pos, stream, calls, client, gap, damage>>
  BY DEF syncVars
<1>4. TypeOK'
  BY <1>1, <1>2, <1>3 DEF TypeOK, RosterInv
<1>5. Behind'
  <2>1. client.version \in Nat /\ \A c \in Callers : calls[c].current \in Nat
    BY RosterAssumption DEF TypeOK, Client, Call
  <2> QED
    BY <1>2, <1>3, <2>1 DEF Behind
<1>6. Phases' /\ CoveredEarly' /\ NothingBetween'
  BY <1>3 DEF Phases, CoveredEarly, Waiting, NothingBetween
<1>7. LogIsThere' /\ LogIsEven'
  <2>1. LogIsThere'
    BY <1>3 DEF LogIsThere, CanServeDelta
  <2>2. LogIsEven'
    <3> SUFFICES ASSUME damage # "holed", NEW v \in deleted, NEW w \in Kept'
                 PROVE  v < w
      BY <1>3 DEF LogIsEven
    <3>1. v \in 1..version
      BY DEF TypeOK
    <3>2. w \in Kept \/ w \in version + 1 .. version'
      BY <1>2, <1>3 DEF Kept
    <3>3. CASE w \in Kept
      BY <3>3 DEF LogIsEven
    <3>4. CASE w \in version + 1 .. version'
      BY <1>2, <3>1, <3>4
    <3> QED
      BY <3>2, <3>3, <3>4
  <2> QED
    BY <2>1, <2>2
<1>8. ClientTruth'
  <2>1. client.version \in 0..version
    BY RosterAssumption DEF TypeOK, Client, Behind
  <2> QED
    BY <1>2, <1>3, <2>1 DEF ClientTruth
<1> QED
  BY <1>1, <1>4, <1>5, <1>6, <1>7, <1>8

\* A refused call ends; with it the stream that made it.
LEMMA RefusedKeeps ==
  ASSUME SyncInv, NEW c \in Callers, calls[c].phase # "idle", Refused(c),
         UNCHANGED <<rosterVars, deleted, listener, pos, damage>>
  PROVE  SyncInv'
<1> USE DEF SyncInv
<1>1. /\ RosterInv' /\ RosterTypeOK' /\ version' = version
      /\ \A v \in 0..version : RosterAt(v)' = RosterAt(v)
      /\ version \in Nat /\ version <= MaxVersion /\ MaxVersion \in Nat
  BY RosterKept
<1>2. /\ calls' = [calls EXCEPT ![c] = NoCall]
      /\ stream' = IF c = "stream" THEN NoStream ELSE stream
      /\ gap' = FALSE /\ client' = client
      /\ deleted' = deleted /\ listener' = listener /\ pos' = pos /\ damage' = damage
  BY DEF Refused, CloseStream
<1>3. NoStream \in Stream /\ NoStream.buffer = <<>> /\ NoStream.phase = "closed"
  BY <1>1 DEF NoStream, Stream
<1>4. NoCall \in Call /\ NoCall.phase = "idle"
  BY <1>1 DEF NoCall, Call
<1>5. calls \in [Callers -> Call] /\ stream \in Stream
  BY DEF TypeOK
<1>6. \A d \in Callers : calls'[d] = IF d = c THEN NoCall ELSE calls[d]
  BY <1>2, <1>5
<1>7. "stream" \in Callers
  BY DEF Callers
<1>8. TypeOK'
  <2>1. calls' \in [Callers -> Call]
    BY <1>2, <1>4, <1>5
  <2>2. stream' \in Stream /\ Len(stream'.buffer) <= SubscriberBuffer
    BY <1>2, <1>3, SyncAssumption DEF TypeOK
  <2> QED
    BY <1>1, <1>2, <2>1, <2>2 DEF TypeOK
<1>9. Behind'
  BY <1>1, <1>2, <1>3, <1>4, <1>6 DEF Behind
<1>10. Phases'
  BY <1>2, <1>3, <1>4, <1>6, <1>7 DEF Phases
<1>11. LogIsThere' /\ LogIsEven'
  BY <1>1, <1>2, <1>4, <1>6 DEF LogIsThere, LogIsEven, Kept, CanServeDelta
<1>12. ClientTruth'
  <2>1. client.version \in 0..version
    BY <1>1 DEF TypeOK, Client, Behind
  <2> QED
    BY <1>1, <1>2, <2>1 DEF ClientTruth
<1>13. CoveredEarly' /\ NothingBetween'
  BY <1>2, <1>3, <1>4, <1>6, <1>7 DEF CoveredEarly, NothingBetween, Waiting
<1> QED
  BY <1>1, <1>8, <1>9, <1>10, <1>11, <1>12, <1>13

LEMMA CheckMembershipKeeps ==
  ASSUME SyncInv, NEW c \in Callers, CheckMembership(c)
  PROVE  SyncInv'
<1>1. CASE Follower \notin active
  BY <1>1, RefusedKeeps DEF CheckMembership
<1>2. CASE Follower \in active
  <2> USE DEF SyncInv
  <2>1. /\ RosterInv' /\ RosterTypeOK' /\ version' = version
        /\ \A v \in 0..version : RosterAt(v)' = RosterAt(v)
        /\ version \in Nat /\ version <= MaxVersion /\ MaxVersion \in Nat
    BY RosterKept DEF CheckMembership
  <2>2. /\ calls' = [calls EXCEPT ![c].phase = "member"] /\ calls[c].phase = "asked"
        /\ UNCHANGED <<stream, client, gap, deleted, listener, pos, damage>>
    BY <1>2 DEF CheckMembership
  <2>3. calls \in [Callers -> Call]
    BY DEF TypeOK
  <2>4. /\ calls' \in [Callers -> Call]
        /\ \A d \in Callers : d # c => calls'[d] = calls[d]
        /\ calls'[c].phase = "member" /\ calls'[c].since = calls[c].since
    BY <2>2, <2>3 DEF Call
  <2>5. "stream" \in Callers
    BY DEF Callers
  <2>6. TypeOK'
    BY <2>1, <2>2, <2>4 DEF TypeOK
  <2>7. Behind'
    BY <2>1, <2>2, <2>4 DEF Behind
  <2>8. Phases'
    BY <2>2, <2>4, <2>5 DEF Phases
  <2>9. LogIsThere' /\ LogIsEven'
    BY <2>1, <2>2, <2>4 DEF LogIsThere, LogIsEven, Kept, CanServeDelta
  <2>10. ClientTruth'
    <3>1. client.version \in 0..version
      BY <2>1 DEF TypeOK, Client, Behind
    <3> QED
      BY <2>1, <2>2, <3>1 DEF ClientTruth
  <2>11. CoveredEarly' /\ NothingBetween'
    BY <2>2, <2>4, <2>5 DEF CoveredEarly, NothingBetween, Waiting
  <2> QED
    BY <2>1, <2>6, <2>7, <2>8, <2>9, <2>10, <2>11
<1> QED
  BY <1>1, <1>2

LEMMA GetSyncCursorKeeps ==
  ASSUME SyncInv, NEW c \in Callers, GetSyncCursor(c)
  PROVE  SyncInv'
<1> USE DEF SyncInv
<1>1. /\ RosterInv' /\ RosterTypeOK' /\ version' = version
      /\ \A v \in 0..version : RosterAt(v)' = RosterAt(v)
      /\ version \in Nat /\ version <= MaxVersion /\ MaxVersion \in Nat
  BY RosterKept DEF GetSyncCursor
<1>2. /\ calls' = [calls EXCEPT ![c].phase = "cursor", ![c].current = version,
                                ![c].oldest = OldestVersion]
      /\ calls[c].phase = "member"
      /\ UNCHANGED <<stream, client, gap, deleted, listener, pos, damage>>
  BY DEF GetSyncCursor
<1>3. calls \in [Callers -> Call] /\ deleted \subseteq 1..version /\ pos \in 0..version
  BY DEF TypeOK
<1>4. /\ OldestVersion \in 0..MaxVersion
      /\ OldestVersion > 0 => OldestVersion \in Kept
  <2>1. Kept \in SUBSET (1..version)
    BY DEF Kept
  <2>2. Kept # {} => Min(Kept) \in Kept
    BY <1>1, <2>1, MinIsIn
  <2>3. CASE Kept = {}
    BY <1>1, <2>3 DEF OldestVersion
  <2>4. CASE Kept # {}
    <3>1. OldestVersion \in Kept
      BY <2>2, <2>4 DEF OldestVersion
    <3>2. OldestVersion \in 1..version
      BY <2>1, <3>1
    <3> QED
      BY <1>1, <3>1, <3>2
  <2> QED
    BY <2>3, <2>4
<1>5. /\ calls' \in [Callers -> Call]
      /\ \A d \in Callers : d # c => calls'[d] = calls[d]
      /\ calls'[c].phase = "cursor" /\ calls'[c].since = calls[c].since
      /\ calls'[c].current = version /\ calls'[c].oldest = OldestVersion
  <2> DEFINE new == [calls[c] EXCEPT !.phase = "cursor", !.current = version,
                                     !.oldest = OldestVersion]
  <2>1. calls' = [calls EXCEPT ![c] = new]
    BY <1>2
  <2>2. calls[c] \in Call
    BY <1>3
  <2>3. /\ new.phase = "cursor" /\ new.since = calls[c].since
        /\ new.current = version /\ new.oldest = OldestVersion
    BY <2>2 DEF Call
  <2>4. version \in 0..MaxVersion
    BY <1>1
  <2>5. new \in Call
    BY <1>4, <2>2, <2>4 DEF Call
  <2> HIDE DEF new
  <2> QED
    BY <1>3, <2>1, <2>3, <2>5
<1>6. "stream" \in Callers
  BY DEF Callers
<1>7. TypeOK'
  BY <1>1, <1>2, <1>5 DEF TypeOK
<1>8. Behind'
  BY <1>1, <1>2, <1>5 DEF Behind
<1>9. Phases'
  BY <1>2, <1>5, <1>6 DEF Phases
<1>10. LogIsThere' /\ LogIsEven'
  <2>1. ASSUME damage = "none", CanServeDelta(calls'[c]), NEW v \in deleted
        PROVE  v <= calls'[c].since
    <3>1. calls'[c].since \in Nat /\ v \in 1..version
      BY <1>1, <1>3, <1>5 DEF Call
    <3>2. CASE calls'[c].since = calls'[c].current
      BY <1>1, <1>5, <3>1, <3>2
    <3>3. CASE calls'[c].oldest > 0 /\ calls'[c].oldest <= calls'[c].since + 1
      <4>1. v < OldestVersion
        BY <1>4, <1>5, <2>1, <3>3 DEF LogIsEven
      <4> QED
        BY <1>4, <1>5, <3>1, <3>3, <4>1
    <3> QED
      BY <2>1, <3>2, <3>3 DEF CanServeDelta
  <2>2. ASSUME NEW d \in Callers, d # c PROVE CanServeDelta(calls'[d]) <=> CanServeDelta(calls[d])
    BY <1>5, <2>2 DEF CanServeDelta
  <2>3. LogIsThere'
    BY <1>2, <1>5, <2>1, <2>2 DEF LogIsThere, CanServeDelta
  <2> QED
    BY <1>1, <1>2, <2>3 DEF LogIsEven, Kept
<1>11. ClientTruth'
  <2>1. client.version \in 0..version
    BY <1>1 DEF TypeOK, Client, Behind
  <2> QED
    BY <1>1, <1>2, <2>1 DEF ClientTruth
<1>12. CoveredEarly'
  <2>1. Waiting(version)
    BY <1>1, <1>3 DEF Waiting
  <2> QED
    BY <1>2, <1>5, <1>6, <2>1 DEF CoveredEarly, Waiting
<1>13. NothingBetween'
  BY <1>2, <1>5, <1>6 DEF NothingBetween
<1> QED
  BY <1>1, <1>7, <1>8, <1>9, <1>10, <1>11, <1>12, <1>13

\* The end of a call that brought the client and the stream up to v.
LEMMA AnsweredKeeps ==
  ASSUME SyncInv, NEW c \in Callers, calls[c].phase = "cursor",
         NEW v \in 0..version, damage # "holed" => calls[c].current <= v, Answered(c, v),
         ClientMoves, client'.version > 0,
         UNCHANGED <<rosterVars, deleted, listener, pos, damage>>
  PROVE  SyncInv'
<1> USE DEF SyncInv
<1>1. /\ RosterInv' /\ RosterTypeOK' /\ version' = version
      /\ \A u \in 0..version : RosterAt(u)' = RosterAt(u)
      /\ version \in Nat /\ version <= MaxVersion /\ MaxVersion \in Nat
  BY RosterKept
<1>2. /\ calls' = [calls EXCEPT ![c] = NoCall]
      /\ stream' = IF c = "stream" THEN [stream EXCEPT !.phase = "open", !.lastSent = v]
                                   ELSE stream
      /\ UNCHANGED <<deleted, listener, pos, damage>>
  BY DEF Answered
<1>3. NoCall \in Call /\ NoCall.phase = "idle"
  BY <1>1 DEF NoCall, Call
<1>4. /\ calls \in [Callers -> Call] /\ stream \in Stream
      /\ Len(stream.buffer) <= SubscriberBuffer
      /\ deleted \subseteq 1..version /\ pos \in 0..version
  BY DEF TypeOK
<1>5. \A d \in Callers : calls'[d] = IF d = c THEN NoCall ELSE calls[d]
  BY <1>2, <1>4
<1>6. "stream" \in Callers
  BY DEF Callers
<1>7. /\ stream' \in Stream /\ stream'.buffer = stream.buffer
      /\ stream'.missed = stream.missed /\ stream'.subscribed = stream.subscribed
      /\ c = "stream" => stream'.phase = "open" /\ stream'.lastSent = v
      /\ c # "stream" => stream' = stream
  <2>1. v \in 0..MaxVersion
    BY <1>1
  <2> QED
    BY <1>2, <1>4, <2>1 DEF Stream
<1>8. TypeOK'
  <2>1. calls' \in [Callers -> Call]
    BY <1>2, <1>3, <1>4
  <2> QED
    BY <1>1, <1>2, <1>4, <1>7, <2>1 DEF TypeOK, ClientMoves
<1>9. /\ client.version \in Nat /\ client'.version \in Nat
      /\ \A d \in Callers : calls[d].since \in Nat /\ calls[d].current \in Nat
  BY <1>1, <1>4 DEF TypeOK, ClientMoves, Client, Call
<1>10. Behind'
  BY <1>1, <1>2, <1>3, <1>5, <1>7, <1>9 DEF Behind, ClientMoves
<1>11. Phases'
  BY <1>3, <1>5, <1>6, <1>7, <1>9 DEF Phases
<1>12. LogIsThere' /\ LogIsEven'
  BY <1>1, <1>2, <1>3, <1>5 DEF LogIsThere, LogIsEven, Kept, CanServeDelta
<1>13. ClientTruth'
  BY <1>1, <1>2, <1>9 DEF ClientTruth, ClientMoves
<1>14. CoveredEarly'
  BY <1>2, <1>3, <1>5, <1>6, <1>7 DEF CoveredEarly, Waiting
<1>15. NothingBetween'
  <2>1. CASE c # "stream"
    BY <1>2, <1>7, <2>1 DEF NothingBetween
  <2>2. CASE c = "stream"
    <3> SUFFICES ASSUME ~ stream.missed, stream.subscribed, damage # "holed",
                        NEW w \in v + 1 .. pos
                 PROVE  \E k \in DOMAIN stream.buffer : stream.buffer[k] = w
      BY <1>2, <1>7, <2>2 DEF NothingBetween
    <3>1. w \in calls["stream"].current + 1 .. pos
      BY <1>1, <1>4, <1>9, <2>2
    <3> QED
      BY <2>2, <3>1 DEF CoveredEarly, Waiting
  <2> QED
    BY <2>1, <2>2
<1> QED
  BY <1>1, <1>8, <1>10, <1>11, <1>12, <1>13, <1>14, <1>15

\* The third read of a call, a delta or a snapshot.
LEMMA SyncKeeps ==
  ASSUME SyncInv, NEW c \in Callers, Sync(c)
  PROVE  SyncInv'
<1> DEFINE page == ListEventsSince(calls[c].since)
<1>1. calls[c].phase = "cursor" /\ UNCHANGED <<rosterVars, deleted, listener, pos, damage>>
  BY DEF Sync
<1>2. /\ version \in Nat /\ MaxVersion \in Nat /\ version <= MaxVersion
      /\ calls[c] \in Call /\ client \in Client
      /\ calls[c].current <= version /\ client.version <= version
  BY <1>1, RosterAssumption DEF SyncInv, TypeOK, RosterTypeOK, version, Behind
<1>3. calls[c].current \in 0..version /\ client.version \in 0..version
  BY <1>2 DEF Call, Client
<1>4. CASE ~ CanServeDelta(calls[c]) \/ TooLong(calls[c], page)
  <2>1. SendSnapshot(c)
    BY <1>4 DEF Sync
  <2>2. CASE Follower \notin active
    BY <1>1, <2>1, <2>2, RefusedKeeps DEF SendSnapshot
  <2>3. CASE Follower \in active
    <3>1. Answered(c, version) /\ ApplySnapshot
      BY <2>1, <2>3 DEF SendSnapshot
    <3>2. version > 0
      BY <2>3 DEF SyncInv, RosterInv, FollowerJoined
    <3>3. Present \in Roster /\ RosterAt(version) = Present
      BY DEF SyncInv, RosterInv, RosterTypeOK, RostersFollow, Roster, Present
    <3> DEFINE new == [version |-> version, roster |-> Present]
    <3>4. new \in Client /\ new.version = version /\ new.roster = Present
      BY <1>2, <3>3 DEF Client
    <3> HIDE DEF new
    <3>5. client' = (IF version < client.version THEN client ELSE new) /\ gap' = FALSE
      BY <3>1 DEF ApplySnapshot, new
    <3>6. client' = new
      BY <1>2, <1>3, <3>5
    <3>7. ClientMoves /\ client'.version > 0
      <4>1. client'.version = version /\ client'.roster = RosterAt(client'.version)
        BY <3>3, <3>4, <3>6
      <4>2. client' \in Client /\ gap' \in BOOLEAN
        BY <3>4, <3>5, <3>6
      <4> QED
        BY <1>2, <3>2, <4>1, <4>2 DEF ClientMoves
    <3> QED
      BY <1>1, <1>2, <3>1, <3>7, AnsweredKeeps
  <2> QED
    BY <2>2, <2>3
<1>5. CASE CanServeDelta(calls[c]) /\ ~ TooLong(calls[c], page)
  <2>1. SendDelta(c, page)
    BY <1>5 DEF Sync
  <2>2. PageIsGood(c, page)
    <3> HIDE DEF page
    <3> QED BY <1>1, <1>5, PageFacts DEF page
  <2> HIDE DEF page
  <2>3. CASE page = {}
    <3>1. Answered(c, calls[c].current) /\ ApplyNothing(calls[c].current)
      BY <2>1, <2>3 DEF SendDelta
    <3> DEFINE new == [client EXCEPT !.version = SomeMax(@, calls[c].current)]
    <3>2. SomeMax(client.version, calls[c].current) \in 0..version
      BY <1>3 DEF SomeMax
    <3>3. /\ new \in Client /\ new.version = SomeMax(client.version, calls[c].current)
          /\ new.roster = client.roster
      BY <1>2, <3>2 DEF Client
    <3>4. client' = new /\ gap' = FALSE
      BY <3>1 DEF ApplyNothing
    <3> HIDE DEF new
    <3>5. client.version <= new.version /\ new.version <= version
      BY <1>3, <3>3 DEF SomeMax
    <3>6. damage = "none" => new.version = client.version
      BY <1>3, <2>2, <2>3, <3>3 DEF SomeMax, PageIsGood
    <3>7. damage = "none" => client.roster = RosterAt(client.version)
      BY <2>2 DEF SyncInv, ClientTruth, PageIsGood
    <3>8. ClientMoves /\ client'.version > 0
      <4>1. damage = "none" => client'.roster = RosterAt(client'.version)
        BY <3>3, <3>4, <3>6, <3>7
      <4>2. client' \in Client /\ gap' \in BOOLEAN
        BY <3>3, <3>4
      <4>3. client.version <= client'.version /\ client'.version <= version
        BY <3>4, <3>5
      <4>4. client'.version > 0
        BY <1>2, <2>2, <4>2, <4>3 DEF Client, PageIsGood
      <4> QED
        BY <4>1, <4>2, <4>3, <4>4 DEF ClientMoves
    <3> QED
      BY <1>1, <1>3, <3>1, <3>8, AnsweredKeeps
  <2>4. CASE page # {}
    <3>1. /\ Answered(c, Max(page))
          /\ IF c = "stream" THEN ApplyFrames(page) ELSE ApplyResponse(page)
      BY <2>1, <2>4 DEF SendDelta
    <3>2. Max(page) \in 0..version /\ (damage # "holed" => calls[c].current <= Max(page))
      <4>1. /\ Max(page) \in page /\ page \in SUBSET (1..version)
            /\ damage # "holed" => calls[c].current <= Max(page)
        BY <2>2, <2>4 DEF PageIsGood
      <4>2. Max(page) \in 1..version
        BY <4>1
      <4> QED
        BY <1>2, <4>1, <4>2
    <3>3. ClientMoves /\ client'.version > 0
      <4>1. CASE c = "stream"
        BY <2>2, <3>1, <4>1, AppliedFrames DEF PageIsGood
      <4>2. CASE c # "stream"
        <5>1. Advance(page, Max(page)) /\ gap' \in BOOLEAN
          BY <3>1, <4>2 DEF ApplyResponse
        <5> QED
          BY <2>2, <2>4, <3>2, <5>1, Advanced DEF PageIsGood
      <4> QED
        BY <4>1, <4>2
    <3> QED
      BY <1>1, <3>1, <3>2, <3>3, AnsweredKeeps
  <2> QED
    BY <2>3, <2>4
<1> QED
  BY <1>4, <1>5

\* The retention job, which may come between two reads of a call.
LEMMA RunEventRetentionKeeps ==
  ASSUME SyncInv, NEW old \in SUBSET Kept, RunEventRetention(old)
  PROVE  SyncInv'
<1> USE DEF SyncInv
<1> DEFINE Hole == \E v \in deleted', w \in Kept \ old : w < v
           Race == \E c \in Callers, v \in old :
                     /\ calls[c].phase = "cursor" /\ CanServeDelta(calls[c])
                     /\ calls[c].since < v
<1>1. /\ RosterInv' /\ RosterTypeOK' /\ version' = version
      /\ \A u \in 0..version : RosterAt(u)' = RosterAt(u)
      /\ version \in Nat /\ version <= MaxVersion /\ MaxVersion \in Nat
  BY RosterKept DEF RunEventRetention
<1>2. /\ deleted' = deleted \cup old
      /\ damage' = IF Hole THEN "holed"
                   ELSE IF damage = "none" /\ Race THEN "raced" ELSE damage
      /\ UNCHANGED <<listener, pos, stream, calls, client, gap>>
  BY DEF RunEventRetention
<1>3. /\ deleted \subseteq 1..version /\ old \subseteq 1..version
      /\ damage \in {"none", "raced", "holed"} /\ Kept' = Kept \ old
  BY <1>1, <1>2 DEF TypeOK, Kept
<1>4. TypeOK'
  <2>1. damage' \in {"none", "raced", "holed"}
    BY <1>2, <1>3
  <2> QED
    BY <1>1, <1>2, <1>3, <2>1 DEF TypeOK
<1>5. /\ damage' # "holed" => damage # "holed" /\ ~ Hole
      /\ damage' = "none" => damage = "none" /\ ~ Race
  BY <1>2, <1>3
<1>6. Behind' /\ Phases' /\ CoveredEarly' /\ NothingBetween'
  BY <1>1, <1>2, <1>5 DEF Behind, Phases, CoveredEarly, Waiting, NothingBetween
<1>7. LogIsThere'
  <2> SUFFICES ASSUME damage' = "none", NEW c \in Callers, calls[c].phase = "cursor",
                      CanServeDelta(calls[c]), NEW v \in deleted \cup old
               PROVE  v <= calls[c].since
    BY <1>2 DEF LogIsThere, CanServeDelta
  <2>1. calls[c].since \in Nat /\ v \in 1..version
    BY <1>1, <1>3 DEF TypeOK, Call
  <2>2. CASE v \in deleted
    BY <1>5, <2>2 DEF LogIsThere
  <2>3. CASE v \in old
    <3>1. ~ (calls[c].since < v)
      BY <1>5, <2>3
    <3> QED
      BY <1>1, <2>1, <3>1
  <2> QED
    BY <2>2, <2>3
<1>8. LogIsEven'
  <2> SUFFICES ASSUME damage' # "holed", NEW v \in deleted', NEW w \in Kept'
               PROVE  v < w
    BY DEF LogIsEven
  <2>1. ~ (w < v)
    BY <1>3, <1>5
  <2>2. v \in 1..version /\ w \in 1..version /\ v # w
    BY <1>1, <1>2, <1>3 DEF Kept
  <2> QED
    BY <1>1, <2>1, <2>2
<1>9. ClientTruth'
  <2>1. client.version \in 0..version
    BY <1>1 DEF TypeOK, Client, Behind
  <2> QED
    BY <1>1, <1>2, <1>5, <2>1 DEF ClientTruth
<1> QED
  BY <1>1, <1>4, <1>6, <1>7, <1>8, <1>9

\* A new call of an idle caller, the stream's together with its stream.
LEMMA AskedKeeps ==
  ASSUME SyncInv, NEW c \in Callers, calls[c].phase = "idle",
         calls' = [calls EXCEPT ![c] = [NoCall EXCEPT !.phase = "asked",
                                                      !.since = client.version]],
         \/ /\ c = "stream"
            /\ stream' = [NoStream EXCEPT !.phase = "starting", !.subscribed = TRUE]
         \/ c # "stream" /\ stream' = stream,
         UNCHANGED <<rosterVars, deleted, listener, pos, client, gap, damage>>
  PROVE  SyncInv'
<1> DEFINE call == [NoCall EXCEPT !.phase = "asked", !.since = client.version]
           fresh == [NoStream EXCEPT !.phase = "starting", !.subscribed = TRUE]
<1> USE DEF SyncInv
<1>1. /\ RosterInv' /\ RosterTypeOK' /\ version' = version
      /\ \A u \in 0..version : RosterAt(u)' = RosterAt(u)
      /\ version \in Nat /\ version <= MaxVersion /\ MaxVersion \in Nat
  BY RosterKept
<1>2. client \in Client /\ client.version \in 0..MaxVersion /\ client.version \in 0..version
  BY <1>1 DEF TypeOK, Client, Behind
<1>3. call \in Call /\ call.phase = "asked" /\ call.since = client.version
  <2>1. NoCall \in Call
    BY <1>1 DEF NoCall, Call
  <2> QED
    BY <1>2, <2>1 DEF Call
<1>4. fresh \in Stream /\ fresh.phase = "starting" /\ fresh.buffer = <<>>
  <2>1. NoStream \in Stream /\ NoStream.buffer = <<>>
    BY <1>1 DEF NoStream, Stream
  <2> QED
    BY <2>1 DEF Stream
<1>5. calls' = [calls EXCEPT ![c] = call] /\ (c = "stream" => stream' = fresh)
  OBVIOUS
<1> HIDE DEF call, fresh
<1>6. calls \in [Callers -> Call] /\ stream \in Stream /\ Len(stream.buffer) <= SubscriberBuffer
  BY DEF TypeOK
<1>7. \A d \in Callers : calls'[d] = IF d = c THEN call ELSE calls[d]
  BY <1>5, <1>6
<1>8. "stream" \in Callers
  BY DEF Callers
<1>9. TypeOK'
  <2>1. calls' \in [Callers -> Call]
    BY <1>3, <1>5, <1>6
  <2>2. stream' \in Stream /\ Len(stream'.buffer) <= SubscriberBuffer
    BY <1>4, <1>5, <1>6, SyncAssumption
  <2> QED
    BY <1>1, <2>1, <2>2 DEF TypeOK
<1>10. Behind'
  <2>1. \A k \in DOMAIN stream'.buffer : stream'.buffer[k] <= pos
    BY <1>4, <1>5 DEF Behind
  <2> QED
    BY <1>1, <1>2, <1>3, <1>7, <2>1 DEF Behind
<1>11. Phases'
  BY <1>3, <1>4, <1>5, <1>7, <1>8 DEF Phases
<1>12. LogIsThere' /\ LogIsEven'
  BY <1>1, <1>3, <1>7 DEF LogIsThere, LogIsEven, Kept, CanServeDelta
<1>13. ClientTruth'
  BY <1>1, <1>2 DEF ClientTruth
<1>14. CoveredEarly' /\ NothingBetween'
  BY <1>3, <1>4, <1>5, <1>7, <1>8 DEF CoveredEarly, Waiting, NothingBetween
<1> QED
  BY <1>1, <1>9, <1>10, <1>11, <1>12, <1>13, <1>14

\* A step of the stream, of the hub or of the listener.
LEMMA StreamKeeps ==
  ASSUME SyncInv, UNCHANGED <<rosterVars, deleted, calls, damage>>,
         listener' \in {"listening", "lost", "down"},
         pos' \in 0..version, pos <= pos',
         stream' \in Stream, Len(stream'.buffer) <= SubscriberBuffer,
         \A k \in DOMAIN stream'.buffer : stream'.buffer[k] <= pos',
         stream'.phase = "starting" <=> stream.phase = "starting",
         stream'.phase = "open" => stream.phase = "open",
         ClientMoves, CoveredEarly', NothingBetween'
  PROVE  SyncInv'
<1> USE DEF SyncInv
<1>1. /\ RosterInv' /\ RosterTypeOK' /\ version' = version
      /\ \A u \in 0..version : RosterAt(u)' = RosterAt(u)
      /\ version \in Nat /\ version <= MaxVersion /\ MaxVersion \in Nat
  BY RosterKept
<1>2. /\ client.version \in Nat /\ client'.version \in Nat
      /\ \A d \in Callers : calls[d].since \in Nat
  BY <1>1 DEF TypeOK, ClientMoves, Client, Call
<1>3. TypeOK'
  BY <1>1 DEF TypeOK, ClientMoves
<1>4. Behind'
  BY <1>1, <1>2 DEF Behind, ClientMoves
<1>5. Phases'
  BY <1>2 DEF Phases, ClientMoves
<1>6. LogIsThere' /\ LogIsEven'
  BY <1>1 DEF LogIsThere, LogIsEven, Kept, CanServeDelta
<1>7. ClientTruth'
  BY <1>1, <1>2 DEF ClientTruth, ClientMoves
<1> QED
  BY <1>1, <1>3, <1>4, <1>5, <1>6, <1>7

\* The end of an open stream.
LEMMA ClosedKeeps ==
  ASSUME SyncInv, stream.phase = "open", CloseStream, ClientMoves,
         UNCHANGED <<rosterVars, deleted, listener, pos, calls, damage>>
  PROVE  SyncInv'
<1>1. MaxVersion \in Nat /\ stream' = NoStream
  BY RosterAssumption DEF CloseStream
<1>2. NoStream \in Stream /\ NoStream.phase = "closed" /\ NoStream.buffer = <<>>
  BY <1>1 DEF NoStream, Stream
<1>3. /\ listener' \in {"listening", "lost", "down"}
      /\ pos' \in 0..version /\ pos <= pos' /\ pos' = pos
  BY RosterAssumption DEF SyncInv, TypeOK
<1>4. Len(stream'.buffer) <= SubscriberBuffer
  BY <1>1, <1>2, SyncAssumption
<1>5. calls["stream"].phase = "idle" /\ calls' = calls
  BY DEF SyncInv, Phases
<1>6. CoveredEarly' /\ NothingBetween'
  BY <1>1, <1>2, <1>5 DEF CoveredEarly, NothingBetween
<1>7. \A k \in DOMAIN stream'.buffer : stream'.buffer[k] <= pos'
  BY <1>1, <1>2
<1> QED
  BY <1>1, <1>2, <1>3, <1>4, <1>6, <1>7, StreamKeeps

\* The channel: what is left of it, and what is added to it.
LEMMA TakenFromSeq ==
  ASSUME NEW S, NEW q \in Seq(S), q # <<>>
  PROVE  /\ Head(q) = q[1] /\ 1 \in DOMAIN q /\ Head(q) \in S
         /\ Tail(q) \in Seq(S) /\ Len(Tail(q)) = Len(q) - 1
         /\ \A k \in DOMAIN Tail(q) : k + 1 \in DOMAIN q /\ Tail(q)[k] = q[k + 1]
         /\ \A k \in DOMAIN q :
              k # 1 => k - 1 \in DOMAIN Tail(q) /\ Tail(q)[k - 1] = q[k]
<1>1. Len(q) \in Nat /\ DOMAIN q = 1..Len(q) /\ Len(q) # 0
  OBVIOUS
<1>2. Head(q) = q[1] /\ 1 \in DOMAIN q /\ q[1] \in S
  BY <1>1
<1>3. Tail(q) \in Seq(S) /\ Len(Tail(q)) = Len(q) - 1
  OBVIOUS
<1>4. DOMAIN Tail(q) = 1..(Len(q) - 1)
  BY <1>1, <1>3
<1>5. \A k \in 1..(Len(q) - 1) : Tail(q)[k] = q[k + 1]
  OBVIOUS
<1>6. \A k \in DOMAIN q : k # 1 => k - 1 \in 1..(Len(q) - 1) /\ (k - 1) + 1 = k
  BY <1>1
<1> QED
  BY <1>1, <1>2, <1>3, <1>4, <1>5, <1>6

LEMMA AddedToSeq ==
  ASSUME NEW S, NEW q \in Seq(S), NEW x \in S
  PROVE  /\ Append(q, x) \in Seq(S) /\ Len(Append(q, x)) = Len(q) + 1
         /\ \A k \in DOMAIN Append(q, x) :
              \/ Append(q, x)[k] = x
              \/ k \in DOMAIN q /\ Append(q, x)[k] = q[k]
         /\ \A k \in DOMAIN q : k \in DOMAIN Append(q, x) /\ Append(q, x)[k] = q[k]
         /\ Len(q) + 1 \in DOMAIN Append(q, x) /\ Append(q, x)[Len(q) + 1] = x
<1>1. Len(q) \in Nat /\ DOMAIN q = 1..Len(q)
  OBVIOUS
<1>2. Append(q, x) \in Seq(S) /\ Len(Append(q, x)) = Len(q) + 1
  OBVIOUS
<1>3. DOMAIN Append(q, x) = 1..(Len(q) + 1)
  BY <1>1, <1>2
<1>4. \A k \in 1..Len(q) : Append(q, x)[k] = q[k]
  OBVIOUS
<1>5. Append(q, x)[Len(q) + 1] = x
  OBVIOUS
<1> QED
  BY <1>1, <1>2, <1>3, <1>4, <1>5

\* The stream's handler takes a version from its channel.
LEMMA WriteEventKeeps ==
  ASSUME SyncInv, WriteEvent
  PROVE  SyncInv'
<1> DEFINE v == Head(stream.buffer)
<1>1. /\ stream.phase = "open" /\ stream.buffer # <<>>
      /\ UNCHANGED <<rosterVars, deleted, listener, pos, calls, damage>>
  BY DEF WriteEvent
<1>2. /\ stream \in Stream /\ Len(stream.buffer) <= SubscriberBuffer
      /\ pos \in 0..version /\ version \in Nat /\ version <= MaxVersion /\ MaxVersion \in Nat
      /\ SubscriberBuffer \in Nat /\ listener \in {"listening", "lost", "down"}
  BY RosterAssumption, SyncAssumption DEF SyncInv, TypeOK, RosterTypeOK, version
<1>3. stream.buffer \in Seq(1..MaxVersion) /\ stream.lastSent \in 0..MaxVersion
  BY <1>2 DEF Stream
<1>4. v \in 1..MaxVersion /\ v = stream.buffer[1] /\ 1 \in DOMAIN stream.buffer
  BY <1>1, <1>3, TakenFromSeq
<1>5. v <= pos /\ v \in 0..version
  <2>1. v <= pos
    BY <1>4 DEF SyncInv, Behind
  <2> QED
    BY <1>2, <1>4, <2>1
<1>6. client.version > 0
  BY <1>1 DEF SyncInv, Phases
<1>7. ClientMoves
  <2>1. CASE v <= stream.lastSent
    <3>1. client' = client /\ gap' \in BOOLEAN
      BY <2>1 DEF WriteEvent, SyncInv, TypeOK
    <3> QED
      BY <3>1, ClientRests
  <2>2. CASE ~ (v <= stream.lastSent)
    <3>1. ApplyFrames({v})
      BY <2>2 DEF WriteEvent
    <3>2. {v} \in SUBSET (1..version)
      BY <1>2, <1>4, <1>5
    <3> HIDE DEF v
    <3> QED
      BY <1>6, <3>1, <3>2, AppliedFrames
  <2> QED
    BY <2>1, <2>2
<1>8. CASE CloseStream
  BY <1>1, <1>7, <1>8, ClosedKeeps
<1>9. CASE stream' = TakeEvent
  <2> DEFINE s == SomeMax(stream.lastSent, v)
  <2>1. s \in 0..MaxVersion /\ stream.lastSent <= s /\ v <= s
    BY <1>3, <1>4 DEF SomeMax
  <2>2. /\ Tail(stream.buffer) \in Seq(1..MaxVersion)
        /\ Len(Tail(stream.buffer)) = Len(stream.buffer) - 1
    BY <1>1, <1>3, TakenFromSeq
  <2>3. stream' = [stream EXCEPT !.buffer = Tail(@), !.lastSent = s]
    BY <1>9 DEF TakeEvent
  <2> HIDE DEF s
  <2>4. /\ stream' \in Stream
        /\ stream'.buffer = Tail(stream.buffer) /\ stream'.lastSent = s
        /\ stream'.phase = stream.phase /\ stream'.missed = stream.missed
        /\ stream'.subscribed = stream.subscribed
    BY <1>2, <2>1, <2>2, <2>3 DEF Stream
  <2>5. Len(stream'.buffer) <= SubscriberBuffer
    BY <1>2, <1>3, <2>2, <2>4
  <2>6. \A k \in DOMAIN stream'.buffer : stream'.buffer[k] <= pos'
    <3>1. ASSUME NEW k \in DOMAIN stream'.buffer
          PROVE  k + 1 \in DOMAIN stream.buffer /\ stream'.buffer[k] = stream.buffer[k + 1]
      BY <1>1, <1>3, <2>4, TakenFromSeq
    <3> QED
      BY <1>1, <3>1 DEF SyncInv, Behind
  <2>7. NothingBetween'
    <3> SUFFICES ASSUME ~ stream.missed, stream.subscribed, damage # "holed",
                        NEW w \in s + 1 .. pos
                 PROVE  \E k \in DOMAIN stream'.buffer : stream'.buffer[k] = w
      BY <1>1, <2>4 DEF NothingBetween
    <3>1. w \in stream.lastSent + 1 .. pos /\ w # v
      BY <1>2, <1>3, <1>4, <2>1
    <3>2. PICK k \in DOMAIN stream.buffer : stream.buffer[k] = w
      BY <1>1, <3>1 DEF SyncInv, NothingBetween
    <3>3. k # 1
      BY <1>4, <3>1, <3>2
    <3>4. k - 1 \in DOMAIN Tail(stream.buffer) /\ Tail(stream.buffer)[k - 1] = w
      BY <1>1, <1>3, <3>2, <3>3, TakenFromSeq
    <3> QED
      BY <2>4, <3>4
  <2>8. CoveredEarly'
    BY <1>1 DEF SyncInv, Phases, CoveredEarly
  <2>9. pos' \in 0..version /\ pos <= pos' /\ listener' \in {"listening", "lost", "down"}
    BY <1>1, <1>2
  <2> QED
    BY <1>1, <1>7, <2>4, <2>5, <2>6, <2>7, <2>8, <2>9, StreamKeeps
<1> QED
  BY <1>8, <1>9 DEF WriteEvent

LEMMA HandlePostgresNotificationKeeps ==
  ASSUME SyncInv, HandlePostgresNotification
  PROVE  SyncInv'
<1>1. /\ listener' = listener /\ pos < version /\ pos' = pos + 1 /\ Publish(pos + 1)
      /\ UNCHANGED <<rosterVars, deleted, calls, damage>> /\ client' = client /\ gap' = gap
  BY DEF HandlePostgresNotification
<1>2. /\ stream \in Stream /\ Len(stream.buffer) <= SubscriberBuffer
      /\ pos \in 0..version /\ version \in Nat /\ version <= MaxVersion /\ MaxVersion \in Nat
      /\ SubscriberBuffer \in Nat /\ listener \in {"listening", "lost", "down"}
      /\ gap \in BOOLEAN
  BY RosterAssumption, SyncAssumption DEF SyncInv, TypeOK, RosterTypeOK, version
<1>3. stream.buffer \in Seq(1..MaxVersion)
  BY <1>2 DEF Stream
<1>4. pos' \in 0..version /\ pos <= pos' /\ pos' \in 1..MaxVersion
  BY <1>1, <1>2
<1>5. ClientMoves
  BY <1>1, <1>2, ClientRests
<1>6. \A k \in DOMAIN stream.buffer : stream.buffer[k] \in Nat /\ stream.buffer[k] <= pos
  <2>1. ASSUME NEW q \in Seq(1..MaxVersion), NEW k \in DOMAIN q PROVE q[k] \in Nat
    BY <1>2
  <2> QED
    BY <1>3, <2>1 DEF SyncInv, Behind
<1>7. CASE stream.subscribed /\ Len(stream.buffer) < SubscriberBuffer
  <2> DEFINE b == Append(stream.buffer, pos')
  <2>1. b \in Seq(1..MaxVersion) /\ Len(b) <= SubscriberBuffer
    <3>1. b \in Seq(1..MaxVersion) /\ Len(b) = Len(stream.buffer) + 1
      BY <1>3, <1>4, AddedToSeq
    <3>2. Len(stream.buffer) \in Nat
      BY <1>3
    <3> HIDE DEF b
    <3> QED
      BY <1>2, <1>7, <3>1, <3>2
  <2>2. /\ \A k \in DOMAIN b :
             b[k] = pos' \/ (k \in DOMAIN stream.buffer /\ b[k] = stream.buffer[k])
        /\ \A k \in DOMAIN stream.buffer : k \in DOMAIN b /\ b[k] = stream.buffer[k]
        /\ \E k \in DOMAIN b : b[k] = pos'
    <3> DEFINE q == stream.buffer
    <3>1. /\ \A k \in DOMAIN Append(q, pos') :
               \/ Append(q, pos')[k] = pos'
               \/ k \in DOMAIN q /\ Append(q, pos')[k] = q[k]
          /\ \A k \in DOMAIN q : k \in DOMAIN Append(q, pos') /\ Append(q, pos')[k] = q[k]
          /\ Len(q) + 1 \in DOMAIN Append(q, pos') /\ Append(q, pos')[Len(q) + 1] = pos'
      <4> HIDE DEF q
      <4> QED
        BY <1>3, <1>4, AddedToSeq DEF q
    <3> QED
      BY <3>1
  <2>3. stream' = [stream EXCEPT !.buffer = b]
    BY <1>1, <1>7 DEF Publish
  <2> HIDE DEF b
  <2>4. /\ stream' \in Stream /\ stream'.buffer = b
        /\ stream'.phase = stream.phase /\ stream'.missed = stream.missed
        /\ stream'.subscribed = stream.subscribed /\ stream'.lastSent = stream.lastSent
    BY <1>2, <2>1, <2>3 DEF Stream
  <2>5. \A k \in DOMAIN b : b[k] <= pos'
    BY <1>2, <1>4, <1>6, <2>2
  <2>6. ASSUME NEW from \in 0..MaxVersion, Waiting(from)
        PROVE  \A w \in from + 1 .. pos' : \E k \in DOMAIN b : b[k] = w
    <3> SUFFICES ASSUME NEW w \in from + 1 .. pos' PROVE \E k \in DOMAIN b : b[k] = w
      OBVIOUS
    <3>1. CASE w = pos'
      BY <2>2, <3>1
    <3>2. CASE w # pos'
      <4>1. w \in from + 1 .. pos
        BY <1>1, <1>2, <3>2
      <4> QED
        BY <2>2, <2>6, <4>1 DEF Waiting
    <3> QED
      BY <3>1, <3>2
  <2>7. stream.lastSent \in 0..MaxVersion /\ calls["stream"].current \in 0..MaxVersion
    BY <1>2 DEF SyncInv, TypeOK, Stream, Call, Callers
  <2>8. CoveredEarly'
    BY <1>1, <2>4, <2>6, <2>7 DEF SyncInv, CoveredEarly, Waiting
  <2>9. NothingBetween'
    BY <1>1, <2>4, <2>6, <2>7 DEF SyncInv, NothingBetween, Waiting
  <2> QED
    BY <1>1, <1>2, <1>4, <1>5, <2>1, <2>4, <2>5, <2>8, <2>9, StreamKeeps
<1>8. CASE ~ (stream.subscribed /\ Len(stream.buffer) < SubscriberBuffer)
  <2>1. /\ stream' \in Stream /\ stream'.buffer = stream.buffer
        /\ stream'.phase = stream.phase /\ stream'.subscribed = stream.subscribed
        /\ stream'.missed \/ ~ stream'.subscribed
    BY <1>1, <1>2, <1>8 DEF Publish, Stream
  <2>2. \A k \in DOMAIN stream'.buffer : stream'.buffer[k] <= pos'
    BY <1>1, <1>2, <1>6, <2>1
  <2>3. CoveredEarly' /\ NothingBetween'
    BY <2>1 DEF CoveredEarly, NothingBetween
  <2> QED
    BY <1>1, <1>2, <1>4, <1>5, <2>1, <2>2, <2>3, StreamKeeps
<1> QED
  BY <1>7, <1>8

\* The hub and the listener without a new event.
LEMMA ListenerKeeps ==
  ASSUME SyncInv, LoseSession \/ CloseSubscribers \/ Listen
  PROVE  SyncInv'
<1>1. /\ stream \in Stream /\ Len(stream.buffer) <= SubscriberBuffer
      /\ pos \in 0..version /\ version \in Nat /\ version <= MaxVersion /\ MaxVersion \in Nat
      /\ gap \in BOOLEAN
  BY RosterAssumption DEF SyncInv, TypeOK, RosterTypeOK, version
<1>2. stream.buffer \in Seq(1..MaxVersion)
  BY <1>1 DEF Stream
<1>3. \A k \in DOMAIN stream.buffer : stream.buffer[k] \in Nat /\ stream.buffer[k] <= pos
  <2>1. ASSUME NEW q \in Seq(1..MaxVersion), NEW k \in DOMAIN q PROVE q[k] \in Nat
    BY <1>1
  <2> QED
    BY <1>2, <2>1 DEF SyncInv, Behind
<1>4. ClientMoves
  BY <1>1, ClientRests DEF LoseSession, CloseSubscribers, Listen
<1>5. CASE LoseSession
  <2>1. /\ listener' = "lost"
        /\ UNCHANGED <<rosterVars, deleted, pos, stream, calls, damage>>
    BY <1>5 DEF LoseSession
  <2>2. pos' \in 0..version /\ pos <= pos'
    BY <1>1, <2>1
  <2>3. CoveredEarly' /\ NothingBetween'
    BY <2>1 DEF SyncInv, CoveredEarly, Waiting, NothingBetween
  <2> QED
    BY <1>1, <1>3, <1>4, <2>1, <2>2, <2>3, StreamKeeps
<1>6. CASE CloseSubscribers
  <2>1. /\ listener' = "down" /\ stream' = [stream EXCEPT !.subscribed = FALSE]
        /\ UNCHANGED <<rosterVars, deleted, pos, calls, damage>>
    BY <1>6 DEF CloseSubscribers
  <2>2. pos' \in 0..version /\ pos <= pos'
    BY <1>1, <2>1
  <2>3. /\ stream' \in Stream /\ stream'.buffer = stream.buffer
        /\ stream'.phase = stream.phase /\ ~ stream'.subscribed
    BY <1>1, <2>1 DEF Stream
  <2>4. CoveredEarly' /\ NothingBetween'
    BY <2>3 DEF CoveredEarly, NothingBetween
  <2> QED
    BY <1>1, <1>3, <1>4, <2>1, <2>2, <2>3, <2>4, StreamKeeps
<1>7. CASE Listen
  <2>1. /\ listener' = "listening" /\ pos' = version
        /\ stream' = [stream EXCEPT !.missed = @ \/ pos < version]
        /\ UNCHANGED <<rosterVars, deleted, calls, damage>>
    BY <1>7 DEF Listen
  <2>2. pos' \in 0..version /\ pos <= pos'
    BY <1>1, <2>1
  <2>3. /\ stream'.buffer = stream.buffer /\ stream'.lastSent = stream.lastSent
        /\ stream'.phase = stream.phase /\ stream'.subscribed = stream.subscribed
        /\ stream'.missed = (stream.missed \/ pos < version)
    BY <1>1, <2>1 DEF Stream
  <2>4. stream' \in Stream
    <3>1. stream.missed \in BOOLEAN
      BY <1>1 DEF Stream
    <3>2. (stream.missed \/ pos < version) \in BOOLEAN
      OBVIOUS
    <3> QED
      BY <1>1, <2>1, <3>2 DEF Stream
  <2>5. \A k \in DOMAIN stream'.buffer : stream'.buffer[k] <= pos'
    BY <1>1, <1>3, <2>1, <2>2, <2>3
  <2>6. ASSUME ~ stream'.missed PROVE pos' = pos
    <3>1. ~ (pos < version)
      BY <2>3, <2>6
    <3> QED
      BY <1>1, <2>1, <3>1
  <2>7. ~ stream'.missed => ~ stream.missed
    BY <2>3
  <2>8. CoveredEarly'
    <3> SUFFICES ASSUME calls["stream"].phase = "cursor", ~ stream'.missed, stream.subscribed
                 PROVE  Waiting(calls["stream"].current)'
      BY <2>1, <2>3 DEF CoveredEarly
    <3>1. Waiting(calls["stream"].current)
      BY <2>7 DEF SyncInv, CoveredEarly
    <3> QED
      BY <2>1, <2>3, <2>6, <3>1 DEF Waiting
  <2>9. NothingBetween'
    <3> SUFFICES ASSUME stream.phase = "open", ~ stream'.missed, stream.subscribed,
                        damage # "holed"
                 PROVE  Waiting(stream.lastSent)'
      BY <2>1, <2>3 DEF NothingBetween, Waiting
    <3>1. Waiting(stream.lastSent)
      BY <2>7 DEF SyncInv, NothingBetween, Waiting
    <3> QED
      BY <2>3, <2>6, <3>1 DEF Waiting
  <2> QED
    BY <1>1, <1>4, <2>1, <2>2, <2>3, <2>4, <2>5, <2>8, <2>9, StreamKeeps
<1> QED
  BY <1>5, <1>6, <1>7

LEMMA SyncStep ==
  ASSUME SyncInv, [Next]_vars
  PROVE  SyncInv'
<1>1. CASE RosterNext /\ UNCHANGED syncVars
  BY <1>1, RosterMoves
<1>2. ASSUME NEW c \in Callers, Reads(c) PROVE SyncInv'
  BY <1>2, CheckMembershipKeeps, GetSyncCursorKeeps, SyncKeeps DEF Reads
<1>3. ASSUME NEW old \in SUBSET Kept, RunEventRetention(old) PROVE SyncInv'
  BY <1>3, RunEventRetentionKeeps
<1>4. CASE StreamGroupEvents
  <2>1. calls["stream"].phase = "idle" /\ "stream" \in Callers
    BY <1>4 DEF StreamGroupEvents, SyncInv, Phases, Callers
  <2> QED
    BY <1>4, <2>1, AskedKeeps DEF StreamGroupEvents
<1>5. CASE SyncGroup
  <2>1. "client" \in Callers /\ "client" # "stream"
    BY DEF Callers
  <2> QED
    BY <1>5, <2>1, AskedKeeps DEF SyncGroup
<1>6. CASE ConnectionBreaks \/ ChannelClosed \/ MaxConnectionAge
  <2>1. /\ stream.phase = "open" /\ CloseStream
        /\ UNCHANGED <<rosterVars, deleted, listener, pos, calls, client, gap, damage>>
    BY <1>6 DEF ConnectionBreaks, ChannelClosed, MaxConnectionAge
  <2>2. ClientMoves
    BY <2>1, ClientRests DEF SyncInv, TypeOK
  <2> QED
    BY <2>1, <2>2, ClosedKeeps
<1>7. CASE WriteEvent
  BY <1>7, WriteEventKeeps
<1>8. CASE HandlePostgresNotification
  BY <1>8, HandlePostgresNotificationKeeps
<1>9. CASE LoseSession \/ CloseSubscribers \/ Listen
  BY <1>9, ListenerKeeps
<1>10. CASE UNCHANGED vars
  BY <1>10, RosterMoves DEF vars
<1> QED
  BY <1>1, <1>2, <1>3, <1>4, <1>5, <1>6, <1>7, <1>8, <1>9, <1>10 DEF Next, Handler

-----------------------------------------------------------------------------
(* Theorems. *)

\* The inductive invariant of GroupSync.
THEOREM SyncInvHolds == Spec => []SyncInv
<1>1. SyncInv /\ [Next]_vars => SyncInv'
  BY SyncStep
<1> QED
  BY <1>1, InitInv, PTL DEF Spec

\* The tables of a group, the log of its events, the stream and the client
\* keep their types: in particular a channel never holds more than its
\* capacity, and nobody is ahead of the roster's version.
THEOREM SyncTypes == Spec => []TypeOK
<1>1. SyncInv => TypeOK
  BY DEF SyncInv
<1> QED
  BY <1>1, SyncInvHolds, PTL

\* A group has at most one invite that can be used, none once it is
\* disbanded, and no invite is used beyond its limit.
THEOREM OneInviteHolds == Spec => []OneInvite
<1>1. SyncInv => OneInvite
  BY OneInviteFollows DEF SyncInv, RosterInv
<1> QED
  BY <1>1, SyncInvHolds, PTL

\* The client holds the roster of the version it has, by events, pages and
\* snapshots in any order, as long as the retention job neither cut the log
\* between two reads of a call nor deleted an event before an older one.
THEOREM ClientIsTrue == Spec => []ClientTruth
<1>1. SyncInv => ClientTruth
  BY DEF SyncInv
<1> QED
  BY <1>1, SyncInvHolds, PTL

\* An open stream that missed nothing has sent, or holds, all that the
\* listener was sent since its first page, as long as the retention job never
\* deleted an event before an older one.
THEOREM NothingIsBetween == Spec => []NothingBetween
<1>1. SyncInv => NothingBetween
  BY DEF SyncInv
<1> QED
  BY <1>1, SyncInvHolds, PTL
=============================================================================
