---------------------------- MODULE GroupRoster ----------------------------
(***************************************************************************)
(* One group: its members, its invites, and the numbered events the        *)
(* mutations of its roster leave behind.                                   *)
(*                                                                         *)
(* Every mutation locks the row of the group before it reads anything that *)
(* can change, so it is one step, which ends in emitGroupEvent.  A refused *)
(* request changes nothing and is left out; so are the refusals because of *)
(* debts, bills or a batch, which are in Settlement and BillClose: a       *)
(* member without debts may leave at any time here.                        *)
(***************************************************************************)
EXTENDS Integers, Sequences, FiniteSets

CONSTANTS
  Users,
  Creator,     \* who created the group
  Invites,     \* bound: invites that are not withdrawn; the place of one that
               \* can never be used again may go to a new one
  MaxUses,     \* values of max_uses; 0 stands for NULL, no limit
  MemberLimit, \* maxActiveMembers
  MaxVersion   \* bound: roster events

ASSUME RosterAssumption ==
  /\ Creator \in Users
  /\ MaxUses \subseteq Nat /\ MaxUses # {}
  /\ MemberLimit \in Nat \ {0} /\ MaxVersion \in Nat

VARIABLES
  archived, \* groups.status = 'archived'
  active,   \* users whose group_members row is active
  captain,  \* user whose row has role 'captain'
  invites,  \* group_invites
  events,   \* history: every event inserted; Len(events) is roster_version
  rosters   \* history: what the tables held after each event, and at first

rosterVars == <<archived, active, captain, invites, events, rosters>>

-----------------------------------------------------------------------------
Types == {"member_joined", "member_left", "captain_transferred",
          "group_renamed", "group_archived"}
Event == [type : Types, user : Users]
Invite == [open : BOOLEAN, max : MaxUses, uses : Nat]
Roster == [active : SUBSET Users, captain : Users]

RosterTypeOK ==
  /\ archived \in BOOLEAN
  /\ active \subseteq Users
  /\ captain \in Users
  /\ invites \in [Invites -> Invite]
  /\ events \in Seq(Event) /\ Len(events) <= MaxVersion
  /\ rosters \in Seq(Roster) /\ Len(rosters) = Len(events) + 1

version == Len(events)

\* None, or one that expired or was revoked.
NoInvite == [open |-> FALSE, max |-> CHOOSE m \in MaxUses : TRUE, uses |-> 0]

RosterInit ==
  /\ archived = FALSE
  /\ active = {Creator}
  /\ captain = Creator
  /\ invites = [i \in Invites |-> NoInvite]
  /\ events = <<>>
  /\ rosters = <<[active |-> {Creator}, captain |-> Creator]>>

-----------------------------------------------------------------------------
(* Helpers. *)

\* SELECT ... WHERE status = 'active' FOR UPDATE.
LockActiveGroup == ~archived

\* Mutant: an invite is available until it is revoked or expires.
NotWithdrawn(invite) == invite.open

InviteAvailable(invite) ==
  /\ invite.open
  /\ invite.max = 0 \/ invite.uses < invite.max

Available == {i \in Invites : InviteAvailable(invites[i])}

RevokeAvailableInvites == [i \in Invites |->
  IF i \in Available THEN NoInvite ELSE invites[i]]

\* The next version goes to this event, in the transaction of the mutation.
EmitGroupEvent(type, user) ==
  /\ version < MaxVersion
  /\ events' = Append(events, [type |-> type, user |-> user])
  /\ rosters' = Append(rosters, [active |-> active', captain |-> captain'])

-----------------------------------------------------------------------------
(* Invites. *)

\* A new invite, in the place of one that cannot be used (any more).
CreateInvite(book, m) ==
  LET i == CHOOSE j \in Invites : ~InviteAvailable(book[j])
  IN  [book EXCEPT ![i] = [open |-> TRUE, max |-> m, uses |-> 0]]

\* regenerate: only the captain may.
RegenerateInvite(m) ==
  /\ LockActiveGroup
  /\ invites' = CreateInvite(RevokeAvailableInvites, m)
  /\ UNCHANGED <<archived, active, captain, events, rosters>>

\* Any member gets the invite that is available; without one it is created.
CreateOrReuseInvite(m) ==
  /\ LockActiveGroup
  /\ Available = {}
  /\ invites' = CreateInvite(invites, m)
  /\ UNCHANGED <<archived, active, captain, events, rosters>>

RevokeInvite(i) ==
  /\ LockActiveGroup
  /\ invites[i].open
  /\ invites' = [invites EXCEPT ![i] = NoInvite]
  /\ UNCHANGED <<archived, active, captain, events, rosters>>

ExpireInvite(i) ==
  /\ invites[i].open
  /\ invites' = [invites EXCEPT ![i] = NoInvite]
  /\ UNCHANGED <<archived, active, captain, events, rosters>>

\* A new membership, or the former one reactivated as an ordinary member.
RedeemInvite(i, u) ==
  /\ LockActiveGroup
  /\ u \notin active
  /\ i \in Available
  /\ Cardinality(active) < MemberLimit
  /\ invites' = [invites EXCEPT ![i].uses = @ + 1]
  /\ active' = active \cup {u}
  /\ UNCHANGED <<archived, captain>>
  /\ EmitGroupEvent("member_joined", u)

-----------------------------------------------------------------------------
(* Members and governance. *)

\* By the member or by the captain; never the captain.
LeaveOrRemoveMember(u) ==
  /\ LockActiveGroup
  /\ u \in active \ {captain}
  /\ active' = active \ {u}
  /\ UNCHANGED <<archived, captain, invites>>
  /\ EmitGroupEvent("member_left", u)

TransferCaptain(u) ==
  /\ LockActiveGroup
  /\ u \in active \ {captain}
  /\ captain' = u
  /\ UNCHANGED <<archived, active, invites>>
  /\ EmitGroupEvent("captain_transferred", u)

RenameGroup ==
  /\ LockActiveGroup
  /\ UNCHANGED <<archived, active, captain, invites>>
  /\ EmitGroupEvent("group_renamed", captain)

DisbandGroup ==
  /\ LockActiveGroup
  /\ active' = {}
  /\ invites' = RevokeAvailableInvites
  /\ archived' = TRUE
  /\ UNCHANGED captain
  /\ EmitGroupEvent("group_archived", captain)

RosterNext ==
  \/ \E m \in MaxUses : RegenerateInvite(m) \/ CreateOrReuseInvite(m)
  \/ \E i \in Invites : RevokeInvite(i) \/ ExpireInvite(i)
  \/ \E i \in Invites, u \in Users : RedeemInvite(i, u)
  \/ \E u \in Users : LeaveOrRemoveMember(u) \/ TransferCaptain(u)
  \/ RenameGroup
  \/ DisbandGroup

-----------------------------------------------------------------------------
(* Properties. *)

(* However members come and go and whoever creates, regenerates or uses an *)
(* invite: a group has at most one invite that can be used, none once it   *)
(* is disbanded, and no invite lets in more people than it was made for    *)
(* (CreateOrReuseInvite, RedeemInvite, DisbandGroup).                      *)
OneInvite ==
  /\ Cardinality(Available) <= IF archived THEN 0 ELSE 1
  /\ \A i \in Invites : invites[i].max = 0 \/ invites[i].uses <= invites[i].max
=============================================================================
