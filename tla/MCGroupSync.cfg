CONSTANTS
  c = c u = u i1 = i1 i2 = i2
  Users <- MCUsers
  Creator = c
  Follower = u
  Invites <- MCInvites
  MaxUses <- MCMaxUses
  MemberLimit = 2
  MaxVersion = 3
  SubscriberBuffer = 1
  PageLimit = 1
  MaxDeleted = 2
SPECIFICATION FairSpec
INVARIANTS OneInvite ClientTruth NothingBetween
PROPERTIES CatchesUp
CHECK_DEADLOCK FALSE
