SPECIFICATION AclLiveSpec
CONSTANTS
  u1 = u1
  u2 = u2
  bad = bad
  own = own
  other = other
  noId = noId
  Ids <- MCIds
  i1 = i1
  i2 = i2
  i3 = i3
  i4 = i4
  i5 = i5
  Users <- MCUsers
  Unnameable <- MCUnnameable
  Perms <- MCPerms
  Topics <- MCTopics
  Own = own
  NoId = noId
  AclLists <- MCAclLists
  Tables <- MCTables
  DryRun = FALSE
  MaxOther = 1
INVARIANTS
  SyncedOnSuccess
  AclInv
PROPERTIES
  ForeignUntouched
  RevokeAfterGrant
  NoDuplicates
  PromiseSpec
  Converges
