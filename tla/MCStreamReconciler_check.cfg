SPECIFICATION LiveSpec
CONSTANTS
  app = app
  helper = helper
  prefix = prefix
  noId = noId
  Ids = {i1, i2}
  Users <- MCUsers
  Unnameable = {}
  Perms = {"admin"}
  Topics = {prefix}
  Own = prefix
  NoId = noId
  AclLists <- MCAclLists
  Tables <- MCTables
  MaxOther = 0
  DryRun = FALSE
  ClientDryRun = FALSE
  Owner = app
  InternalTopics = {t1, t2}
  Declarations <- MCDeclarations
  NoHash = NoHash
  NoObj = NoObj
  EarlierObjs = {NoObj}
  PoolChoices = {TRUE, FALSE}
  MayRevert = FALSE
INVARIANTS
  TypeOK
  TruthfulStatus
PROPERTIES
  NoLostWakeup
  GoneMeansCleaned
  DataOnlyOnDeletion
  EventuallySettled
