SPECIFICATION Spec
CONSTANTS
  app = app
  helper = helper
  prefix = prefix
  noId = noId
  Ids = {i1, i2, i3}
  Users <- MCUsers
  Unnameable = {}
  Perms = {"admin"}
  Topics = {prefix}
  Own = prefix
  NoId = noId
  AclLists <- MCAclLists
  Tables <- MCHeldTables
  MaxOther = 0
  DryRun = TRUE
  ClientDryRun = TRUE
  Owner = app
  InternalTopics = {t1, t2}
  Declarations <- MCDeclarations
  NoHash = NoHash
  NoObj = NoObj
  EarlierObjs <- MCHeldObjs
  PoolChoices = {TRUE}
  MayRevert = FALSE
PROPERTIES
  DryRunUntouched
