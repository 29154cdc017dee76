SPECIFICATION MaintSpec
CONSTANTS
  app1 = app1
  old = old
  own = own
  noId = noId
  pool1 = pool1
  pool2 = pool2
  Ids = {i1}
  Users <- MCUsers
  Unnameable = {}
  Perms = {"read"}
  Topics = {own}
  Own = own
  NoId = noId
  AclLists <- MCAclLists
  Tables <- MCTables
  MaxOther = 0
  DryRun = FALSE
  ClientDryRun = FALSE
  TopicDryRun = FALSE
  Unset = Unset
  NotAPercent = NotAPercent
  Configs <- MCConfigs
  AivenDefault <- MCAivenDefault
  ExistingTopics <- MCExistingTopics
  Declarations <- MCDeclarations
  NoHash = NoHash
  NoObj = NoObj
  EarlierObjs = {NoObj}
  PoolChoices = {TRUE}
  PurgeChoices = {TRUE}
  MayRevert = TRUE
  SparedTopics = {}
  OldUsers = {old}
  Pools = {pool1, pool2}
  PoolOf <- MCPoolOf
INVARIANTS
  RepairedOrUnseen
PROPERTIES
  CleanedOrUnseen
