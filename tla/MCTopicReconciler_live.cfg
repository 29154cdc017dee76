SPECIFICATION LiveSpec
CONSTANTS
  app1 = app1
  app2 = app2
  own = own
  noId = noId
  Ids = {i1}
  Users <- MCUsers
  Unnameable = {}
  Perms = {"read"}
  Topics = {own}
  Own = own
  NoId = noId
  AclLists <- MCAclLists
  Tables <- MCTables
  MaxOther = 0
  DryRun = FALSE
  ClientDryRun = FALSE
  TopicDryRun = FALSE
  Unset = Unset
  NotAPercent = NotAPercent
  Configs <- MCConfigs
  AivenDefault <- MCAivenDefault
  ExistingTopics <- MCExistingTopics
  Declarations <- MCFirstAndBare
  NoHash = NoHash
  NoObj = NoObj
  EarlierObjs = {NoObj}
  PoolChoices = {TRUE}
  PurgeChoices = {TRUE, FALSE}
  MayRevert = FALSE
PROPERTIES
  EventuallySettled
