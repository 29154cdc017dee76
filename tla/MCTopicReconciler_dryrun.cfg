SPECIFICATION Spec
CONSTANTS
  app1 = app1
  app2 = app2
  own = own
  noId = noId
  Ids = {i1, i2}
  Users <- MCUsers
  Unnameable = {}
  Perms = {"read"}
  Topics = {own}
  Own = own
  NoId = noId
  AclLists <- MCAclLists
  Tables <- MCHeldTables
  MaxOther = 0
  DryRun = TRUE
  ClientDryRun = TRUE
  TopicDryRun = TRUE
  Unset = Unset
  NotAPercent = NotAPercent
  Configs <- MCConfigs
  AivenDefault <- MCAivenDefault
  ExistingTopics <- MCHeldTopics
  Declarations <- MCDeclarations
  NoHash = NoHash
  NoObj = NoObj
  EarlierObjs <- MCHeldObjs
  PoolChoices = {TRUE}
  PurgeChoices = {TRUE, FALSE}
  MayRevert = FALSE
SYMMETRY MCSymmetry
PROPERTIES
  DryRunUntouched
