SPECIFICATION TopicSpec
CONSTANTS
  Unset = Unset
  NotAPercent = NotAPercent
  Configs <- MCConfigs
  AivenDefault <- MCAivenDefault
  ExistingTopics <- MCExistingTopics
  TopicDryRun = FALSE
INVARIANTS
  TopicTypeOK
  ConfiguredOnSuccess
  ReplicasSuffice
