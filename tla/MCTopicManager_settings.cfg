SPECIFICATION TopicSpec
CONSTANTS
  Unset = Unset
  NotAPercent = NotAPercent
  Configs <- MCConfigsAll
  AivenDefault <- MCAivenDefault
  ExistingTopics <- MCExistingTopics
  TopicDryRun = FALSE
INVARIANTS
  EverySettingPropagated
