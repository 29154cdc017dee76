SPECIFICATION LiveSpec
CONSTANTS
  t1 = t1
  t2 = t2
  g = g
  Projects <- MCProjects
  Items = {t1, t2}
  Group <- MCGroup
  Absent = Absent
  NoSeries = NoSeries
  TopicLooks <- MCTopicLooks
  AclLooks <- MCAclLooks
  MetadataLooks <- MCMetadataLooks
INVARIANTS
  TypeOK
  SignalIsNoFailure
PROPERTIES
  BrokenProcessEnds
  FailuresHideNoMore
