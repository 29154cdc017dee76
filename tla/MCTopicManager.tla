---------------------------- MODULE MCTopicManager ----------------------------
(***************************************************************************)
(* Small instances of TopicManager: declarations with Kafkarator's         *)
(* defaults filled in, each with a few settings of its own.                *)
(***************************************************************************)
EXTENDS TopicManager, TLC

\* A declaration after ApplyDefaults, as the fixtures of the controller show it.
Base ==
  ( "Partitions" :> 1 @@ "Replication" :> 3 @@ "MinimumInSyncReplicas" :> 2
    @@ "CleanupPolicy" :> "delete" @@ "RetentionHours" :> 168 @@ "RetentionBytes" :> -1
    @@ "LocalRetentionHours" :> -2 @@ "LocalRetentionBytes" :> -2
    @@ "SegmentHours" :> 168 @@ "MaxMessageBytes" :> 1048588 ) @@ NilConfig

Smaller == [Base EXCEPT !["Partitions"] = 2, !["RetentionHours"] = 12, !["SegmentHours"] = 0]
Forever == [Base EXCEPT !["RetentionHours"] = -1, !["MaxCompactionLagMs"] = 5]
Tiered == [Base EXCEPT !["LocalRetentionHours"] = 3, !["MinCleanableDirtyRatioPercent"] = 50]
FewReplicas == [Base EXCEPT !["MinimumInSyncReplicas"] = 4, !["RetentionBytes"] = 7]
NotPercent == [Base EXCEPT !["MinCleanableDirtyRatioPercent"] = NotAPercent]
Compact == [Base EXCEPT !["CleanupPolicy"] = "compact"]
KeepTombstones == [Base EXCEPT !["DeleteRetentionHours"] = 48]

MCConfigs == {NilConfig, Base, Smaller, Forever, Tiered, FewReplicas, NotPercent}
MCConfigsAll == {Base, Smaller, Compact, KeepTombstones}

MCAivenDefault ==
  ( "Partitions" :> 1 @@ "Replication" :> 3 @@ "MinimumInSyncReplicas" :> 1
    @@ "RemoteStorageEnable" :> FALSE @@ "CleanupPolicy" :> "delete"
    @@ "DeleteRetentionHours" :> 86400000 ) @@ [f \in CreateFields |-> 1]

\* No topic, or one that was made with other settings.
MCExistingTopics ==
  {NoTopic, [MCAivenDefault EXCEPT !["Replication"] = 2, !["RetentionBytes"] = 9]}

=============================================================================
