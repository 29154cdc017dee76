----------------------------- MODULE TopicManager -----------------------------
(***************************************************************************)
(* topic.Manager (pkg/aiven/topic): one call of Synchronize gets the topic *)
(* from Aiven, creates it if it is missing, updates it if a setting that   *)
(* is compared differs from the declared one.                              *)
(*                                                                         *)
(* A configuration is a function from the names of the declared settings   *)
(* to values; a nil setting is Unset, and a nil Config has every setting   *)
(* Unset.  Which settings are compared and which are sent are sets of      *)
(* names, as the statements of the code list them.                         *)
(***************************************************************************)
EXTENDS Integers

CONSTANTS
  Unset,          \* a nil pointer
  NotAPercent,    \* a MinCleanableDirtyRatioPercent that is text without "%"
  Configs,        \* the configurations that may be declared
  AivenDefault,   \* Aiven's own value of each setting
  ExistingTopics, \* what Aiven may hold for the topic at first
  TopicDryRun     \* the DryRun flag

\* Aiven has no such topic.
NoTopic == <<>>

\* The declared settings whose value Aiven takes in milliseconds, each with
\* the value that stands for a negative number of hours.
HourDefault == [RetentionHours |-> -1, DeleteRetentionHours |-> 0, LocalRetentionHours |-> -2]

\* The settings that create sends.
CreateFields ==
  { "Partitions", "Replication", "CleanupPolicy", "DeleteRetentionHours", "MaxMessageBytes",
    "MinimumInSyncReplicas", "RetentionBytes", "RetentionHours", "LocalRetentionBytes",
    "LocalRetentionHours", "RemoteStorageEnable", "SegmentHours",
    "MinCleanableDirtyRatioPercent", "MinCompactionLagMs", "MaxCompactionLagMs" }

\* Mutant: update leaves out the retention time.
FewerFields == CreateFields \ {"DeleteRetentionHours", "RetentionHours"}

\* The settings that update sends: DeleteRetentionMs is not among them.
UpdateFields == CreateFields \ {"DeleteRetentionHours"}

\* The settings that topicConfigChanged compares; the cleanup policy and
\* whether remote storage is enabled are not among them.
ComparedFields == CreateFields \ {"CleanupPolicy", "RemoteStorageEnable"}

\* RemoteStorageEnable is derived, the other settings are declared.
DeclaredFields == CreateFields \ {"RemoteStorageEnable"}

\* A nil Config.
NilConfig == [f \in DeclaredFields |-> Unset]

ASSUME TopicAssumption ==
  /\ \A cfg \in Configs : DOMAIN cfg = DeclaredFields
  /\ \A t \in ExistingTopics \ {NoTopic} : DOMAIN t = CreateFields
  /\ DOMAIN AivenDefault = CreateFields
  /\ TopicDryRun \in BOOLEAN

\* Neither is bigger if one of them is nil.
intpBiggerThan(first, second) == first # Unset /\ second # Unset /\ first > second

\* ApplyDefaults, in Process, fills in both numbers of replicas; a call without
\* a Config (nil) has neither. Aiven has no topic with too few.
Suffices(c) == ~intpBiggerThan(c["MinimumInSyncReplicas"], c["Replication"])

ASSUME ReplicaAssumption ==
  /\ \A cfg \in Configs : (cfg["MinimumInSyncReplicas"] = Unset) = (cfg["Replication"] = Unset)
  /\ \A t \in ExistingTopics \ {NoTopic} : Suffices(t)
  /\ Suffices(AivenDefault)

VARIABLES
  aivenTopic,   \* the topic's configuration at Aiven, or NoTopic
  topicPc,      \* where the call of Synchronize is
  config        \* Topic.Spec.Config of that call

topicVars == <<aivenTopic, topicPc, config>>

-----------------------------------------------------------------------------
(* Conversions.                                                            *)

MsPerHour == 3600000

\* Any negative number of hours means the default.
retentionMs(hours, dflt) ==
  IF hours = Unset THEN Unset ELSE IF hours >= 0 THEN hours * MsPerHour ELSE dflt

\* A segment lasts at least one hour.
segmentMs(hours) ==
  IF hours = Unset THEN Unset ELSE IF hours < 1 THEN MsPerHour ELSE hours * MsPerHour

\* Remote storage is switched on with either local retention, never off.
enableRemoteStorage(cfg) ==
  IF \E f \in {"LocalRetentionBytes", "LocalRetentionHours"} : cfg[f] # Unset /\ cfg[f] > 0
  THEN TRUE ELSE Unset

\* A ratio is kept in percent; zero is refused like anything outside 1..100.
percentToRatioFails(percent) == percent # Unset /\ percent \notin 1..100

\* The value that a request carries, and a comparison uses, for a setting.
Sent(cfg, f) ==
  CASE f \in DOMAIN HourDefault -> retentionMs(cfg[f], HourDefault[f])
    [] f = "SegmentHours" -> segmentMs(cfg[f])
    [] f = "RemoteStorageEnable" -> enableRemoteStorage(cfg)
    [] OTHER -> cfg[f]

topicConfigChanged(topic, cfg) ==
  \/ percentToRatioFails(cfg["MinCleanableDirtyRatioPercent"])
  \/ \E f \in ComparedFields : Sent(cfg, f) # Unset /\ topic[f] # Sent(cfg, f)

\* Mutant: replicas are not checked.
OnlyPercentInvalid(cfg) == percentToRatioFails(cfg["MinCleanableDirtyRatioPercent"])

\* What create and update check before they call Aiven.
Invalid(cfg) ==
  \/ ~Suffices(cfg)
  \/ percentToRatioFails(cfg["MinCleanableDirtyRatioPercent"])

-----------------------------------------------------------------------------
(* Aiven (external): a request sets what it carries and leaves the rest,   *)
(* which is Aiven's default for a new topic.                               *)

Merge(old, cfg, fields) ==
  [f \in CreateFields |->
     IF f \in fields /\ Sent(cfg, f) # Unset THEN Sent(cfg, f) ELSE old[f]]

AivenCreateTopic ==
  /\ aivenTopic = NoTopic
  /\ aivenTopic' = Merge(AivenDefault, config, CreateFields)

AivenUpdateTopic ==
  /\ aivenTopic # NoTopic
  /\ aivenTopic' = Merge(aivenTopic, config, UpdateFields)

-----------------------------------------------------------------------------
(* One call of Synchronize.                                                *)

TopicInit ==
  /\ aivenTopic \in ExistingTopics
  /\ topicPc = "idle"
  /\ config = NilConfig

TopicReturned == topicPc \in {"idle", "ok", "refused", "failed"}

\* A caller starts Synchronize for a topic that declares cfg.
TopicBegin(cfg) ==
  /\ TopicReturned
  /\ topicPc' = "get"
  /\ config' = cfg
  /\ UNCHANGED aivenTopic

GoTo(pc) == topicPc' = pc /\ UNCHANGED config

GetTopic ==
  /\ topicPc = "get"
  /\ \/ aivenTopic = NoTopic /\ GoTo("create")
     \/ aivenTopic # NoTopic /\ topicConfigChanged(aivenTopic, config) /\ GoTo("update")
     \/ aivenTopic # NoTopic /\ ~topicConfigChanged(aivenTopic, config) /\ GoTo("ok")
  /\ UNCHANGED aivenTopic

GetTopicFails == topicPc = "get" /\ GoTo("failed") /\ UNCHANGED aivenTopic

\* Mutant: too few replicas are made up for in Topic.Spec.Config, which is a
\* pointer into the caller's resource, and the call goes on.
MakeFit ==
  /\ topicPc \in {"create", "update"}
  /\ Invalid(config)
  /\ config' = [config EXCEPT !["MinimumInSyncReplicas"] = config["Replication"]]
  /\ UNCHANGED <<aivenTopic, topicPc>>

\* A configuration that is inconsistent in itself is not sent.
RefuseTopic ==
  /\ topicPc \in {"create", "update"}
  /\ Invalid(config)
  /\ GoTo("refused")
  /\ UNCHANGED aivenTopic

MayCall(pc) == topicPc = pc /\ ~Invalid(config)

\* A dry run reports the success of a call that it leaves out.
TopicUnlessDryRun(call) == IF TopicDryRun THEN UNCHANGED aivenTopic ELSE call

CreateTopic == MayCall("create") /\ TopicUnlessDryRun(AivenCreateTopic) /\ GoTo("ok")
UpdateTopic == MayCall("update") /\ TopicUnlessDryRun(AivenUpdateTopic) /\ GoTo("ok")

\* Aiven rejects the request, or it or its answer is lost.
CreateTopicFails ==
  /\ MayCall("create") /\ ~TopicDryRun
  /\ AivenCreateTopic \/ UNCHANGED aivenTopic
  /\ GoTo("failed")

UpdateTopicFails ==
  /\ MayCall("update") /\ ~TopicDryRun
  /\ AivenUpdateTopic \/ UNCHANGED aivenTopic
  /\ GoTo("failed")

\* What Synchronize does by itself once it is called.
TopicStep ==
  \/ GetTopic \/ GetTopicFails \/ RefuseTopic
  \/ CreateTopic \/ CreateTopicFails \/ UpdateTopic \/ UpdateTopicFails

\* The manager on its own: its caller retries or submits another configuration.
TopicSubmit == \E cfg \in Configs : TopicBegin(cfg)

TopicNext == TopicSubmit \/ TopicStep

TopicSpec == TopicInit /\ [][TopicNext]_topicVars

-----------------------------------------------------------------------------
(* Correctness.                                                            *)

\* What Aiven holds has every setting, and the declaration stays one that the
\* caller submitted: Synchronize has a pointer to it, but changes nothing in it.
TopicTypeOK ==
  /\ aivenTopic = NoTopic \/ DOMAIN aivenTopic = CreateFields
  /\ topicPc \in {"idle", "get", "create", "update", "ok", "refused", "failed"}
  /\ config \in Configs \cup {NilConfig}

Agrees(f) == Sent(config, f) = Unset \/ aivenTopic[f] = Sent(config, f)

\* The settings that every successful call brings in line with the
\* declaration: all but one that is not compared and one that no update sends.
Propagated == DeclaredFields \ {"CleanupPolicy", "DeleteRetentionHours"}

\* Synchronize returns nil only if Aiven has the topic, and each of these
\* settings has the declared value there, whatever calls for other
\* declarations did before and wherever they failed (topic.go:47-70).
ConfiguredOnSuccess ==
  topicPc = "ok" /\ ~TopicDryRun =>
    aivenTopic # NoTopic /\ \A f \in Propagated : Agrees(f)

\* A topic never has fewer replicas than it demands to be in sync: the check
\* comes before both calls, for every way from one declaration to another.
ReplicasSuffice ==
  aivenTopic # NoTopic => Suffices(aivenTopic)

\* The inductive invariant.
TopicInv ==
  /\ TopicTypeOK
  /\ topicPc = "update" => aivenTopic # NoTopic
  /\ ConfiguredOnSuccess

\* "Topic configuration synchronized to Kafka pool" (topic_controller.go:193),
\* "topic configuration updates are propagated"
\* (testdata/update_topic_config.yaml:2): so much for every declared setting.
EverySettingPropagated == topicPc = "ok" => \A f \in DeclaredFields : Agrees(f)

=============================================================================
