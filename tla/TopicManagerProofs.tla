-------------------------- MODULE TopicManagerProofs --------------------------
(***************************************************************************)
(* Proofs about TopicManager, for every set of declarations and every      *)
(* topic that Aiven may hold: what a successful call leaves at Aiven.      *)
(***************************************************************************)
EXTENDS TopicManager, TLAPS

\* A topic that exists is told apart from none by its settings.
LEMMA SomeTopic == \A t : DOMAIN t = CreateFields => t # NoTopic
<1>1. DOMAIN NoTopic = {}
  BY DEF NoTopic
<1>2. "Partitions" \in CreateFields
  BY DEF CreateFields
<1> QED
  BY <1>1, <1>2

\* Every propagated setting is compared, sent by create and sent by update.
LEMMA PropagatedFields ==
  \A f \in Propagated : f \in ComparedFields /\ f \in UpdateFields /\ f \in CreateFields
BY DEF Propagated, DeclaredFields, ComparedFields, UpdateFields, CreateFields

\* A request sets what it carries.
LEMMA MergeSets ==
  ASSUME NEW old, NEW cfg, NEW fields \in SUBSET CreateFields
  PROVE  /\ DOMAIN Merge(old, cfg, fields) = CreateFields
         /\ \A f \in fields : Sent(cfg, f) = Unset \/ Merge(old, cfg, fields)[f] = Sent(cfg, f)
BY DEF Merge

LEMMA TopicInitInv == TopicInit => TopicInv
<1> SUFFICES ASSUME TopicInit PROVE TopicInv
  OBVIOUS
<1>1. aivenTopic = NoTopic \/ DOMAIN aivenTopic = CreateFields
  BY TopicAssumption DEF TopicInit
<1> QED
  BY <1>1 DEF TopicInit, TopicInv, TopicTypeOK, ConfiguredOnSuccess

\* A step that keeps the topic, and does not end in success, keeps the invariant.
LEMMA QuietStep ==
  ASSUME TopicInv, UNCHANGED aivenTopic, config' \in Configs \cup {NilConfig},
         topicPc' \in {"idle", "get", "create", "refused", "failed"}
  PROVE  TopicInv'
BY DEF TopicInv, TopicTypeOK, ConfiguredOnSuccess

\* Creating the topic brings every propagated setting in line.
LEMMA CreateConfigures ==
  ASSUME AivenCreateTopic, UNCHANGED config
  PROVE  /\ aivenTopic' # NoTopic
         /\ DOMAIN aivenTopic' = CreateFields
         /\ \A f \in Propagated : Agrees(f)'
BY MergeSets, SomeTopic, PropagatedFields DEF AivenCreateTopic, Agrees

\* So does an update, which leaves out one setting that is not propagated.
LEMMA UpdateConfigures ==
  ASSUME AivenUpdateTopic, UNCHANGED config
  PROVE  /\ aivenTopic' # NoTopic
         /\ DOMAIN aivenTopic' = CreateFields
         /\ \A f \in Propagated : Agrees(f)'
<1>1. UpdateFields \in SUBSET CreateFields
  BY DEF UpdateFields
<1> QED
  BY <1>1, MergeSets, SomeTopic, PropagatedFields DEF AivenUpdateTopic, Agrees

\* Whatever others do to the topic in the middle of a call, types stay right.
LEMMA TopicStepTypes ==
  ASSUME TopicTypeOK, TopicStep
  PROVE  TopicTypeOK'
<1>1. UNCHANGED config /\ topicPc' \in {"create", "update", "ok", "refused", "failed"}
  BY DEF TopicStep, GetTopic, GetTopicFails, RefuseTopic, CreateTopic, CreateTopicFails,
     UpdateTopic, UpdateTopicFails, GoTo
<1>2. UNCHANGED aivenTopic \/ AivenCreateTopic \/ AivenUpdateTopic
  BY DEF TopicStep, GetTopic, GetTopicFails, RefuseTopic, CreateTopic, CreateTopicFails,
     UpdateTopic, UpdateTopicFails, TopicUnlessDryRun
<1> QED
  BY <1>1, <1>2, CreateConfigures, UpdateConfigures DEF TopicTypeOK

LEMMA TopicNextInv == TopicInv /\ [TopicNext]_topicVars => TopicInv'
<1> SUFFICES ASSUME TopicInv, [TopicNext]_topicVars PROVE TopicInv'
  OBVIOUS
<1>a. config \in Configs \cup {NilConfig}
  BY DEF TopicInv, TopicTypeOK
<1>1. CASE TopicSubmit
  BY <1>1, QuietStep DEF TopicSubmit, TopicBegin
<1>2. CASE GetTopic
  <2>1. CASE topicPc' = "create"
    BY <1>2, <1>a, <2>1, QuietStep DEF GetTopic, GoTo
  <2>2. CASE aivenTopic # NoTopic /\ topicPc' = "update"
    BY <1>2, <2>2 DEF GetTopic, GoTo, TopicInv, TopicTypeOK, ConfiguredOnSuccess
  <2>3. CASE aivenTopic # NoTopic /\ ~topicConfigChanged(aivenTopic, config) /\ topicPc' = "ok"
    <3>1. \A f \in Propagated : Agrees(f)
      BY <2>3, PropagatedFields DEF topicConfigChanged, Agrees
    <3>2. UNCHANGED <<aivenTopic, config>>
      BY <1>2 DEF GetTopic, GoTo
    <3> QED
      BY <2>3, <3>1, <3>2 DEF TopicInv, TopicTypeOK, ConfiguredOnSuccess, Agrees
  <2> QED
    BY <1>2, <2>1, <2>2, <2>3 DEF GetTopic, GoTo
<1>3. CASE GetTopicFails \/ RefuseTopic
  BY <1>3, <1>a, QuietStep DEF GetTopicFails, RefuseTopic, GoTo
<1>4. CASE CreateTopic
  <2>1. CASE AivenCreateTopic
    BY <1>4, <1>a, <2>1, CreateConfigures
       DEF CreateTopic, GoTo, TopicInv, TopicTypeOK, ConfiguredOnSuccess
  <2>2. CASE TopicDryRun
    BY <1>4, <1>a, <2>2
       DEF CreateTopic, TopicUnlessDryRun, GoTo, TopicInv, TopicTypeOK, ConfiguredOnSuccess
  <2> QED
    BY <1>4, <2>1, <2>2 DEF CreateTopic, TopicUnlessDryRun
<1>5. CASE UpdateTopic
  <2>1. CASE AivenUpdateTopic
    BY <1>5, <1>a, <2>1, UpdateConfigures
       DEF UpdateTopic, GoTo, TopicInv, TopicTypeOK, ConfiguredOnSuccess
  <2>2. CASE TopicDryRun
    BY <1>5, <1>a, <2>2
       DEF UpdateTopic, TopicUnlessDryRun, GoTo, TopicInv, TopicTypeOK, ConfiguredOnSuccess
  <2> QED
    BY <1>5, <2>1, <2>2 DEF UpdateTopic, TopicUnlessDryRun
<1>6. CASE CreateTopicFails
  <2>1. CASE AivenCreateTopic
    BY <1>6, <1>a, <2>1, CreateConfigures
       DEF CreateTopicFails, GoTo, TopicInv, TopicTypeOK, ConfiguredOnSuccess
  <2> QED
    BY <1>6, <1>a, <2>1, QuietStep DEF CreateTopicFails, GoTo
<1>7. CASE UpdateTopicFails
  <2>1. CASE AivenUpdateTopic
    BY <1>7, <1>a, <2>1, UpdateConfigures
       DEF UpdateTopicFails, GoTo, TopicInv, TopicTypeOK, ConfiguredOnSuccess
  <2> QED
    BY <1>7, <1>a, <2>1, QuietStep DEF UpdateTopicFails, GoTo
<1>8. CASE UNCHANGED topicVars
  BY <1>8 DEF topicVars, TopicInv, TopicTypeOK, ConfiguredOnSuccess, Agrees
<1> QED
  BY <1>1, <1>2, <1>3, <1>4, <1>5, <1>6, <1>7, <1>8 DEF TopicNext, TopicStep

\* A call that returns without an error leaves a topic at Aiven whose every
\* propagated setting is the declared one (topic.go:47-70), from any topic and
\* any earlier, failed or half-done call.
THEOREM TopicConfigured == TopicSpec => []ConfiguredOnSuccess
<1>1. TopicInv => ConfiguredOnSuccess
  BY DEF TopicInv
<1> QED
  BY <1>1, TopicInitInv, TopicNextInv, PTL DEF TopicSpec

\* The variables keep their types: whatever Aiven holds has every setting.
THEOREM TopicTypeInvariant == TopicSpec => []TopicTypeOK
<1>1. TopicInv => TopicTypeOK
  BY DEF TopicInv
<1> QED
  BY <1>1, TopicInitInv, TopicNextInv, PTL DEF TopicSpec

\* Every declaration, and no declaration at all, gives both numbers of replicas
\* or neither.
LEMMA ReplicasPaired ==
  \A cfg \in Configs \cup {NilConfig} :
    (cfg["MinimumInSyncReplicas"] = Unset) = (cfg["Replication"] = Unset)
<1>1. {"MinimumInSyncReplicas", "Replication"} \subseteq DeclaredFields
  BY DEF DeclaredFields, CreateFields
<1> QED
  BY <1>1, ReplicaAssumption DEF NilConfig

\* A request whose replicas suffice leaves a topic whose replicas do, as it
\* carries either both numbers or neither of them.
LEMMA MergeSuffices ==
  ASSUME NEW old, NEW cfg \in Configs \cup {NilConfig}, NEW fields,
         {"MinimumInSyncReplicas", "Replication"} \subseteq fields,
         Suffices(old), Suffices(cfg)
  PROVE  Suffices(Merge(old, cfg, fields))
<1>1. {"MinimumInSyncReplicas", "Replication"} \subseteq CreateFields
  BY DEF CreateFields
<1>2. \A f \in {"MinimumInSyncReplicas", "Replication"} :
        Merge(old, cfg, fields)[f] = IF cfg[f] # Unset THEN cfg[f] ELSE old[f]
  BY <1>1 DEF Merge, Sent, HourDefault
<1> QED
  BY <1>2, ReplicasPaired DEF Suffices, intpBiggerThan

LEMMA ReplicasNext ==
  ASSUME TopicTypeOK, ReplicasSuffice, [TopicNext]_topicVars
  PROVE  ReplicasSuffice'
<1>1. {"MinimumInSyncReplicas", "Replication"} \subseteq UpdateFields
  /\ {"MinimumInSyncReplicas", "Replication"} \subseteq CreateFields
  BY DEF UpdateFields, CreateFields
<1>2. config \in Configs \cup {NilConfig}
  BY DEF TopicTypeOK
<1>3. CASE AivenCreateTopic /\ ~Invalid(config)
  BY <1>1, <1>2, <1>3, MergeSuffices, ReplicaAssumption
     DEF AivenCreateTopic, Invalid, ReplicasSuffice
<1>4. CASE AivenUpdateTopic /\ ~Invalid(config)
  BY <1>1, <1>2, <1>4, MergeSuffices DEF AivenUpdateTopic, Invalid, ReplicasSuffice
<1>5. CASE UNCHANGED aivenTopic
  BY <1>5 DEF ReplicasSuffice
<1>6. \/ AivenCreateTopic /\ ~Invalid(config)
      \/ AivenUpdateTopic /\ ~Invalid(config)
      \/ UNCHANGED aivenTopic
  BY DEF TopicNext, TopicSubmit, TopicBegin, TopicStep, GetTopic, GetTopicFails, RefuseTopic,
         CreateTopic, CreateTopicFails, UpdateTopic, UpdateTopicFails, TopicUnlessDryRun,
         MayCall, topicVars
<1> QED
  BY <1>3, <1>4, <1>5, <1>6

\* No sequence of creations and updates, however they fail, leaves a topic that
\* demands more replicas in sync than it has (topic.go:89-92, 140-143).
THEOREM ReplicasSufficeTheorem == TopicSpec => []ReplicasSuffice
<1>1. TopicInit => ReplicasSuffice
  BY ReplicaAssumption DEF TopicInit, ReplicasSuffice
<1> QED
  BY <1>1, ReplicasNext, TopicTypeInvariant, PTL DEF TopicSpec

=============================================================================
