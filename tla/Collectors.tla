------------------------------ MODULE Collectors ------------------------------
(***************************************************************************)
(* The metric collectors (pkg/metrics/collectors) of the kafkarator        *)
(* process: each in a goroutine of its own that reports once per interval, *)
(* from the resources in the cluster and from the Kafka service of every   *)
(* project (both external).  The three share nothing, so that the one that *)
(* is looked at is chosen at the start.                                    *)
(*                                                                         *)
(* An item is a topic, or, for Metadata, a version with its plan.  What a  *)
(* source looks like says of each item how many it counts for: one for     *)
(* itself, or its ACLs.  A gauge has series, each with a value that stays  *)
(* until it is set again or the process ends.                              *)
(***************************************************************************)
EXTENDS Operator, FiniteSets

CONSTANTS
  Projects,       \* --projects, in order
  Items,
  Group,          \* of a topic: its team (Topic) or its name without it (Acls)
  Absent,         \* an item is not there
  NoSeries,       \* a series was never set
  TopicLooks, AclLooks, MetadataLooks   \* what a source may look like

Pools == {Projects[i] : i \in DOMAIN Projects}
Sources == Pools \cup {"cluster"}
Series == Items \cup {Group[i] : i \in Items}

ASSUME CollectorsAssumption ==
  /\ Projects \in Seq(Pools) /\ Projects # <<>> /\ "cluster" \notin Pools
  /\ DOMAIN Group = Items
  /\ \A v \in TopicLooks : v \in [Items -> {Absent, 1}]
  /\ \A v \in AclLooks : v \in [Items -> Nat \cup {Absent}]
  /\ \A v \in MetadataLooks : \E i \in Items : v = [j \in Items |-> IF j = i THEN 1 ELSE Absent]

VARIABLES
  collector,    \* Topic, Acls or Metadata
  world,        \* what each source looks like
  series,       \* the gauge: the value of each series of each source
  colPc,        \* the goroutine: it waits, or is in Report
  todo,         \* the sources Report has still to ask
  late,         \* the deadline of the report's context has passed
  listed        \* the answers that Topic keeps until it has them all

collectorVars == <<series, colPc, todo, late, listed>>
vars == <<processVars, collector, world, collectorVars>>

Looks ==
  CASE collector = "Topic" -> TopicLooks
    [] collector = "Acls" -> AclLooks
    [] collector = "Metadata" -> MetadataLooks

\* Metadata has nothing to ask of the cluster.
Asked == IF collector = "Metadata" THEN Pools ELSE Sources

NothingShown == [s \in Sources |-> [l \in Series |-> NoSeries]]
NoAnswers == [s \in {} |-> Absent]

Init ==
  /\ ProcessInit
  /\ collector \in {"Topic", "Acls", "Metadata"}
  /\ world \in [Asked -> Looks]
  /\ series = NothingShown /\ colPc = "off" /\ todo = {} /\ late = FALSE
  /\ listed = NoAnswers

-----------------------------------------------------------------------------
(* What a report sets.                                                     *)

Present(v) == {i \in Items : v[i] # Absent}
Groups(v) == {Group[i] : i \in Present(v)}

\* Topics are counted by team.  topicTeam finds for a topic at Aiven the team
\* in the resource of its name, or in that name: the same.
CountTopics(v) == [g \in Groups(v) |-> Cardinality({i \in Present(v) : Group[i] = g})]

\* A resource is labelled with its name without its namespace: of two with
\* one name the one listed last is shown.
ClusterAcls(v) ==
  {f \in [Groups(v) -> {v[i] : i \in Present(v)}] :
     \A g \in Groups(v) : \E i \in Present(v) : Group[i] = g /\ f[g] = v[i]}

\* At Aiven a topic without ACLs does not show.
AivenAcls(v) == [i \in {j \in Present(v) : v[j] > 0} |-> v[i]]

\* What Report may set for a source that looks like v.
Settings(s, v) ==
  CASE collector = "Topic" -> {CountTopics(v)}
    [] collector = "Acls" -> IF s = "cluster" THEN ClusterAcls(v) ELSE {AivenAcls(v)}
    [] collector = "Metadata" -> {[i \in Present(v) |-> 1]}

\* Setting some series leaves the others as they are.
With(shown, settings) ==
  [l \in Series |-> IF l \in DOMAIN settings THEN settings[l] ELSE shown[l]]

-----------------------------------------------------------------------------
(* The goroutine of a collector.                                           *)

StartCollector ==
  /\ setupPc = "started"
  /\ colPc = "off"
  /\ colPc' = "wait"
  /\ UNCHANGED <<series, todo, late, listed>>

\* The first report after some seconds, the others at each tick.
BeginReport ==
  /\ colPc = "wait"
  /\ colPc' = "report"
  /\ todo' = Asked
  /\ UNCHANGED <<series, late, listed>>

\* The cluster first, then the projects: in order, but Topic has them in a map.
Before(s) ==
  CASE s = "cluster" -> {}
    [] collector = "Topic" -> {"cluster"}
    [] OTHER -> {"cluster"} \cup
         {Projects[i] : i \in {j \in DOMAIN Projects :
                                 \A k \in DOMAIN Projects : Projects[k] = s => j < k}}

Asking(s) == colPc = "report" /\ ~late /\ s \in todo /\ todo \cap Before(s) = {}

\* Mutant: answers of a report that failed are still there in the next one.
EndReportKeeping == colPc' = "wait" /\ todo' = {} /\ late' = FALSE /\ listed' = listed

EndReport == colPc' = "wait" /\ todo' = {} /\ late' = FALSE /\ listed' = NoAnswers

\* Topic keeps the answer.
Keep(s) ==
  /\ collector = "Topic"
  /\ Asking(s)
  /\ listed' = [t \in DOMAIN listed \cup {s} |-> IF t = s THEN world[s] ELSE listed[t]]
  /\ todo' = todo \ {s}
  /\ UNCHANGED <<series, colPc, late>>

\* Acls and Metadata set the series of the source.
Show(s) ==
  /\ collector # "Topic"
  /\ Asking(s)
  /\ \E settings \in Settings(s, world[s]) :
       series' = [series EXCEPT ![s] = With(series[s], settings)]
  /\ todo' = todo \ {s}
  /\ UNCHANGED <<colPc, late, listed>>

\* Report is through; Topic sets all its series only now.
Finish ==
  /\ colPc = "report"
  /\ todo = {}
  /\ series' = [s \in Sources |->
       IF s \in DOMAIN listed THEN With(series[s], CountTopics(listed[s])) ELSE series[s]]
  /\ EndReport

\* Mutant: a pool that fails ends the report of every collector.
AskFailsReport(s) ==
  /\ Asking(s)
  /\ EndReport
  /\ UNCHANGED series

\* A call fails.  Metadata logs it and goes on with the next pool: if the name of
\* the service is not found, as well, once it has asked for the service without
\* a name in vain.
AskFails(s) ==
  /\ Asking(s)
  /\ \/ collector # "Metadata" /\ EndReport
     \/ collector = "Metadata" /\ todo' = todo \ {s} /\ UNCHANGED <<colPc, late, listed>>
  /\ UNCHANGED series

\* The name of the service is not found, but Aiven answers when Metadata asks
\* without a name: it shows that answer, whatever it is, as the pool's.  On no
\* service at all (nil) it panics, and takes the process along: see Kill.
ShowNameless(s) ==
  /\ collector = "Metadata"
  /\ Asking(s)
  /\ \E v \in Looks : \E settings \in Settings(s, v) :
       series' = [series EXCEPT ![s] = With(series[s], settings)]
  /\ todo' = todo \ {s}
  /\ UNCHANGED <<colPc, late, listed>>

\* Reports have as long as the interval between them.
Deadline ==
  /\ colPc = "report" /\ ~late
  /\ late' = TRUE
  /\ UNCHANGED <<series, colPc, todo, listed>>

\* The next call fails then, and no other is made.
TimesOut == late /\ todo # {} /\ EndReport /\ UNCHANGED series

Ask == \E s \in Sources : Keep(s) \/ Show(s)

Collect ==
  /\ Up
  /\ \/ StartCollector \/ BeginReport \/ Ask \/ Finish \/ Deadline \/ TimesOut
     \/ \E s \in Sources : AskFails(s) \/ ShowNameless(s)
  /\ UNCHANGED <<processVars, collector, world>>

-----------------------------------------------------------------------------

\* Resources come and go, ACLs do, services are upgraded.
WorldChanges ==
  /\ \E s \in Asked : \E v \in Looks : v # world[s] /\ world' = [world EXCEPT ![s] = v]
  /\ UNCHANGED <<processVars, collector, collectorVars>>

\* The gauges and the goroutines end with the process.
ProcessStep ==
  /\ ProcessNext
  /\ IF Up' THEN UNCHANGED collectorVars
     ELSE series' = NothingShown /\ colPc' = "off" /\ todo' = {} /\ late' = FALSE /\ listed' = NoAnswers
  /\ UNCHANGED <<collector, world>>

Next == ProcessStep \/ Collect \/ WorldChanges

Spec == Init /\ [][Next]_vars

\* Every goroutine that can run does, calls end at the latest with their
\* context, tickers tick, and Kubernetes starts what has ended.
Fairness ==
  /\ WF_vars(Up /\ Launch /\ ProcessStep)
  /\ WF_vars(Up /\ (Return \/ TellStopped \/ ManagerShutsDown) /\ ProcessStep)
  /\ WF_vars(Up /\ (Setup \/ TellSetupFailed) /\ ProcessStep)
  /\ WF_vars(Up /\ (TakeQuit \/ TakeSignal \/ ExitRuntime \/ ExitOK) /\ ProcessStep)
  /\ WF_vars(~Up /\ ProcessStep)
  /\ WF_vars(Collect)

LiveSpec == Spec /\ Fairness

-----------------------------------------------------------------------------
(* Correctness.                                                            *)

TypeOK ==
  /\ ProcessTypeOK
  /\ world \in [Asked -> Looks]
  /\ colPc \in {"off", "wait", "report"}
  /\ late \in BOOLEAN
  /\ todo \subseteq Sources /\ DOMAIN listed \subseteq Sources \ todo
  /\ colPc # "off" => setupPc = "started"

\* The sources whose failure costs the series of s.
Needed(s) ==
  CASE collector = "Topic" -> Sources
    [] collector = "Acls" -> Before(s) \cup {s}
    [] collector = "Metadata" -> {s}

ShownRight(s) ==
  s \in Asked => \E settings \in Settings(s, world[s]) :
    \A l \in DOMAIN settings : series[s][l] = settings[l]

Disturbance(s) ==
  \/ world' # world
  \/ Up /\ Outage
  \/ ~late /\ late'
  \/ \E t \in Needed(s) : (AskFails(t) \/ ShowNameless(t)) /\ ~Show(t)

\* Once the world, the process and the calls that a source depends on are
\* quiet, the source's series have the right values, and keep them, however
\* often other sources fail or, without their name, are taken for another
\* service: for Metadata all others, for Acls only projects named later
\* (acls.go:48-58), for Topic none, as any failure costs all of its series.
FailuresHideNoMore ==
  \A s \in Sources :
    <>[][~Disturbance(s)]_vars => <>[]ShownRight(s)

\* The inductive invariant: a goroutine outlives neither its process nor, with
\* what it keeps, its report.
CollectorsInv ==
  /\ TypeOK
  /\ mainPc = "config" => setupPc = "off"
  /\ ~Up => colPc = "off"
  /\ colPc # "report" => todo = {} /\ listed = NoAnswers

=============================================================================
