# Kafkarator: specification, model checking, proofs

Kafkarator is a Kubernetes operator. A team declares a `Topic` or a `Stream`;
Kafkarator makes the Kafka service at Aiven hold it: the topic with its
configuration, and the ACLs of the applications that may use it. This directory
holds TLA+ modules of that behaviour, TLC instances that check them, and
theorems that TLAPS proves about them.

## The system

| Component | Source | State it keeps | Operations | Module |
|---|---|---|---|---|
| ACL manager | `pkg/aiven/acl` | nothing between calls; the ACLs are at Aiven | `Synchronize`: list, create, delete | `AclManager` |
| Aiven ACL clients | `pkg/aiven/adapter` | nothing | list, create, delete | inside `AclManager` |
| topic manager | `pkg/aiven/topic` | nothing between calls; the topic is at Aiven | `Synchronize`: get, create or update | `TopicManager` |
| Topic reconciler | `controllers/topic_controller.go`, `synchronizer.go` | status, hash and finalizer of the resource | `Reconcile`, `Process` | `TopicReconciler` |
| Stream reconciler | `controllers/stream_controller.go` | the same | `Reconcile`, `Process`, `handleDelete` | `StreamReconciler` |
| controller-runtime, Kubernetes API (external) | set up in `cmd/kafkarator/main.go` | the resource, its cache, a work queue | watch, resync, requeue, update | `Controller` |
| kafkarator process | `cmd/kafkarator` | a quit channel, a channel of signals | set up, manage, stop | `Operator`; restart in `Controller` |
| canary | `cmd/canary`, `pkg/canary` | two producers, two consumers, gauges | produce, consume, recreate, cancel | `Canary` |
| Kafka producer | `pkg/kafka/producer` | the state of a transaction | `ProduceTx`, `Recreate` | `TxProducer` |
| Kafka consumer | `pkg/kafka/consumer` | the offset of a claim | `ConsumeClaim` | in `Canary` |
| metrics collectors | `pkg/metrics` | the series of the gauges | `Report` | `Collectors` |
| cleaner scripts | `scripts` | what one look at the service found | delete what has no owner; reset hashes | `Maintenance`; `sync_all_topics.sh` in `Controller` |
| canary deployer | `canary-deployer` | nothing | deploy, report | - |

A reconciler is called by controller-runtime with the name of a resource. It
reads the resource from the informer's cache, calls Aiven (through the
synchronizer, which runs first the ACL manager and then the topic manager) and
writes status, hash and finalizer back with one `Update`. The hash of the
declaration that was synchronized last is what stops it from doing so again.

What is hard in this code:

- *Partial failure.* A synchronization is many calls to Aiven. Any may fail, and
  any may succeed although its answer is lost. The next attempt starts from
  whatever is there.
- *Stale state.* The cache lags behind the API, the worker's copy behind both,
  and the ACL listing behind Aiven. `Update` fails when the copy is out of date.
- *Order.* Access is granted before it is revoked, ACLs come before the topic,
  revocation comes before the removal of data, and the finalizer is written last.
- *Other writers.* The ACL cleaner, a process that a rolling update has not
  stopped yet and people at Aiven's console change the same service, and nothing
  tells the reconciler.
- *Ends.* The set-up, the manager and signals end the process from three
  goroutines, which share a channel for one error.
- *Restarts.* The process exits at once on a signal or an error, anywhere.
- *Retries.* Some errors are retried after an interval, some wait for the next
  resync.
- *Transactions.* Any message, commit or abort may fail, or only its answer; what
  `ProduceTx` returns has to fit what the broker did.
- *Concurrency in the canary.* Consumers, the main loop and a bounded channel
  between them wait for each other; cancellation reaches the loop indirectly.
- *Flags.* A dry run passes through all of the above and must change nothing;
  a pool that `--projects` does not name must not be touched.

What makes each component correct:

- ACL manager: success means exactly the declared access; nothing declared is
  ever taken away; other topics' ACLs are left alone; retries make no doubles.
- topic manager: success means that Aiven has the declared settings; no topic
  demands more replicas in sync than it has.
- reconcilers: a status never claims more than Aiven holds; no work is
  forgotten; data and access go when the resource goes, and not before.
- process: a dry run changes nothing; a process that lost a part ends, and says so.
- collectors: a gauge shows what is there; what fails hides no more than it must.
- Kafka clients: a transaction is visible as a whole or not at all, and an error
  that is not `ErrFatalProducer` means not; a message is marked only when it was
  handled.
- canary: the gauge of transactions tells the truth; the process ends when it is
  cancelled; the consumer keeps up.

## Modules

| Module | What it is |
|---|---|
| `AccessPromise` | what a team may rely on about access, without the calls: abstract |
| `AclManager` | `acl.Manager.Synchronize`, one action per call to Aiven and per way it fails |
| `AclManagerProofs` | its inductive invariant, four properties, and that it implements `AccessPromise` |
| `TopicManager` | `topic.Manager.Synchronize` and the conversions and comparisons of settings |
| `TopicManagerProofs` | that success means that the propagated settings are the declared ones, and that replicas suffice |
| `Controller` | resource, cache, queue, timer, restart and the frame of `Reconcile`, for one resource |
| `ControllerProofs` | lemmas: what the steps that both reconcilers share do to types, copies and wake-ups |
| `TopicReconciler` | extends the three: `Process` and `Reconcile` of a Topic |
| `TopicReconcilerProofs` | its inductive invariant, and every safety property of the runs |
| `Maintenance` | extends `TopicReconciler`: the ACL cleaner, another writer, a second pool |
| `MaintenanceProofs` | what is left of that invariant among them, and both properties of the run |
| `Operator` | `main` and `startReconcilers`: how the process starts and ends |
| `Collectors` | extends `Operator`: the three collectors in that process |
| `OperatorProofs` | inductive invariants of both, and that a signal is not taken for a failure |
| `StreamReconciler` | extends `AclManager` and `Controller`: the same for a Stream |
| `StreamReconcilerProofs` | its inductive invariant, and the safety properties of the run |
| `TxProducer` | `ProduceTx` and `Recreate`, one action per call of Sarama and per way it fails |
| `Canary` | extends `TxProducer`: the canary's main loop, its consumer and the channel between them |
| `CanaryProofs` | inductive invariants of both, and their safety properties |
| `MC...` | the instances that TLC checks |

### AclManager

`aivenAcls` is the table of ACLs at Aiven, a set of records with their ID.
`aclPc` is where the call is; `lines` is `Source.ACLs()`; `toAdd` and `toDelete`
are what `add` and `delete` have still to go through. `List` is the listing and
the computation of both lists, which nothing can come between. `toAdd` holds
*positions* in the declaration, in order, because the code creates a line that is
declared twice twice (`NewACLs` compares with what exists, not within itself).
`toDelete` holds the listed records, in any order: Aiven gives no order.
Every call has an action for its success and one for its failure; the failure of
a creation or deletion may have had its effect. `OtherTopics` are the managers of
other topics, which act between any two steps.

Aiven is external: it gives fresh IDs, accepts a second ACL with the same content
(the comment in `goclientcodegen/adapter.go` says so), and may list an ACL
without an ID (`valueOrEmpty`). A user's name is a model value; that some names
cannot be generated is `Unnameable`.

### TopicManager

A configuration is a function from the names of the settings to values. The
three lists of settings in the code - what `create` sends, what `update` sends,
what `topicConfigChanged` compares - are three sets of names (`CreateFields`,
`UpdateFields`, `ComparedFields`), and `Sent` is what the conversions make of a
setting. Aiven (external) sets what a request carries and leaves the rest.
A ratio is kept in percent. Tags and the Kafka partition assignment are left out.

### Controller, TopicReconciler, StreamReconciler

One resource, as it is at the API (`obj`), in the cache (`cache`) and in the
worker's hands (`work`). Resource versions are abstracted to whether the cache
and the copy are of the current version (`cacheCurrent`, `workCurrent`); that is
all that `Update`'s conflict and the watch depend on. The hash of a declaration
is the declaration itself, with defaults applied. `queued` is the deduplicated
work queue, `delayed` a running `RequeueAfter`. A key has one worker at a time,
as controller-runtime guarantees.

`pc` names the places where `Process` waits for Aiven: `resolve` (topic) or
`process` (stream), then `revoke`, `purge` on deletion, `grant` and `topic`
otherwise, then one of four results that `Reconcile` writes back: `complete`,
`finalize`, `retry` (an error that is retried) and `failed` (one that is not).
The calls of the managers are the actions of `AclManager` and `TopicManager`,
run under `pc`. `Report` is what `Update` sends. With the `DryRun` option of the
manager's client (`main.go:149`) an `Update` is checked but changes nothing.

The two reconcilers differ where the code does: a Topic's finalizer is added to
the copy before `Process`, and so reaches the API with a failure, too; a
Stream's is added after a success only. The Stream checks its pool on deletion,
the Topic does not. The Stream lists topics and deletes those of its prefix, and
a topic that is gone meanwhile is an error; for a Topic it is not. The Stream's
deletion makes its ACL manager without the dry-run flag, which is why the module
has a second instance, `RealAcl`.

Users apply, edit and delete the resource at any time; `Restart` is a crash or a
new process, with other `--projects`. `PurgeChoices` says whether a Topic may ask
for its data to be removed with it.

### Maintenance

The ACL cleaner takes one look at the service (`CleanerScan`: the ACLs of topics
that do not exist, and those of the old username convention) and then deletes
what it found, one request at a time (`doomed` is what is left); an error ends it.
The only topic that comes and goes is the one being reconciled. `Others` are
whoever else holds the credentials: the process that a rolling update replaces
but has not stopped yet (nothing elects a leader), which grants, revokes, creates
and reports for any version of the declaration, and people at Aiven's console.
They are external and may do anything of this kind at any time.

A declaration names a pool (`PoolOf`), and an edit may name another. `here` is the
pool that the variables of Aiven stand for, the one the worker works in;
`Turn` is the moment before it takes up a version that names another one. What it
finds there (`Leftovers`) is not remembered but chosen, since earlier versions and
the others may have left anything.

`unseen` is a history variable: something changed at Aiven behind the
reconciler's back after the processing that the status tells of had begun, or a
user returned to the declaration that was synchronized before. It is reset when
whoever processes the resource next will look at all of it anew (`AllAhead`).

### Operator, Collectors

`mainPc`, `setupPc` and `superPc` are `main` (later the manager), `startReconcilers`
and the goroutine that waits for the quit channel and for signals. `quit` is the
channel, which has room for one error; a sender waits. `exit` is how the process
ended, and Kubernetes starts another. `failed` is a history variable.

`Collectors` looks at one of the three collectors, chosen at the start, as they
share nothing. `world` is what the cluster and every project look like, `series`
what the gauge shows. `Report` asks its sources in order (`Before`); the answer
of each, its failure, and the deadline of the whole report are actions. `Topic`
keeps its answers and sets all series at the end (`Keep`, `Finish`), the others set
the series of each source at once (`Show`). `AskFails` is where they differ: only
`Metadata` goes on. It also goes on when it does not find the name of a pool's
service, and asks for the service with an empty one: that call fails, too
(`AskFails`), or has an answer, which `Metadata` shows as the pool's, whatever it
is (`ShowNameless`), or answers nil, on which `reportService` panics and ends the
process (a case of `Kill` in `Operator`, as the goroutine recovers from nothing).
`kafka_pool_nodes_count`, set beside the version and the plan, is left out. A
series keeps its value until it is set again; gauges end with the process. Of label collisions the module has the one that matters (two
resources of one name in two namespaces share their ACL series).

### TxProducer, Canary

Of Sarama's transaction status, `txnStatus` keeps what the code tells apart:
`fatal` is what `isFatal` recognizes, `stuck` is a producer that can neither begin
nor abort and that `isFatal` does not see. `stored` and `outcome` are the
transaction at the broker, which may differ from what the producer knows:
`CommitTxnFails` and `AbortTxnFails` may have had their effect. `txPc` is where
`ProduceTx` is or what it returned last; `ErrorOr` is the choice between an
ordinary error and `ErrFatalProducer`.

`Canary` is the `select` loop of `main` (`loopPc`), one action per case and return
path, and the consumer with its callback (`consPc`): a message is taken, handed
over on a channel of bounded capacity or refused, marked, and committed some time
later. What is no timestamp is refused, at once; the canary writes timestamps only,
but others may write to the topic, and `Take` may find either, also where it found
the other before a restart: more than can happen. A timestamp waits
(`callback`) until `Observe` has made room. Messages are offsets in one partition;
those of failed transactions are in the topic, too. `handled` is a history variable. `closed` says that the producer
in use is one that `Recreate` closed without getting a new one. The consumer of the
transaction topic is left out because nobody writes there (see Findings).

## Runs

| Run | Expect | What it asks |
|---|---|---|
| `acl` | pass | success means the declared access; grants precede revocations; other topics are left alone; no doubles; `AccessPromise` is implemented; a declaration that stays is in place in the end |
| `topic_config` | pass | success means that the propagated settings are the declared ones; replicas suffice |
| `topic_settings` | violation | ... every declared setting is (it is not: cleanup policy, tombstone retention) |
| `topic_safety` | pass | a Topic through edits, stale copies, failures, restarts: truthful status, nothing forgotten, nothing destroyed early or left behind, refused pools untouched |
| `topic_live` | pass | a Topic settles when users and faults pause |
| `topic_dryrun` | pass | a dry run changes nothing at Aiven and at the API |
| `topic_orphan` | violation | no access is left when the Topic is gone |
| `stream` | pass | the same as `topic_safety` and `topic_live`, with an application that makes topics |
| `stream_dry` | violation | a dry run of the Stream reconciler changes nothing |
| `canary` | pass | transactions that fail at any call, sessions that end, a full channel, cancellation, signals, crashes: transactions are atomic, no message is skipped, a producer is stuck only if it could not be recreated, the process ends, the consumer catches up |
| `maintenance` | pass | a Topic beside the cleaner, another process and the console, and through edits of its pool: status and deletion are true of the pool named last, unless something changed after the processing had begun |
| `collectors` | pass | the collectors in a process that fails, stops and is signalled anywhere: a process that lost a part ends, a signal is no failure, and a failing project hides no more than it must |

### Bounds

- `acl`: two users and one that cannot be named, two permissions, the own topic
  and another, five IDs. Declarations: none, one line, two, one line twice, an
  unnameable one. First tables include an obsolete ACL beside another topic's and
  an ACL without an ID, declared or not. `MaxOther` bounds the ACLs of the other
  topic to one. Calls are not bounded. A pair that is declared twice gives doubles,
  which a later declaration makes obsolete.
- `topic_config`: seven declarations, which between them set and unset every
  kind of setting (hours with and without default, derived, ratio), one that is
  refused for its replicas, one for its ratio, and a nil configuration.
- Reconcilers: one resource, as no step involves two. `topic_safety`: two users
  on either side of an edit, three declarations, one of which the topic manager
  refuses. Three are enough for "synchronized, edited, edited again". The number of
  edits, deletions, re-creations, retries and restarts is not bounded. Two IDs
  are enough, since a Topic declares one line at a time and a deletion precedes
  the reuse of an ID.
- `topic_live`: one ID and two declarations, one of which has no access at all and
  another configuration, so that a synchronization grants or revokes, and updates.
- `stream`: two declarations, without and with an additional user; two IDs and two
  internal topics.
- `MayRevert = FALSE` in the runs of one reconciler alone excludes exactly
  one thing: an edit back to the declaration of the current hash (edits go back
  and forth as long as nothing is synchronized). `TruthfulStatus` and
  `SkipOnlyWhenSynced` say nothing of that edit. `maintenance` has it, and
  `RepairedOrUnseen` makes it an exception (see Findings).
- `maintenance`: two declarations, with access in one pool and without in the
  other, one ID, an application and a user of the old convention, topics that are
  removed with their data. One ID means that an ACL is made only when the one
  before is gone, which is enough for every order of listing, creation and
  deletion by two writers. Edits within a pool are in `topic_safety`; here what
  the worker finds after an edit is arbitrary anyway.
- `collectors`: two projects (one before and one after a failure), two topics that
  share team or name, two versions; each source looks one way or the other.
  Restarts and reports are not bounded.
- `PoolChoices` says which `--projects` there may be: with both, a restart may
  refuse the resource's pool or allow it again.
- `canary`: transactions of two messages, two attempts to commit, a channel for one
  (so that a message can fail after another, and the channel is often full), four
  messages in all: two transactions, or one among plain messages. Sessions and
  restarts are not bounded.
- `EarlierObjs`: the resource at the start. The dry run starts from what an
  earlier, real process left, else it would never see a deletion.

Symmetry is over IDs, in runs of the Topic reconciler without liveness.

### Fairness

`acl`: the caller runs a call to its end and retries one that failed (the
reconciler does, with `RequeueAfter`), and a listing, creation or deletion that
is tried again and again is at some time not failed by Aiven. `Converges` excepts
declarations with a name that cannot be generated and obsolete ACLs without an ID,
at which a call ends each time.

`topic_live`, `stream`: weak fairness of the watch, of the resync
(`--sync-period`), of the requeue timer and of the worker. These are what
controller-runtime does as long as the process runs. Users, restarts and faults
have no fairness; the property is about behaviours in which they stop
(`Disturbance`). Where a failure and a success lead to the same state the step
counts as the success, so that the property asks for no less than it says.

`collectors`: every goroutine that can run does, a call ends at the latest with the
context of its report, Kubernetes starts what has ended. Failures, signals and
deadlines have no fairness; `FailuresHideNoMore` is about behaviours in which
those that concern a source stop.

`canary`: tickers tick, calls of Kafka return (Sarama has timeouts), every
goroutine that can run does, `select` does not pass over a channel that has a
message forever (Go chooses at random: the only strong fairness), Kubernetes restarts a process that exited.
Nothing is assumed of signals, cancellation or the ends of sessions. The callback
is only assumed to send once there is room, so that `CatchesUp` depends on the main
loop: without `Observe` (the mutant) the consumer stays at a full channel for good.

## What is proved

Every safety invariant and every action property of the passing runs is a theorem,
for every value of the constants. Each `...Proofs` module states an inductive
invariant, proves it part by part, one lemma per part and one step per action, and
draws the properties from it. TLC checked each inductive invariant on the instance
of its run before it was proved.

### Assumptions

Those on the constants say what a set of configurations, declarations or resources
is (`AclAssumption`, `TopicAssumption`, `ReconcilerAssumption`, `StreamAssumption`,
`TxAssumption`, `CanaryAssumption`, `CollectorsAssumption`,
`MaintenanceAssumption`). Two say more:

- `ReplicaAssumption`: a configuration has both numbers of replicas or neither.
  `Process` gives a resource without a `Config` an empty one and fills in its
  defaults, which are both (`topic_controller.go:160-163`); a call of the topic
  manager without a `Config` has neither (`topic.go:85-88`). Topics that Aiven has
  from elsewhere have enough replicas.
- `EarlierAssumption`: "no resource" is not a resource, and the one at the start is
  one that the API can hold.

Two hypotheses stand in the theorems themselves:

- Theorems about the truth of a status start from one that is true
  (`Spec /\ TruthfulStatus`, `MaintSpec /\ RepairedOrUnseen`), as the reconciler
  trusts a hash that it finds. A start without resources is one.
- `TruthfulStatusTheorem`, `SkipOnlyWhenSyncedTheorem` and `StreamTruthfulStatus`
  assume `~MayRevert`. Without it they are false: that is the reverted edit
  among the findings. `RepairedOrUnseenTheorem` does without, and says of such an
  edit that it sets `unseen`.

### ACL manager and topic manager

- `AclInvariant`: `AclInv` holds in every reachable state. `SyncedOnSuccess` alone
  is not inductive: that `aclPc = "ok"` means synchronized follows from what the
  call has still to do. `PlanIsExact` says what that is: while a call runs, the
  ACLs to delete are precisely the obsolete ones at Aiven, every declared pair
  without an ACL is still to be created, and nothing is deleted before that. It
  holds because other writers touch other topics only, which `UniqueIds` turns
  into "deleting by ID deletes nothing else". The last conjunct (a position to
  create, if its pair is declared once, has no ACL yet) is what makes retries
  free of doubles. From it: `SuccessMeansSynced`, `ForeignUntouchedTheorem`,
  `RevokeAfterGrantTheorem`, `NoDuplicatesTheorem`.
- `ImplementsPromise`: every step of the manager, when it is not a dry run, is a
  step of `AccessPromise` or changes nothing that it speaks of; `Phase` maps where
  the call is to the phases of the promise, `Granted` and `Goal` the tables.
- `TopicConfigured` and `TopicTypeInvariant`, from `TopicInv`.
  `ReplicasSufficeTheorem`: the code compares the two numbers of a declaration
  with each other and never with the topic's. That suffices because every request
  carries both or neither (`ReplicaAssumption`), so that a merge with what Aiven has
  never pairs a new number with an old one.

### Reconcilers

`ReconcilerInvariant` (Topic) and `StreamInvariant` have these parts:

- `AclInv` (of a Stream: unless it is a dry run) and `TopicInv` carry over because
  `Process` begins each call anew and runs one at a time.
- `CopyInv`: which copies are current; what the worker does not see is queued or
  on its way. `ControllerProofs` proves it for the steps both reconcilers share.
- `PlaceInv`: which manager runs at which place, for which copy; and that a
  current copy *is* the resource, with the finalizer.
- `ProgressInv`: what `Process` has achieved for its copy at each place. This is
  where success of a manager turns into a fact about Aiven.
- `DeletionInv`: a copy of a resource that is being deleted outlives that
  resource only when nothing is left for it to destroy. It is what keeps a
  stale copy from deleting the data of a new resource of the same name.

From it, the deletions (`GoneMeansCleanedTheorem`, `DataOnlyOnDeletionTheorem` and
those of the Stream), `RefusedPoolUntouchedTheorem`, `NoLostWakeupTheorem`,
`StreamNoLostWakeup`, `DryRunUntouchedTheorem` and the types. For the Stream,
`ProgressInv` adds that no topic escapes the listing: applications lost their access
before it was made.

What the managers promise, the reconcilers keep: `ReconcilerKeepsAccess` and
`StreamKeepsAccess` say `ForeignUntouched`, `RevokeAfterGrant` and `NoDuplicates` of
all that happens to a resource (the Stream's with `~DryRun`, as its deletions do
call Aiven in a dry run), `ReconcilerReplicasSuffice` the same of replicas. They
are stronger than the theorems about a manager alone, where no worker crashes
half-way and no deletion comes between.

A status needs more (`StatusInv`), since a worker with an old copy may undo what a
newer version claims. It cannot, because of `SpecInv`: a copy older than a version
that counts as synchronized declares the same. Synchronizing a declaration again
takes nothing away (`ProcessKeepsDeclaration`, from `PlanIsExact`), and a
conflict stops the `Update` of an old copy. From it: `TruthfulStatusTheorem`,
`SkipOnlyWhenSyncedTheorem`, `StreamTruthfulStatus`.

### Maintenance

`AclInv`, `ProgressInv` and the others do not survive a step of the cleaner. What
does is `MaintInv`: types, copies and places, and that a busy worker is in the pool
of its copy. The rest is *recovered*: `UndisturbedInv` says that it holds unless
something was changed (`unseen`) or whoever processes next looks at everything
anew (`AllAhead`). `BeginsAnew` is the heart of the argument: `AllAhead` ends only
with the first step of the worker on a current copy that it does not skip. At that
step no call runs, so that the invariants hold again, with nothing done yet.
`RepairInv` adds to that what a status tells of: the pool is the declared one,
Aiven holds the declaration, and older copies declare the same, so that nothing
turns the worker to another pool. From them: `RepairedOrUnseenTheorem`, for any
number of pools, declarations and users and with edits that return to what was
synchronized last, and `CleanedOrUnseenTheorem`.

### Process, collectors, Kafka clients, canary

- `ProcessInvariant`: `ProcessInv`, for any number of starts. `SignalIsNoFailure`
  alone is not inductive: it has to be known that only the supervisor cancels the
  manager, so that until it has made its choice whatever is in the quit channel,
  or waits to be sent there, is a failure. From it: `RuntimeMeansFailure`.
- `CollectorsRunInProcess`: what the collectors do is a step of the process or
  leaves it alone, so that this carries over (`CollectorsSignalIsNoFailure`).
  `CollectorsInvariant` adds to the types that collectors do not outlive their
  process and that no report starts with the answers of another.
- `TxInvariant`: `TxInv`, for transactions of any size. `AllOrNothing` alone is not
  inductive: it has to be known that while messages are sent all that were sent are
  stored in an open transaction, that no commit is tried before all are, and that
  an abort succeeds for an open transaction only (a commit whose answer was lost
  cannot be aborted). From it: `TransactionsAreAtomic` and `ErrorsAreInvisible`.
- `CanaryInvariant`: `CanaryInv` is `TxInv` beside the main loop, which recreates
  the producer, and the consumer. A message is skipped by no one because what the
  session has taken up is never past what was handled, and what is marked lies
  before it. A stuck producer is one whose recreation failed because `ErrFatalProducer`
  is only ever returned to the loop, which recreates at once. From it:
  `NothingSkippedTheorem`, `StuckProducerIsClosed`, `CanaryTransacts`,
  `TransactedIsCommittedTheorem`, for any bounds.

### Only model-checked

The liveness properties (`Converges`, `EventuallySettled` of both reconcilers,
`CancelEndsProcess`, `CatchesUp`, `BrokenProcessEnds`, `FailuresHideNoMore`): the
prover has no `ENABLED`, on which weak fairness rests. The three
violations are TLC's counterexamples. The numeric content of the conversions
(hours to milliseconds) does not matter to the proofs, and runs compute it.

## Findings

Shown by a run:

- *Access without an owner* (`topic_orphan`): the finalizer reaches the API after
  the calls to Aiven, so a resource that is deleted during its first
  synchronization leaves its ACLs behind. A Stream has the same gap, and a wider
  one: a failed synchronization does not add the finalizer either.
- *Settings that updates do not propagate* (`topic_settings`): the cleanup policy
  is not compared, and the tombstone retention is not sent by `update`.
- *A dry run revokes access* (`stream_dry`): `handleDelete` does not pass the flag on.

Stated by a passing property as the exception it makes:

- *A reverted edit is not repaired* (`Reverted` in `RepairedOrUnseen`): a
  synchronization that fails half-way keeps the old hash. When the edit that led
  to it is undone, the hash matches again and the reconciler skips, for good.
- *A change behind the reconciler's back is not repaired* by a resync
  (`ChangedByOthers` in `RepairedOrUnseen`), although `--sync-period` is said to
  re-synchronize all resources (`cmd/kafkarator/main.go:83`). The cleaner can
  be the one: it looks at the service while a new topic has its ACLs but does not
  exist yet, Kafkarator makes the topic and reports success, and the cleaner
  deletes the ACLs it took for unused. The topic stays without access until its
  declaration changes or its hash is reset.
- *A pool that is no longer named keeps what it has* (`here` in
  `CleanedOrUnseen`): neither the edit nor the deletion removes ACLs or data there.
- *A stuck producer is reported once only* (`closed` in
  `StuckOnlyIfRecreateFailed`): when an abort fails and the recreation does, too,
  the closed producer is kept, and every later transaction fails with an error
  that is not `ErrFatalProducer` and does not lead to another recreation.
- *One failing project hides others* (`Needed` in `FailuresHideNoMore`): all of
  the topic counts, and the ACL counts of the projects named after it.
- *A pool shown as another service* (`ShowNameless` in `FailuresHideNoMore`): when
  the name of its service is not found, `Metadata` logs that and asks on without
  one (`metadata.go:31-45`). An answer is shown as the pool's, beside its right
  series, until the process ends. What such an answer can be is up to Aiven; nil
  would end the process, with all series of all pools, a case that the property
  excepts with every other end of the process.

Visible by reading: after an unexpected stop `main` may return, with exit code 0,
before the supervisor exits with `ExitRuntime`. A gauge keeps series of what is
gone until the process ends. The canary's transactional producer writes to
the plain topic (`cmd/canary/main.go:261`); its `last_produced` gauges are set
although producing failed (line 332). The alert on transactions fires for a gauge
that is 0 or absent (`charts/kafka-canary-alert/templates/alert.yaml:32`), which
it is not any more once a transaction succeeded in the process's life. `percentToRatio` refuses 0 percent where
its callers' message says 0-100.

## Not modelled

Status messages, timestamps and log lines; credentials filtering; the text of
names; flag parsing; counters and latencies, which are only output; the TLS
files and certificates. The hash of a declaration is the declaration: collisions
are not modelled. Settings are unbounded integers: TLC's have 32 bits, too few
for the overflow of hours in nanoseconds (`topic.go:280`).

`user_cleaner.py` and the second half of `acl_cleaner.py` delete service users,
on which nothing in this repository depends: Kafkarator writes user names into
ACLs and neither reads nor makes users. The scripts that only read, the canary
deployer, which runs to its end with nothing beside it, the charts and the
admission policy have no state of their own. The consumer's loop of retries is
left out because the only callback never asks for one.

## Plan

All safety properties of the runs are proved. What could still be proved is what
the theorems use without stating it for a reader:

1. An abstract specification of a resource's life (declared, in place, being
   removed, gone), without copies and queues, which both reconcilers implement.
2. `TruthfulStatus` without `~MayRevert`, with a history variable for the
   reverted edit in place of the whole of `unseen`.
3. That the cleaner, run beside a reconciler that synchronizes nothing, deletes
   only ACLs that no topic needs.
