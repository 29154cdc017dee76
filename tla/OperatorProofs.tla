---------------------------- MODULE OperatorProofs ----------------------------
(***************************************************************************)
(* Proofs about the kafkarator process, however often it is started, and   *)
(* about the collectors that run in it.                                    *)
(***************************************************************************)
EXTENDS Collectors, TLAPS

\* The first state of a process satisfies the invariant.
LEMMA ProcessInitInv == ProcessInit => ProcessInv
  BY DEF ProcessInit, ProcessInv

\* What the goroutines do keeps it: the quit channel carries failures until
\* the supervisor has made its choice.
LEMMA GoroutinesInv ==
  ASSUME ProcessInv, Up, Launch \/ Goroutines
  PROVE  ProcessInv'
<1> USE DEF ProcessInv, Up
<1>1. CASE Launch
  BY <1>1 DEF Launch
<1>2. CASE Return
  BY <1>2 DEF Return, Exit
<1>3. CASE TellStopped
  BY <1>3 DEF TellStopped, MainTo
<1>4. CASE ManagerShutsDown
  BY <1>4 DEF ManagerShutsDown, MainTo
<1>5. CASE Setup
  BY <1>5 DEF Setup, SetupTo, Stages
<1>6. CASE TellSetupFailed
  BY <1>6 DEF TellSetupFailed, SetupTo
<1>7. CASE TakeQuit
  BY <1>7 DEF TakeQuit
<1>8. CASE TakeSignal
  BY <1>8 DEF TakeSignal
<1>9. CASE ExitRuntime
  BY <1>9 DEF ExitRuntime, Exit
<1>10. CASE ExitOK
  BY <1>10 DEF ExitOK, Exit
<1>11. QED
  BY <1>1, <1>2, <1>3, <1>4, <1>5, <1>6, <1>7, <1>8, <1>9, <1>10 DEF Goroutines

\* So do failures, signals and the end of the process.
LEMMA OutageInv ==
  ASSUME ProcessInv, Up, Outage
  PROVE  ProcessInv'
<1> USE DEF ProcessInv, Up
<1>1. CASE ConfigFails \/ NewManagerFails \/ Kill
  BY <1>1 DEF ConfigFails, NewManagerFails, Kill, Exit
<1>2. CASE ManagerStops
  BY <1>2 DEF ManagerStops, MainTo
<1>3. CASE SetupFails
  BY <1>3 DEF SetupFails, SetupTo
<1>4. CASE Signal
  BY <1>4 DEF Signal, Exit
<1>5. QED
  BY <1>1, <1>2, <1>3, <1>4 DEF Outage

\* ProcessInv holds whatever fails, and in whichever order the goroutines run.
THEOREM ProcessInvariant == ProcessSpec => []ProcessInv
<1>1. ProcessInv /\ [ProcessNext]_processVars => ProcessInv'
  <2> SUFFICES ASSUME ProcessInv, [ProcessNext]_processVars
               PROVE  ProcessInv'
    OBVIOUS
  <2>1. CASE Up /\ (Launch \/ Goroutines)
    BY <2>1, GoroutinesInv
  <2>2. CASE Up /\ Outage
    BY <2>2, OutageInv
  <2>3. CASE ~Up /\ StartProcess
    BY <2>3 DEF StartProcess, ProcessInv
  <2>4. CASE UNCHANGED processVars
    BY <2>4 DEF processVars, ProcessInv
  <2>5. QED
    BY <2>1, <2>2, <2>3, <2>4 DEF ProcessNext
<1>2. QED
  BY ProcessInitInv, <1>1, PTL DEF ProcessSpec

\* A process that exits with ExitRuntime lost a reconciler or its manager: a
\* signal does not look like that, in spite of what it sets in motion.
THEOREM RuntimeMeansFailure == ProcessSpec => []SignalIsNoFailure
<1>1. ProcessInv => SignalIsNoFailure
  BY DEF ProcessInv, SignalIsNoFailure
<1>2. QED
  BY ProcessInvariant, <1>1, PTL

LEMMA ProcessStepTypes ==
  ASSUME ProcessTypeOK, [ProcessNext]_processVars
  PROVE  ProcessTypeOK'
<1> USE DEF ProcessTypeOK
<1>1. /\ mainPc' \in {"config", "managing", "send", "return"}
      /\ setupPc' \in {"off", "started", "send", "ended"} \cup DOMAIN Stages
      /\ superPc' \in {"off", "select", "quit", "signal"}
      /\ exit' \in {"up", "ok", "config", "controller", "runtime", "killed"}
  BY DEF ProcessNext, StartProcess, Launch, Goroutines, Outage, Return, TellStopped,
     ManagerShutsDown, Setup, TellSetupFailed, TakeQuit, TakeSignal, ExitRuntime, ExitOK,
     ConfigFails, NewManagerFails, ManagerStops, SetupFails, Signal, Kill, Exit, MainTo, SetupTo,
     Stages, processVars
<1>2. {signals, terminated, failed}' \subseteq BOOLEAN
  BY DEF ProcessNext, StartProcess, Launch, Goroutines, Outage, Return, TellStopped,
     ManagerShutsDown, Setup, TellSetupFailed, TakeQuit, TakeSignal, ExitRuntime, ExitOK,
     ConfigFails, NewManagerFails, ManagerStops, SetupFails, Signal, Kill, Exit, MainTo, SetupTo,
     processVars
<1>3. quit' \in Seq({"manager", "setup"}) /\ Len(quit') <= 1
  <2>1. CASE UNCHANGED quit
    BY <2>1
  <2>2. CASE quit' = <<>>
    BY <2>2
  <2>3. CASE Room /\ \E from \in {"manager", "setup"} : quit' = Append(quit, from)
    BY <2>3 DEF Room
  <2>4. CASE quit # <<>> /\ quit' = Tail(quit)
    BY <2>4
  <2> QED
    BY <2>1, <2>2, <2>3, <2>4 DEF ProcessNext, StartProcess, Launch, Goroutines, Outage, Return,
       TellStopped, ManagerShutsDown, Setup, TellSetupFailed, TakeQuit, TakeSignal, ExitRuntime,
       ExitOK, ConfigFails, NewManagerFails, ManagerStops, SetupFails, Signal, Kill, Exit, MainTo,
       SetupTo, processVars
<1> QED
  BY <1>1, <1>2, <1>3

\* The variables of the process keep their types: the quit channel never holds
\* more than the one error it has room for, whoever sends to it.
THEOREM ProcessTypeInvariant == ProcessSpec => []ProcessTypeOK
<1>1. ProcessInit => ProcessTypeOK
  <2> SUFFICES ASSUME ProcessInit PROVE ProcessTypeOK
    OBVIOUS
  <2>1. quit \in Seq({"manager", "setup"}) /\ Len(quit) <= 1
    BY DEF ProcessInit
  <2> QED
    BY <2>1 DEF ProcessInit, ProcessTypeOK, Stages
<1>2. ProcessTypeOK /\ [ProcessNext]_processVars => ProcessTypeOK'
  BY ProcessStepTypes
<1> QED
  BY <1>1, <1>2, PTL DEF ProcessSpec

-----------------------------------------------------------------------------
(* The collectors.                                                         *)

\* The goroutines of the collectors do not interfere with the process: what
\* runs with them is the process of ProcessSpec.
THEOREM CollectorsRunInProcess == Spec => ProcessSpec
<1>1. [Next]_vars => [ProcessNext]_processVars
  BY DEF Next, ProcessStep, Collect, WorldChanges, vars
<1> QED
  BY <1>1, PTL DEF Spec, Init, ProcessSpec

\* So a signal is not taken for a failure in it either.
THEOREM CollectorsSignalIsNoFailure == Spec => []SignalIsNoFailure
BY CollectorsRunInProcess, RuntimeMeansFailure, PTL

\* There is no step from a process whose reconcilers run to one whose
\* reconcilers do not, but through its end.
LEMMA SetupStaysStarted ==
  ASSUME ProcessNext, Up', setupPc = "started", mainPc = "config" => setupPc = "off"
  PROVE  Up => setupPc' = "started"
BY DEF ProcessNext, StartProcess, Launch, Goroutines, Outage, Return, TellStopped,
   ManagerShutsDown, Setup, TellSetupFailed, TakeQuit, TakeSignal, ExitRuntime, ExitOK,
   ConfigFails, NewManagerFails, ManagerStops, SetupFails, Signal, Kill, Exit, MainTo, SetupTo,
   Stages, Up

\* startReconcilers runs only once main has made the manager.
LEMMA ConfigComesFirst ==
  ASSUME ProcessNext, mainPc = "config" => setupPc = "off"
  PROVE  mainPc' = "config" => setupPc' = "off"
BY DEF ProcessNext, StartProcess, Launch, Goroutines, Outage, Return, TellStopped,
   ManagerShutsDown, Setup, TellSetupFailed, TakeQuit, TakeSignal, ExitRuntime, ExitOK,
   ConfigFails, NewManagerFails, ManagerStops, SetupFails, Signal, Kill, Exit, MainTo, SetupTo,
   Stages, Up

LEMMA AskedAreSources == Asked \subseteq Sources
BY DEF Asked, Sources

\* What holds of a collector in every report, and between them.
CollectorParts ==
  /\ colPc \in {"off", "wait", "report"} /\ late \in BOOLEAN
  /\ todo \subseteq Sources /\ DOMAIN listed \subseteq Sources \ todo
  /\ colPc # "off" => setupPc = "started"
  /\ colPc # "report" => todo = {} /\ listed = NoAnswers

\* A process that goes on leaves the collector as it is, and one that ends
\* takes it along.
LEMMA ProcessStepInv ==
  ASSUME CollectorsInv, ProcessStep
  PROVE  CollectorsInv'
<1> USE DEF CollectorsInv, TypeOK
<1>1. ProcessNext /\ UNCHANGED <<collector, world>>
  BY DEF ProcessStep
<1>2. ProcessTypeOK'
  BY <1>1, ProcessStepTypes
<1>3. (world \in [Asked -> Looks])'
  BY <1>1 DEF Asked, Looks
<1>4. (mainPc = "config" => setupPc = "off")'
  BY <1>1, ConfigComesFirst
<1>5. CASE Up'
  <2>1. UNCHANGED collectorVars
    BY <1>5 DEF ProcessStep
  <2>2. (colPc # "off" => setupPc = "started")'
    BY <1>1, <1>5, <2>1, SetupStaysStarted DEF collectorVars
  <2> QED
    BY <1>2, <1>3, <1>4, <1>5, <2>1, <2>2 DEF collectorVars
<1>6. CASE ~Up'
  <2>1. colPc' = "off" /\ todo' = {} /\ late' = FALSE /\ listed' = NoAnswers
    BY <1>6 DEF ProcessStep
  <2>2. DOMAIN NoAnswers = {}
    BY DEF NoAnswers
  <2> QED
    BY <1>2, <1>3, <1>4, <2>1, <2>2
<1> QED
  BY <1>5, <1>6

\* Each step of the goroutine, in a process that runs.
LEMMA CollectInv ==
  ASSUME CollectorsInv, Collect
  PROVE  CollectorsInv'
<1>1. Up /\ UNCHANGED <<processVars, collector, world>>
  BY DEF Collect
<1>2. /\ ProcessTypeOK' /\ (world \in [Asked -> Looks])' /\ Up'
      /\ (mainPc = "config" => setupPc = "off")' /\ setupPc' = setupPc
  BY <1>1 DEF CollectorsInv, TypeOK, processVars, ProcessTypeOK, Asked, Looks, Up
<1> SUFFICES CollectorParts'
  BY <1>2 DEF CollectorParts, CollectorsInv, TypeOK
<1> USE DEF CollectorParts
<1>3. CollectorParts
  BY DEF CollectorsInv, TypeOK
<1>4. DOMAIN NoAnswers = {}
  BY DEF NoAnswers
<1>5. ASSUME EndReport, colPc = "report"
      PROVE  CollectorParts'
  BY <1>2, <1>3, <1>4, <1>5 DEF EndReport
<1>6. CASE StartCollector
  BY <1>2, <1>3, <1>6 DEF StartCollector
<1>7. CASE BeginReport
  BY <1>2, <1>3, <1>4, <1>7, AskedAreSources DEF BeginReport
<1>8. CASE \E s \in Sources : Keep(s)
  BY <1>2, <1>3, <1>8 DEF Keep, Asking
<1>9. CASE \E s \in Sources : Show(s)
  BY <1>2, <1>3, <1>9 DEF Show, Asking
<1>10. CASE \E s \in Sources : AskFails(s)
  <2>1. PICK s \in Sources : AskFails(s)
    BY <1>10
  <2>2. CASE EndReport
    BY <1>5, <2>1, <2>2 DEF AskFails, Asking
  <2>3. CASE todo' = todo \ {s} /\ UNCHANGED <<colPc, late, listed>>
    BY <1>2, <1>3, <2>3
  <2> QED
    BY <2>1, <2>2, <2>3 DEF AskFails
<1>11. CASE Finish
  BY <1>5, <1>11 DEF Finish
<1>12. CASE Deadline
  BY <1>2, <1>3, <1>12 DEF Deadline
<1>13. CASE TimesOut
  BY <1>3, <1>5, <1>13 DEF TimesOut
<1>14. CASE \E s \in Sources : ShowNameless(s)
  BY <1>2, <1>3, <1>14 DEF ShowNameless, Asking
<1> QED
  BY <1>6, <1>7, <1>8, <1>9, <1>10, <1>11, <1>12, <1>13, <1>14 DEF Collect, Ask

\* What a source looks like is of no concern to the goroutines.
LEMMA WorldChangesInv ==
  ASSUME CollectorsInv, WorldChanges \/ UNCHANGED vars
  PROVE  CollectorsInv'
<1>1. UNCHANGED <<processVars, collector, collectorVars>>
  BY DEF WorldChanges, vars
<1>2. (world \in [Asked -> Looks])'
  <2>1. world \in [Asked -> Looks]
    BY DEF CollectorsInv, TypeOK
  <2>2. world' \in [Asked -> Looks]
    BY <2>1 DEF WorldChanges, vars
  <2> QED
    BY <1>1, <2>2 DEF Asked, Looks
<1>3. ProcessTypeOK'
  BY <1>1 DEF CollectorsInv, TypeOK, processVars, ProcessTypeOK
<1> QED
  BY <1>1, <1>2, <1>3 DEF CollectorsInv, TypeOK, processVars, collectorVars, Up

\* A collector's goroutine never outlives its process, and never carries the
\* answers of a report that failed into the next one.
THEOREM CollectorsInvariant == Spec => []CollectorsInv
<1>1. Init => CollectorsInv
  <2> SUFFICES ASSUME Init PROVE CollectorsInv
    OBVIOUS
  <2>1. quit \in Seq({"manager", "setup"}) /\ Len(quit) <= 1
    BY DEF Init, ProcessInit
  <2>2. ProcessTypeOK /\ mainPc = "config" /\ setupPc = "off" /\ Up
    BY <2>1 DEF Init, ProcessInit, ProcessTypeOK, Up
  <2> QED
    BY <2>2 DEF Init, CollectorsInv, TypeOK, NoAnswers
<1>2. CollectorsInv /\ [Next]_vars => CollectorsInv'
  BY ProcessStepInv, CollectInv, WorldChangesInv DEF Next
<1> QED
  BY <1>1, <1>2, PTL DEF Spec

\* The variables of process and collector keep their types: Report asks only
\* the sources there are, and none of which it has the answer.
THEOREM CollectorsTypeInvariant == Spec => []TypeOK
<1>1. CollectorsInv => TypeOK
  BY DEF CollectorsInv
<1> QED
  BY <1>1, CollectorsInvariant, PTL

=============================================================================
