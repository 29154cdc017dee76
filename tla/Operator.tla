------------------------------- MODULE Operator -------------------------------
(***************************************************************************)
(* The kafkarator process (cmd/kafkarator/main.go): main, which becomes    *)
(* the manager, startReconcilers, and the goroutine that waits for the     *)
(* quit channel and for signals, called the supervisor here.  The process  *)
(* may end, by the one's os.Exit or the other's return, between any two    *)
(* steps of the rest.                                                      *)
(***************************************************************************)
EXTENDS Naturals, Sequences

VARIABLES
  mainPc,       \* main
  setupPc,      \* startReconcilers
  superPc,      \* the supervisor
  quit,         \* QuitChannel: who sent an error
  signals,      \* the channel of signals holds one
  terminated,   \* the manager's context is cancelled
  exit,         \* how the process ended, or "up"
  failed        \* history: the setup failed, or the manager stopped by itself

processVars == <<mainPc, setupPc, superPc, quit, signals, terminated, exit, failed>>

Up == exit = "up"

ProcessInit ==
  /\ mainPc = "config" /\ setupPc = "off" /\ superPc = "off"
  /\ quit = <<>> /\ signals = FALSE /\ terminated = FALSE
  /\ exit = "up" /\ failed = FALSE

-----------------------------------------------------------------------------
(* main.                                                                   *)

Exit(code) ==
  /\ exit' = code
  /\ UNCHANGED <<mainPc, setupPc, superPc, quit, signals, terminated, failed>>

ConfigFails == mainPc = "config" /\ Exit("config")
NewManagerFails == mainPc = "config" /\ Exit("controller")

\* With the manager made, the other goroutines start, and main starts it.
Launch ==
  /\ mainPc = "config"
  /\ mainPc' = "managing" /\ setupPc' = "clients" /\ superPc' = "select"
  /\ UNCHANGED <<quit, signals, terminated, exit, failed>>

MainTo(pc) ==
  /\ mainPc' = pc
  /\ UNCHANGED <<setupPc, superPc, signals, terminated, exit>>

\* mgr.Start returns: by itself, or because its context is cancelled.
ManagerStops == mainPc = "managing" /\ MainTo("send") /\ failed' = TRUE /\ UNCHANGED quit

ManagerShutsDown ==
  /\ mainPc = "managing"
  /\ terminated
  /\ MainTo("send")
  /\ UNCHANGED <<quit, failed>>

Room == Len(quit) < 1

TellStopped ==
  /\ mainPc = "send"
  /\ Room
  /\ quit' = Append(quit, "manager")
  /\ MainTo("return")
  /\ UNCHANGED failed

\* A main that returns ends the process, with success.
Return == mainPc = "return" /\ Exit("ok")

-----------------------------------------------------------------------------
(* startReconcilers.                                                       *)

Stages == [clients |-> "topic", topic |-> "stream", stream |-> "started"]

SetupTo(pc) ==
  /\ setupPc' = pc
  /\ UNCHANGED <<mainPc, superPc, signals, terminated, exit>>

\* The clients, then the Topic reconciler, then the Stream reconciler; when
\* they are registered the collectors start.
Setup ==
  /\ setupPc \in DOMAIN Stages
  /\ SetupTo(Stages[setupPc])
  /\ UNCHANGED <<quit, failed>>

SetupFails ==
  /\ setupPc \in DOMAIN Stages
  /\ SetupTo("send")
  /\ failed' = TRUE
  /\ UNCHANGED quit

TellSetupFailed ==
  /\ setupPc = "send"
  /\ Room
  /\ quit' = Append(quit, "setup")
  /\ SetupTo("ended")
  /\ UNCHANGED failed

-----------------------------------------------------------------------------
(* The supervisor: cancel, then os.Exit; the manager may stop in between.  *)

\* Mutant: the error is only logged.
LogQuit ==
  /\ superPc = "select"
  /\ quit # <<>>
  /\ quit' = Tail(quit)
  /\ UNCHANGED <<mainPc, setupPc, superPc, signals, terminated, exit, failed>>

TakeQuit ==
  /\ superPc = "select"
  /\ quit # <<>>
  /\ quit' = Tail(quit)
  /\ superPc' = "quit"
  /\ terminated' = TRUE
  /\ UNCHANGED <<mainPc, setupPc, signals, exit, failed>>

\* Mutant: the manager is cancelled, and the loop goes on.
CancelOnSignal ==
  /\ superPc = "select"
  /\ signals
  /\ signals' = FALSE
  /\ terminated' = TRUE
  /\ UNCHANGED <<mainPc, setupPc, superPc, quit, exit, failed>>

TakeSignal ==
  /\ superPc = "select"
  /\ signals
  /\ signals' = FALSE
  /\ superPc' = "signal"
  /\ terminated' = TRUE
  /\ UNCHANGED <<mainPc, setupPc, quit, exit, failed>>

ExitRuntime == superPc = "quit" /\ Exit("runtime")
ExitOK == superPc = "signal" /\ Exit("ok")

-----------------------------------------------------------------------------
(* Kubernetes (external): SIGTERM, SIGKILL, and a new process.             *)

\* Before signal.Notify a signal ends the process.
Signal ==
  IF superPc = "off" THEN Exit("killed")
  ELSE ~signals /\ signals' = TRUE
       /\ UNCHANGED <<mainPc, setupPc, superPc, quit, terminated, exit, failed>>

Kill == Exit("killed")

StartProcess ==
  /\ mainPc' = "config" /\ setupPc' = "off" /\ superPc' = "off"
  /\ quit' = <<>> /\ signals' = FALSE /\ terminated' = FALSE
  /\ exit' = "up" /\ failed' = FALSE

\* What the goroutines do by themselves.
Goroutines ==
  \/ Return \/ TellStopped \/ ManagerShutsDown
  \/ Setup \/ TellSetupFailed
  \/ TakeQuit \/ TakeSignal \/ ExitRuntime \/ ExitOK

Outage == ConfigFails \/ NewManagerFails \/ ManagerStops \/ SetupFails \/ Signal \/ Kill

ProcessNext ==
  \/ Up /\ (Launch \/ Goroutines \/ Outage)
  \/ ~Up /\ StartProcess

ProcessSpec == ProcessInit /\ [][ProcessNext]_processVars

-----------------------------------------------------------------------------
(* Correctness.                                                            *)

ProcessTypeOK ==
  /\ mainPc \in {"config", "managing", "send", "return"}
  /\ setupPc \in {"off", "started", "send", "ended"} \cup DOMAIN Stages
  /\ superPc \in {"off", "select", "quit", "signal"}
  /\ quit \in Seq({"manager", "setup"}) /\ Len(quit) <= 1
  /\ {signals, terminated, failed} \subseteq BOOLEAN
  /\ exit \in {"up", "ok", "config", "controller", "runtime", "killed"}

\* A process that lost a part ends: neither a reconciler that could not be set
\* up while the other runs, nor a manager that stopped while startReconcilers
\* has its own error for the quit channel, nor a signal at any moment leaves
\* half an operator running (main.go:171-190).
BrokenProcessEnds == failed \/ signals ~> ~Up

\* ExitRuntime tells of a failure: the manager that stops because a signal
\* cancelled it also sends to the quit channel, but is not taken for one.
SignalIsNoFailure == exit = "runtime" => failed

\* The inductive invariant: only the supervisor cancels the manager, so that
\* what is on its way to the quit channel before that is a failure.
ProcessInv ==
  /\ superPc \in {"off", "select", "quit", "signal"}
  /\ mainPc = "config" => superPc = "off"
  /\ superPc \in {"off", "select"} =>
       /\ ~terminated
       /\ quit # <<>> \/ mainPc \in {"send", "return"} \/ setupPc = "send" => failed
  /\ superPc = "quit" => failed
  /\ exit = "runtime" => superPc = "quit"

=============================================================================
