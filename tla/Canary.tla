-------------------------------- MODULE Canary --------------------------------
(***************************************************************************)
(* kafkarator-canary (cmd/canary): the main loop, which produces messages  *)
(* and transactions and shows in gauges what came back, and beside it the  *)
(* consumer (pkg/kafka/consumer) with its callback, which hands messages   *)
(* over on a channel.  Both producers write to KafkaTopic (main.go:261 and *)
(* 267); the consumer of KafkaTransactionTopic, to which nobody writes, is *)
(* left out, as are the gauges that no property speaks of.                 *)
(*                                                                         *)
(* Messages are their offsets in the topic's one partition.                *)
(***************************************************************************)
EXTENDS TxProducer, Sequences

CONSTANTS
  ChannelSize,   \* capacity of the channel cons
  MaxLog,        \* bound: the messages that are produced
  NoOffset       \* the gauge is not set

ASSUME CanaryAssumption ==
  /\ ChannelSize \in Nat \ {0} /\ MaxLog \in Nat
  /\ NoOffset \notin Nat

VARIABLES
  loopPc,         \* what the main loop does
  closed,         \* the transactional producer in use was closed by Recreate
  cancelled,      \* cancel was called
  transacted,     \* TransactedOffset
  logEnd,         \* Kafka: the next offset of the topic
  committed,      \* Kafka: the group's offset
  consPc,         \* where ConsumeClaim is, or "none" without a session
  position,       \* the offset it takes next
  marked,         \* MarkMessage: what the session commits next
  handled,        \* history: how far messages have been handed over or dropped
  cons            \* the channel to the main loop

loopVars == <<loopPc, cancelled, transacted>>
sessionVars == <<consPc, position, marked>>
consumerVars == <<committed, consPc, position, marked, handled, cons>>
prodVars == <<txVars, closed>>
vars == <<prodVars, loopVars, logEnd, consumerVars>>

Init ==
  /\ TxInit
  /\ closed = FALSE
  /\ loopPc = "select" /\ cancelled = FALSE
  /\ transacted = NoOffset
  /\ logEnd = 0 /\ committed = 0
  /\ consPc = "none" /\ position = 0 /\ marked = 0
  /\ handled = 0 /\ cons = <<>>

-----------------------------------------------------------------------------
(* The main loop.                                                          *)

Running == loopPc # "exited"

\* Mutant: the loop does not look at the context.
Onwards(stop) == loopPc' = "select"

\* The condition of the loop, after each case.
Again(stop) == loopPc' = IF stop THEN "exited" ELSE "select"

ProduceTick ==
  /\ loopPc = "select"
  /\ IF cancelled THEN Again(cancelled)
     ELSE logEnd < MaxLog /\ loopPc' = "produce"
  /\ UNCHANGED <<prodVars, cancelled, transacted, logEnd, consumerVars>>

ProduceOk ==
  /\ loopPc = "produce"
  /\ logEnd' = logEnd + 1
  /\ Again(cancelled)
  /\ UNCHANGED <<prodVars, cancelled, transacted, consumerVars>>

\* The message, or only its acknowledgement, is lost; an error that tells of
\* invalid credentials cancels.
ProduceFails ==
  /\ loopPc = "produce"
  /\ logEnd' \in {logEnd, logEnd + 1}
  /\ cancelled' \in {cancelled, TRUE}
  /\ Again(cancelled')
  /\ UNCHANGED <<prodVars, transacted, consumerVars>>

TxTick ==
  /\ loopPc = "select"
  /\ ~cancelled
  /\ logEnd + TxSize <= MaxLog
  /\ TxBegin \/ TxRefused
  /\ loopPc' = "tx"
  /\ UNCHANGED <<closed, cancelled, transacted, logEnd, consumerVars>>

\* The messages of a transaction are in the topic whatever becomes of it.
RunTx ==
  /\ loopPc = "tx"
  /\ TxStep
  /\ logEnd' = logEnd + (stored' - stored)
  /\ UNCHANGED <<closed, loopVars, consumerVars>>

\* Mutant: the gauge is set before the error is looked at.
TxShown ==
  /\ loopPc = "tx"
  /\ txPc \in {"ok", "error"}
  /\ transacted' = logEnd - 1
  /\ Again(cancelled)
  /\ UNCHANGED <<prodVars, cancelled, logEnd, consumerVars>>

TxOk ==
  /\ loopPc = "tx"
  /\ txPc = "ok"
  /\ transacted' = logEnd - 1
  /\ Again(cancelled)
  /\ UNCHANGED <<prodVars, cancelled, logEnd, consumerVars>>

\* Here, too, and for no error that ProduceTx has wrapped.
TxError ==
  /\ loopPc = "tx"
  /\ txPc = "error"
  /\ cancelled' \in {cancelled, TRUE}
  /\ Again(cancelled')
  /\ UNCHANGED <<prodVars, transacted, logEnd, consumerVars>>

TxFatal ==
  /\ loopPc = "tx"
  /\ \/ Recreate /\ closed' = FALSE
     \/ RecreateFails /\ closed' = TRUE
  /\ Again(cancelled)
  /\ UNCHANGED <<cancelled, transacted, logEnd, consumerVars>>

\* Mutant: select has no case for the channel.
NeverObserve == FALSE

\* The gauges of consumption are set from the message.
Observe ==
  /\ loopPc = "select"
  /\ cons # <<>>
  /\ cons' = Tail(cons)
  /\ Again(cancelled)
  /\ UNCHANGED <<prodVars, cancelled, transacted, logEnd,
                 committed, sessionVars, handled>>

Signal ==
  /\ loopPc = "select"
  /\ loopPc' = "exited"
  /\ UNCHANGED <<prodVars, cancelled, transacted, logEnd, consumerVars>>

Loop ==
  \/ ProduceTick \/ ProduceOk \/ ProduceFails
  \/ TxTick \/ RunTx \/ TxOk \/ TxError \/ TxFatal
  \/ Observe

-----------------------------------------------------------------------------
(* The consumer.                                                           *)

\* Its errors, or those of the metrics server, cancel.
Cancel ==
  /\ Running
  /\ cancelled' = TRUE
  /\ UNCHANGED <<prodVars, loopPc, transacted, logEnd, consumerVars>>

\* Consume: a session starts at the group's offset.
Join ==
  /\ Running /\ ~cancelled
  /\ consPc = "none"
  /\ consPc' = "claim"
  /\ position' = committed /\ marked' = committed
  /\ UNCHANGED <<prodVars, loopVars, logEnd, committed, handled, cons>>

\* Mutant: the message is marked when it is taken.
TakeMarked ==
  /\ Running
  /\ consPc = "claim"
  /\ position < logEnd
  /\ consPc' \in {"callback", "refused"}
  /\ marked' = position + 1
  /\ UNCHANGED <<prodVars, loopVars, logEnd, committed, position, handled, cons>>

\* The callback is called; a message may be no timestamp, as not only the canary
\* may write to the topic.
Take ==
  /\ Running
  /\ consPc = "claim"
  /\ position < logEnd
  /\ consPc' \in {"callback", "refused"}
  /\ UNCHANGED <<prodVars, loopVars, logEnd, committed, position, marked, handled, cons>>

Handle == handled' = IF position < handled THEN handled ELSE position + 1

\* Mutant: a message for which the channel has no room is given up.
TryHandOver ==
  /\ Running
  /\ consPc = "callback"
  /\ \/ Len(cons) < ChannelSize /\ cons' = Append(cons, position) /\ Handle
     \/ Len(cons) = ChannelSize /\ UNCHANGED <<cons, handled>>
  /\ consPc' = "mark"
  /\ UNCHANGED <<prodVars, loopVars, logEnd, committed, position, marked>>

\* A timestamp waits for room in the channel, for as long as it takes.
HandOver ==
  /\ Running
  /\ consPc = "callback"
  /\ Len(cons) < ChannelSize
  /\ cons' = Append(cons, position)
  /\ Handle
  /\ consPc' = "mark"
  /\ UNCHANGED <<prodVars, loopVars, logEnd, committed, position, marked>>

\* What is no timestamp is an error, but not one to retry.
Drop ==
  /\ Running
  /\ consPc = "refused"
  /\ Handle
  /\ consPc' = "mark"
  /\ UNCHANGED <<prodVars, loopVars, logEnd, committed, position, marked, cons>>

MarkMessage ==
  /\ Running
  /\ consPc = "mark"
  /\ marked' = position + 1
  /\ position' = position + 1
  /\ consPc' = "claim"
  /\ UNCHANGED <<prodVars, loopVars, logEnd, committed, handled, cons>>

\* Sarama commits what is marked from time to time.
AutoCommit ==
  /\ Running
  /\ consPc # "none"
  /\ committed # marked
  /\ committed' = marked
  /\ UNCHANGED <<prodVars, loopVars, logEnd, sessionVars, handled, cons>>

\* A session ends between two messages, its last commit may fail; Consume is
\* called again.
SessionEnds ==
  /\ Running
  /\ consPc = "claim"
  /\ committed' \in {committed, marked}
  /\ consPc' = "none"
  /\ UNCHANGED <<prodVars, loopVars, logEnd, position, marked, handled, cons>>

Consumer ==
  \/ Cancel \/ Join \/ Take \/ HandOver \/ Drop \/ MarkMessage
  \/ AutoCommit \/ SessionEnds

-----------------------------------------------------------------------------

\* The process ends, by itself or not, and Kubernetes starts it again.
Restart ==
  /\ txnStatus' = "ready" /\ txPc' = "idle" /\ sent' = 0 /\ commits' = 0
  /\ stored' = 0 /\ outcome' = "none" /\ closed' = FALSE
  /\ loopPc' = "select" /\ cancelled' = FALSE
  /\ transacted' = NoOffset
  /\ consPc' = "none" /\ position' = 0 /\ marked' = 0 /\ cons' = <<>>
  /\ UNCHANGED <<logEnd, committed, handled>>

Next == Loop \/ Signal \/ Consumer \/ Restart

Spec == Init /\ [][Next]_vars

\* Tickers tick, calls return, the runtime runs every goroutine that can run,
\* select does not pass over a channel forever, and Kubernetes restarts what
\* has exited.  A callback whose channel is full cannot run: it is the loop that
\* has to make room.
Fairness ==
  /\ WF_vars(ProduceTick) /\ WF_vars(ProduceOk \/ ProduceFails)
  /\ WF_vars(RunTx \/ TxOk \/ TxError \/ TxFatal)
  /\ SF_vars(Observe)
  /\ WF_vars(Join) /\ WF_vars(Take) /\ WF_vars(HandOver) /\ WF_vars(Drop)
  /\ WF_vars(MarkMessage) /\ WF_vars(AutoCommit)
  /\ WF_vars(~Running /\ Restart)

LiveSpec == Spec /\ Fairness

-----------------------------------------------------------------------------
(* Correctness.                                                            *)

TypeOK ==
  /\ TxTypeOK
  /\ loopPc \in {"select", "produce", "tx", "exited"}
  /\ {cancelled, closed} \subseteq BOOLEAN
  /\ transacted \in 0..(MaxLog - 1) \cup {NoOffset}
  /\ logEnd \in 0..MaxLog
  /\ {committed, position, marked, handled} \subseteq 0..logEnd
  /\ consPc \in {"none", "claim", "callback", "refused", "mark"}
  /\ cons \in Seq(0..(MaxLog - 1)) /\ Len(cons) <= ChannelSize

\* A message that the group's offset says is done was handed to the main loop
\* or refused by the callback, by this process or an earlier one: neither the
\* end of a session, nor a full channel, nor a crash skips one.
NothingSkipped == committed <= handled /\ marked <= handled

\* "... a fatal or permanently-stuck state and must be closed and recreated
\* before any further transactions can succeed" (producer.go:16-18): a producer
\* that can neither begin nor abort is in use only if its recreation failed;
\* whichever call left it so, ProduceTx told at once.
StuckOnlyIfRecreateFailed == txnStatus = "stuck" /\ txPc # "errFatal" => closed

\* The inductive invariant: the consumer marks what it handed over, in order,
\* and a transaction's messages are counted in the log as they are stored.
CanaryInv ==
  /\ TxInv
  /\ TypeOK
  /\ NothingSkipped
  /\ StuckOnlyIfRecreateFailed
  /\ position <= handled
  /\ consPc = "mark" => position < handled
  /\ consPc \in {"callback", "refused", "mark"} => position < logEnd
  /\ loopPc = "produce" => logEnd < MaxLog
  /\ loopPc = "tx" => logEnd + TxSize <= MaxLog + stored
  /\ stored <= logEnd
  /\ txPc = "errFatal" => loopPc = "tx"

\* The alert on transacted_messages_total (charts/kafka-canary-alert) rests on
\* it: the gauge moves only for a transaction that is committed as a whole,
\* and to the offset of one of its messages.
TransactedIsCommitted ==
  [][transacted' \notin {transacted, NoOffset} =>
       /\ outcome = "committed" /\ stored = TxSize
       /\ transacted' \in (logEnd - stored)..(logEnd - 1)]_vars

\* Once cancelled, the process ends, although nothing in select waits for the
\* context, whatever the loop and the consumer were waiting for.
CancelEndsProcess == cancelled ~> ~cancelled \/ ~Running

\* When the process stays up and its sessions do not end, the group's offset
\* reaches the end of the topic: neither a slow main loop nor the transactions
\* that it waits for keep the consumer waiting forever.
CatchesUp ==
  <>[][~(Cancel \/ Signal \/ Restart \/ SessionEnds)]_vars => <>[](committed = logEnd)

=============================================================================
