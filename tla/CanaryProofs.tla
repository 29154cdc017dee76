----------------------------- MODULE CanaryProofs -----------------------------
(***************************************************************************)
(* Proofs about the transactional producer, for every number of messages   *)
(* and of attempts to commit, and about the canary that calls it, for      *)
(* transactions, channels and logs of any size: transactions are atomic,   *)
(* no message is skipped, the producer in use is stuck only if it could    *)
(* not be recreated, and the gauge tells the truth.                        *)
(***************************************************************************)
EXTENDS Canary, TLAPS

-----------------------------------------------------------------------------
(* The producer (TxProducer).                                              *)

USE TxAssumption

LEMMA TxInitInv == TxInit => TxInv
  BY DEF TxInit, TxInv, TxTypeOK, AllOrNothing, ErrorMeansInvisible

\* The steps before the end of the transaction is decided.
LEMMA SendingKeepsInv ==
  ASSUME TxInv,
         TxBegin \/ TxRefused \/ BeginTxn \/ BeginTxnFails
           \/ Send \/ SendFails \/ SendDone
  PROVE  TxInv'
<1>1. CASE TxBegin
  BY <1>1 DEF TxBegin, TxReturned, isFatal, TxInv, TxTypeOK, AllOrNothing, ErrorMeansInvisible
<1>2. CASE TxRefused
  BY <1>2 DEF TxRefused, TxReturned, isFatal, brokerTx, TxInv, TxTypeOK, AllOrNothing,
              ErrorMeansInvisible
<1>3. CASE BeginTxn
  BY <1>3 DEF BeginTxn, TxInv, TxTypeOK, AllOrNothing, ErrorMeansInvisible
<1>4. CASE BeginTxnFails
  BY <1>4 DEF BeginTxnFails, ErrorOr, brokerTx, TxInv, TxTypeOK, AllOrNothing,
              ErrorMeansInvisible
<1>5. CASE Send
  BY <1>5 DEF Send, TxInv, TxTypeOK, AllOrNothing, ErrorMeansInvisible
<1>6. CASE SendFails
  BY <1>6 DEF SendFails, TxInv, TxTypeOK, AllOrNothing, ErrorMeansInvisible
<1>7. CASE SendDone
  BY <1>7 DEF SendDone, brokerTx, TxInv, TxTypeOK, AllOrNothing, ErrorMeansInvisible
<1> QED
  BY <1>1, <1>2, <1>3, <1>4, <1>5, <1>6, <1>7

\* The steps that decide it, and what the caller does afterwards.
LEMMA EndingKeepsInv ==
  ASSUME TxInv,
         CommitTxn \/ CommitTxnFails \/ AbortTxn \/ AbortTxnFails
           \/ Recreate \/ RecreateFails
  PROVE  TxInv'
<1>1. CASE CommitTxn
  BY <1>1 DEF CommitTxn, TxInv, TxTypeOK, AllOrNothing, ErrorMeansInvisible
<1>2. CASE CommitTxnFails
  BY <1>2 DEF CommitTxnFails, ErrorOr, TxInv, TxTypeOK, AllOrNothing, ErrorMeansInvisible
<1>3. CASE AbortTxn
  BY <1>3 DEF AbortTxn, TxInv, TxTypeOK, AllOrNothing, ErrorMeansInvisible
<1>4. CASE AbortTxnFails
  BY <1>4 DEF AbortTxnFails, isFatal, TxInv, TxTypeOK, AllOrNothing, ErrorMeansInvisible
<1>5. CASE Recreate
  BY <1>5 DEF Recreate, brokerTx, TxInv, TxTypeOK, AllOrNothing, ErrorMeansInvisible
<1>6. CASE RecreateFails
  BY <1>6 DEF RecreateFails, brokerTx, TxInv, TxTypeOK, AllOrNothing, ErrorMeansInvisible
<1> QED
  BY <1>1, <1>2, <1>3, <1>4, <1>5, <1>6

\* A transaction is all or nothing, and what ProduceTx returns is true of it,
\* whichever calls fail (producer.go:101-152).
THEOREM TxInvariant == TxSpec => []TxInv
<1>1. TxInit => TxInv
  BY TxInitInv
<1>2. TxInv /\ [TxNext]_txVars => TxInv'
  <2> SUFFICES ASSUME TxInv, [TxNext]_txVars PROVE TxInv'
    OBVIOUS
  <2>1. CASE TxNext
    BY <2>1, SendingKeepsInv, EndingKeepsInv DEF TxNext, TxStep
  <2>2. CASE UNCHANGED txVars
    BY <2>2 DEF txVars, brokerTx, TxInv, TxTypeOK, AllOrNothing, ErrorMeansInvisible
  <2> QED
    BY <2>1, <2>2
<1> QED
  BY <1>1, <1>2, PTL DEF TxSpec

\* A transaction is visible with all its messages or not at all, and nil means
\* visible.
THEOREM TransactionsAreAtomic == TxSpec => []AllOrNothing
<1>1. TxInv => AllOrNothing
  BY DEF TxInv
<1> QED
  BY <1>1, TxInvariant, PTL

\* After an error that is not ErrFatalProducer, nothing of the transaction is
\* or becomes visible.
THEOREM ErrorsAreInvisible == TxSpec => []ErrorMeansInvisible
<1>1. TxInv => ErrorMeansInvisible
  BY DEF TxInv
<1> QED
  BY <1>1, TxInvariant, PTL

-----------------------------------------------------------------------------
(* The canary.                                                             *)

HIDE TxAssumption
USE CanaryAssumption

\* What the canary adds to TxInv, with TypeOK spelled out.
CanaryPart ==
  /\ loopPc \in {"select", "produce", "tx", "exited"}
  /\ cancelled \in BOOLEAN /\ closed \in BOOLEAN
  /\ transacted \in 0..(MaxLog - 1) \cup {NoOffset}
  /\ logEnd \in 0..MaxLog
  /\ committed \in 0..logEnd /\ position \in 0..logEnd
  /\ marked \in 0..logEnd /\ handled \in 0..logEnd
  /\ consPc \in {"none", "claim", "callback", "refused", "mark"}
  /\ cons \in Seq(0..(MaxLog - 1)) /\ Len(cons) <= ChannelSize
  /\ committed <= handled /\ marked <= handled
  /\ txnStatus = "stuck" /\ txPc # "errFatal" => closed
  /\ position <= handled
  /\ consPc = "mark" => position < handled
  /\ consPc \in {"callback", "refused", "mark"} => position < logEnd
  /\ loopPc = "produce" => logEnd < MaxLog
  /\ loopPc = "tx" => logEnd + TxSize <= MaxLog + stored
  /\ stored <= logEnd
  /\ txPc = "errFatal" => loopPc = "tx"

LEMMA CanaryInvParts == CanaryInv <=> TxInv /\ CanaryPart
  BY DEF CanaryInv, TypeOK, TxInv, NothingSkipped, StuckOnlyIfRecreateFailed, CanaryPart

\* The producer's own invariant depends on nothing else.
LEMMA TxInvStable == TxInv /\ UNCHANGED txVars => TxInv'
  BY DEF txVars, TxInv, TxTypeOK, AllOrNothing, ErrorMeansInvisible

LEMMA TxStepInv == TxInv /\ TxNext => TxInv'
  BY SendingKeepsInv, EndingKeepsInv DEF TxNext, TxStep

LEMMA EmptyChannel == <<>> \in Seq(0..(MaxLog - 1)) /\ Len(<<>>) = 0
  OBVIOUS

LEMMA CanaryInitInv == Init => CanaryInv
<1> SUFFICES ASSUME Init PROVE TxInv /\ CanaryPart
  BY CanaryInvParts
<1>1. TxInv
  BY TxInitInv DEF Init
<1>2. cancelled \in BOOLEAN /\ closed \in BOOLEAN
  BY DEF Init
<1>3. closed = FALSE /\ txnStatus = "ready" /\ txPc = "idle" /\ stored = 0
  BY DEF Init, TxInit
<1> QED
  BY <1>1, <1>2, <1>3, TxAssumption, EmptyChannel DEF Init, CanaryPart

\* What the steps of a transaction do to the messages at the broker.
LEMMA StoredGrows ==
  ASSUME TxInv, TxStep
  PROVE  /\ stored \in Nat /\ stored' \in Nat
         /\ stored <= stored' /\ stored' <= TxSize
         /\ txPc' # "errFatal" /\ txnStatus' = "stuck" => txnStatus = "stuck" /\ txPc # "errFatal"
<1> USE TxAssumption DEF TxInv, TxTypeOK
<1>1. CASE BeginTxn BY <1>1 DEF BeginTxn
<1>2. CASE BeginTxnFails BY <1>2 DEF BeginTxnFails, ErrorOr, brokerTx
<1>3. CASE Send BY <1>3 DEF Send
<1>4. CASE SendFails BY <1>4 DEF SendFails
<1>5. CASE SendDone BY <1>5 DEF SendDone, brokerTx
<1>6. CASE CommitTxn BY <1>6 DEF CommitTxn
<1>7. CASE CommitTxnFails BY <1>7 DEF CommitTxnFails, ErrorOr
<1>8. CASE AbortTxn BY <1>8 DEF AbortTxn
<1>9. CASE AbortTxnFails BY <1>9 DEF AbortTxnFails, isFatal
<1> QED
  BY <1>1, <1>2, <1>3, <1>4, <1>5, <1>6, <1>7, <1>8, <1>9 DEF TxStep

\* The steps of the main loop in which the producer does something.
LEMMA TransactingKeepsInv ==
  ASSUME TxInv, CanaryPart, TxTick \/ RunTx \/ TxFatal
  PROVE  TxInv' /\ CanaryPart'
<1> USE TxAssumption DEF CanaryPart, loopVars, consumerVars, sessionVars
<1>1. CASE TxTick
  <2>1. TxInv'
    BY <1>1, TxStepInv DEF TxTick, TxNext
  <2>2. CanaryPart'
    BY <1>1 DEF TxTick, TxBegin, TxRefused, isFatal, brokerTx, TxInv, TxTypeOK
  <2> QED
    BY <2>1, <2>2
<1>2. CASE RunTx
  <2>1. TxStep
    BY <1>2 DEF RunTx
  <2>2. TxInv'
    BY <2>1, TxStepInv DEF TxNext
  <2>3. /\ UNCHANGED <<closed, loopPc, cancelled, transacted>>
        /\ UNCHANGED <<committed, consPc, position, marked, handled, cons>>
    BY <1>2 DEF RunTx
  <2>4. stored \in Nat /\ stored' \in Nat /\ stored <= stored' /\ stored' <= TxSize
    BY <2>1, StoredGrows
  <2>5. /\ logEnd' = logEnd + (stored' - stored)
        /\ logEnd \in Nat /\ MaxLog \in Nat /\ TxSize \in Nat
        /\ stored <= logEnd /\ logEnd + TxSize <= MaxLog + stored
    BY <1>2 DEF RunTx
  <2> HIDE DEF CanaryPart
  <2>6. /\ logEnd' \in 0..MaxLog /\ logEnd <= logEnd' /\ stored' <= logEnd'
        /\ logEnd' + TxSize <= MaxLog + stored'
    <3>1. \A l, s, s2, m, t \in Nat :
            s <= s2 /\ s2 <= t /\ s <= l /\ l + t <= m + s =>
              LET l2 == l + (s2 - s) IN
                l2 \in 0..m /\ l <= l2 /\ s2 <= l2 /\ l2 + t <= m + s2
      OBVIOUS
    <3> QED
      BY ONLY <2>4, <2>5, <3>1
  <2>7. /\ committed \in 0..logEnd' /\ position \in 0..logEnd'
        /\ marked \in 0..logEnd' /\ handled \in 0..logEnd'
        /\ consPc \in {"callback", "refused", "mark"} => position < logEnd'
    BY <2>5, <2>6 DEF CanaryPart
  <2>8. /\ loopPc = "tx"
        /\ txPc' # "errFatal" /\ txnStatus' = "stuck" => closed
    BY <1>2, <2>1, StoredGrows DEF RunTx, CanaryPart
  <2>9. CanaryPart'
    BY <2>3, <2>6, <2>7, <2>8 DEF CanaryPart
  <2> QED
    BY <2>2, <2>9
<1>3. CASE TxFatal
  <2>1. TxInv'
    BY <1>3, TxStepInv DEF TxFatal, TxNext
  <2>2. CanaryPart'
    BY <1>3 DEF TxFatal, Again, Recreate, RecreateFails, brokerTx, TxInv, TxTypeOK
  <2> QED
    BY <2>1, <2>2
<1> QED
  BY <1>1, <1>2, <1>3

\* The other steps of the main loop.
LEMMA LoopKeepsInv ==
  ASSUME TxInv, CanaryPart,
         ProduceTick \/ ProduceOk \/ ProduceFails \/ TxOk \/ TxError \/ Observe \/ Signal
  PROVE  TxInv' /\ CanaryPart'
<1> USE DEF CanaryPart, prodVars, txVars, loopVars, consumerVars, sessionVars
<1>1. TxInv'
  BY TxInvStable DEF ProduceTick, ProduceOk, ProduceFails, TxOk, TxError, Observe, Signal
<1>2. CASE ProduceTick
  BY <1>1, <1>2 DEF ProduceTick, Again
<1>3. CASE ProduceOk \/ ProduceFails
  <2>1. cancelled' \in BOOLEAN
    BY <1>3 DEF ProduceOk, ProduceFails
  <2>2. loopPc = "produce" /\ loopPc' \in {"select", "exited"}
    BY <1>3 DEF ProduceOk, ProduceFails, Again
  <2>3. logEnd' \in {logEnd, logEnd + 1}
    BY <1>3 DEF ProduceOk, ProduceFails
  <2>4. UNCHANGED <<prodVars, transacted, consumerVars>>
    BY <1>3 DEF ProduceOk, ProduceFails
  <2> QED
    BY <1>1, <2>1, <2>2, <2>3, <2>4 DEF TxInv, TxTypeOK
<1>4. CASE TxOk
  <2>1. 1 <= logEnd
    BY <1>4, TxAssumption DEF TxOk, TxInv, AllOrNothing
  <2> QED
    BY <1>1, <1>4, <2>1 DEF TxOk, Again
<1>5. CASE TxError \/ Signal
  BY <1>1, <1>5 DEF TxError, Signal, Again
<1>6. CASE Observe
  BY <1>1, <1>6 DEF Observe, Again
<1> QED
  BY <1>2, <1>3, <1>4, <1>5, <1>6

\* The steps of the consumer.
LEMMA ConsumerKeepsInv ==
  ASSUME TxInv, CanaryPart, Consumer
  PROVE  TxInv' /\ CanaryPart'
<1> USE DEF CanaryPart, prodVars, txVars, loopVars, consumerVars, sessionVars
<1>1. TxInv'
  BY TxInvStable DEF Consumer, Cancel, Join, Take, HandOver, Drop, MarkMessage, AutoCommit,
                     SessionEnds
<1>2. CASE Cancel \/ Join
  BY <1>1, <1>2 DEF Cancel, Join
<1>3. CASE Take
  BY <1>1, <1>3 DEF Take
<1>4. CASE HandOver
  BY <1>1, <1>4 DEF HandOver, Handle
<1>5. CASE Drop
  BY <1>1, <1>5 DEF Drop, Handle
<1>6. CASE MarkMessage
  BY <1>1, <1>6 DEF MarkMessage
<1>7. CASE AutoCommit \/ SessionEnds
  BY <1>1, <1>7 DEF AutoCommit, SessionEnds
<1> QED
  BY <1>2, <1>3, <1>4, <1>5, <1>6, <1>7 DEF Consumer

\* A new process starts from the offsets that Kafka has.
LEMMA RestartKeepsInv ==
  ASSUME TxInv, CanaryPart, Restart
  PROVE  TxInv' /\ CanaryPart'
<1>1. TxInv'
  BY TxAssumption DEF Restart, TxInv, TxTypeOK, AllOrNothing, ErrorMeansInvisible
<1>2. cancelled' \in BOOLEAN /\ closed' \in BOOLEAN
  BY DEF Restart
<1>3. CanaryPart'
  BY <1>2, TxAssumption, EmptyChannel DEF Restart, CanaryPart
<1> QED
  BY <1>1, <1>3

\* CanaryInv holds in every reachable state of the canary.
THEOREM CanaryInvariant == Spec => []CanaryInv
<1>1. Init => CanaryInv
  BY CanaryInitInv
<1>2. CanaryInv /\ [Next]_vars => CanaryInv'
  <2> SUFFICES ASSUME TxInv, CanaryPart, [Next]_vars PROVE TxInv' /\ CanaryPart'
    BY CanaryInvParts DEF CanaryInv, TypeOK, TxInv, NothingSkipped,
                          StuckOnlyIfRecreateFailed, CanaryPart
  <2>1. CASE Loop \/ Signal
    BY <2>1, TransactingKeepsInv, LoopKeepsInv DEF Loop
  <2>2. CASE Consumer
    BY <2>2, ConsumerKeepsInv
  <2>3. CASE Restart
    BY <2>3, RestartKeepsInv
  <2>4. CASE UNCHANGED vars
    <3> USE <2>4 DEF vars, prodVars, txVars, loopVars, consumerVars, sessionVars
    <3>1. TxInv'
      BY TxInvStable
    <3>2. CanaryPart'
      BY DEF CanaryPart
    <3> QED
      BY <3>1, <3>2
  <2> QED
    BY <2>1, <2>2, <2>3, <2>4 DEF Next
<1> QED
  BY <1>1, <1>2, PTL DEF Spec

\* The variables keep their types, whichever calls fail and whenever the
\* process ends; the channel never holds more than it has room for.
THEOREM CanaryTypeInvariant == Spec => []TypeOK
<1>1. CanaryInv => TypeOK
  BY DEF CanaryInv
<1> QED
  BY <1>1, CanaryInvariant, PTL

\* The group's offset never passes a message that was neither handed to the
\* main loop nor refused by the callback (consumer.go:50-80).
THEOREM NothingSkippedTheorem == Spec => []NothingSkipped
<1>1. CanaryInv => NothingSkipped
  BY DEF CanaryInv
<1> QED
  BY <1>1, CanaryInvariant, PTL

\* The producer in use can neither begin nor abort only if its recreation
\* failed (producer.go:16-18, canary main.go:346-358).
THEOREM StuckProducerIsClosed == Spec => []StuckOnlyIfRecreateFailed
<1>1. CanaryInv => StuckOnlyIfRecreateFailed
  BY DEF CanaryInv
<1> QED
  BY <1>1, CanaryInvariant, PTL

\* The main loop calls the producer in the way that TransactionsAreAtomic and
\* ErrorsAreInvisible presuppose, across failures, recreations and restarts.
THEOREM CanaryTransacts == Spec => [](AllOrNothing /\ ErrorMeansInvisible)
<1>1. CanaryInv => AllOrNothing /\ ErrorMeansInvisible
  BY DEF CanaryInv, TxInv
<1> QED
  BY <1>1, CanaryInvariant, PTL

\* The gauge moves only to the offset of a message of a transaction that is
\* committed as a whole (canary main.go:338-364).
THEOREM TransactedIsCommittedTheorem == Spec => TransactedIsCommitted
<1> DEFINE Truthful ==
      transacted' \notin {transacted, NoOffset} =>
        /\ outcome = "committed" /\ stored = TxSize
        /\ transacted' \in (logEnd - stored)..(logEnd - 1)
<1>1. CanaryInv /\ [Next]_vars => [Truthful]_vars
  <2> SUFFICES ASSUME CanaryInv, Next, transacted' \notin {transacted, NoOffset}
               PROVE  /\ outcome = "committed" /\ stored = TxSize
                      /\ transacted' \in (logEnd - stored)..(logEnd - 1)
    OBVIOUS
  <2>1. TxOk
    BY DEF Next, Loop, Consumer, loopVars, ProduceTick, ProduceOk, ProduceFails, TxTick, RunTx,
           TxOk, TxError, TxFatal, Observe, Signal, Cancel, Join, Take, HandOver, Drop,
           MarkMessage, AutoCommit, SessionEnds, Restart
  <2>2. outcome = "committed" /\ stored = TxSize
    BY <2>1 DEF TxOk, CanaryInv, AllOrNothing, TxInv
  <2>3. TxSize \in Nat \ {0} /\ logEnd \in Nat /\ transacted' = logEnd - 1
    BY <2>1, TxAssumption, CanaryInvParts DEF TxOk, CanaryPart
  <2> QED
    BY <2>2, <2>3
<1> QED
  BY <1>1, CanaryInvariant, PTL DEF Spec, TransactedIsCommitted

=============================================================================
