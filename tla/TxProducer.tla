------------------------------ MODULE TxProducer ------------------------------
(***************************************************************************)
(* producer.Producer with a transaction ID (pkg/kafka/producer): ProduceTx *)
(* call by call on the Sarama producer (external), and Recreate.           *)
(*                                                                         *)
(* Of Sarama's transaction status the code tells apart what isFatal        *)
(* recognizes ("fatal") and whether BeginTxn succeeds ("ready").  A        *)
(* producer that could not abort is "stuck": BeginTxn and AbortTxn fail,   *)
(* and isFatal does not see it.  At the broker a transaction holds the     *)
(* messages stored so far and ends committed or aborted, or stays open.    *)
(***************************************************************************)
EXTENDS Naturals

CONSTANTS
  TxSize,          \* messages of a transaction
  CommitRetries    \* attempts to commit

ASSUME TxAssumption == TxSize \in Nat \ {0} /\ CommitRetries \in Nat \ {0}

VARIABLES
  txnStatus,    \* TxnStatus of the Sarama producer
  txPc,         \* where ProduceTx is; what it returned: "ok", "error" or "errFatal"
  sent,         \* messages of msg that Produce was called for successfully
  commits,      \* failed attempts to commit
  stored,       \* messages of the transaction at the broker
  outcome       \* what became of the transaction at the broker

txVars == <<txnStatus, txPc, sent, commits, stored, outcome>>
brokerTx == <<stored, outcome>>

TxInit ==
  /\ txnStatus = "ready"
  /\ txPc = "idle"
  /\ sent = 0
  /\ commits = 0
  /\ stored = 0
  /\ outcome = "none"

TxReturned == txPc \in {"idle", "ok", "error", "errFatal"}

isFatal == txnStatus = "fatal"

\* Where ProduceTx goes after an error of Sarama that it does not abort for.
ErrorOr(next, status) == IF status = "fatal" THEN "errFatal" ELSE next

-----------------------------------------------------------------------------
(* ProduceTx.                                                              *)

\* Mutant: the attempts to commit are counted from the last transaction on.
TxBeginCounting ==
  /\ TxReturned
  /\ ~isFatal
  /\ txPc' = "begin"
  /\ sent' = 0 /\ UNCHANGED commits
  /\ stored' = 0 /\ outcome' = "none"
  /\ UNCHANGED txnStatus

TxBegin ==
  /\ TxReturned
  /\ ~isFatal
  /\ txPc' = "begin"
  /\ sent' = 0 /\ commits' = 0
  /\ stored' = 0 /\ outcome' = "none"
  /\ UNCHANGED txnStatus

TxRefused ==
  /\ TxReturned
  /\ isFatal
  /\ txPc' = "errFatal"
  /\ UNCHANGED <<txnStatus, sent, commits, brokerTx>>

BeginTxn ==
  /\ txPc = "begin"
  /\ txnStatus = "ready"
  /\ txnStatus' = "open"
  /\ txPc' = "send"
  /\ outcome' = "open"
  /\ UNCHANGED <<sent, commits, stored>>

\* Nothing is aborted here: a producer that is stuck stays so.
BeginTxnFails ==
  /\ txPc = "begin"
  /\ txnStatus' = IF txnStatus = "ready" THEN "fatal" ELSE txnStatus
  /\ txPc' = ErrorOr("error", txnStatus')
  /\ UNCHANGED <<sent, commits, brokerTx>>

Send ==
  /\ txPc = "send"
  /\ sent < TxSize
  /\ sent' = sent + 1
  /\ stored' = stored + 1
  /\ UNCHANGED <<txnStatus, txPc, commits, outcome>>

\* Mutant: a message that fails is left out.
SendFailsUnseen ==
  /\ txPc = "send"
  /\ sent < TxSize
  /\ sent' = sent + 1
  /\ stored' \in {stored, stored + 1}
  /\ UNCHANGED <<txnStatus, txPc, commits, outcome>>

\* The message, or only its acknowledgement, is lost.
SendFails ==
  /\ txPc = "send"
  /\ sent < TxSize
  /\ stored' \in {stored, stored + 1}
  /\ txnStatus' \in {"open", "fatal"}
  /\ txPc' = "abort"
  /\ UNCHANGED <<sent, commits, outcome>>

SendDone ==
  /\ txPc = "send"
  /\ sent = TxSize
  /\ txPc' = "commit"
  /\ UNCHANGED <<txnStatus, sent, commits, brokerTx>>

\* Committing again what the broker has committed succeeds.
CommitTxn ==
  /\ txPc = "commit"
  /\ txnStatus = "open"
  /\ outcome' = "committed"
  /\ txnStatus' = "ready"
  /\ txPc' = "ok"
  /\ UNCHANGED <<sent, commits, stored>>

\* The request, or only its answer, is lost.
CommitTxnFails ==
  /\ txPc = "commit"
  /\ outcome' \in {outcome, "committed"}
  /\ txnStatus' \in {"open", "fatal"}
  /\ commits' = commits + 1
  /\ txPc' = ErrorOr(IF commits' = CommitRetries THEN "abort" ELSE "commit", txnStatus')
  /\ UNCHANGED <<sent, stored>>

\* Mutant: after the last attempt ProduceTx returns without aborting.
GiveUp ==
  /\ txPc = "abort"
  /\ txPc' = "error"
  /\ UNCHANGED <<txnStatus, sent, commits, brokerTx>>

AbortTxn ==
  /\ txPc = "abort"
  /\ txnStatus = "open" /\ outcome = "open"
  /\ outcome' = "aborted"
  /\ txnStatus' = "ready"
  /\ txPc' = "error"
  /\ UNCHANGED <<sent, commits, stored>>

\* Mutant: the error of an abort is fatal only if isFatal says so.
AbortTxnFailsSilently ==
  /\ txPc = "abort"
  /\ UNCHANGED outcome \/ (outcome = "open" /\ outcome' = "aborted")
  /\ txnStatus' \in IF isFatal THEN {"fatal"} ELSE {"stuck", "fatal"}
  /\ txPc' = ErrorOr("error", txnStatus')
  /\ UNCHANGED <<sent, commits, stored>>

\* The transaction is committed already, or the broker is not heard from.
AbortTxnFails ==
  /\ txPc = "abort"
  /\ UNCHANGED outcome \/ (outcome = "open" /\ outcome' = "aborted")
  /\ txnStatus' \in IF isFatal THEN {"fatal"} ELSE {"stuck", "fatal"}
  /\ txPc' = "errFatal"
  /\ UNCHANGED <<sent, commits, stored>>

TxStep ==
  \/ BeginTxn \/ BeginTxnFails \/ Send \/ SendFails \/ SendDone
  \/ CommitTxn \/ CommitTxnFails \/ AbortTxn \/ AbortTxnFails

-----------------------------------------------------------------------------
(* Recreate, which the caller calls after ErrFatalProducer only.           *)

Recreate ==
  /\ txPc = "errFatal"
  /\ txnStatus' = "ready"
  /\ txPc' = "idle"
  /\ UNCHANGED <<sent, commits, brokerTx>>

\* The closed producer is kept.
RecreateFails ==
  /\ txPc = "errFatal"
  /\ txPc' = "idle"
  /\ UNCHANGED <<txnStatus, sent, commits, brokerTx>>

TxNext == TxBegin \/ TxRefused \/ TxStep \/ Recreate \/ RecreateFails

TxSpec == TxInit /\ [][TxNext]_txVars

-----------------------------------------------------------------------------
(* Correctness.                                                            *)

TxTypeOK ==
  /\ txnStatus \in {"ready", "open", "stuck", "fatal"}
  /\ txPc \in {"idle", "begin", "send", "commit", "abort", "ok", "error", "errFatal"}
  /\ sent \in 0..TxSize
  /\ commits \in 0..CommitRetries
  /\ stored \in 0..TxSize
  /\ outcome \in {"none", "open", "committed", "aborted"}

\* A transaction is visible with all its messages or not at all, whichever
\* message, commit or abort fails; and ProduceTx returns nil only for one
\* that is committed.
AllOrNothing ==
  /\ outcome = "committed" => stored = TxSize
  /\ txPc = "ok" => outcome = "committed"

\* An error that is not ErrFatalProducer means that the transaction is not
\* and will not be visible: the caller may try again without doubling it.
ErrorMeansInvisible == txPc = "error" => outcome \in {"none", "aborted"}

\* The inductive invariant: what ProduceTx knows about the broker.
TxInv ==
  /\ TxTypeOK
  /\ AllOrNothing
  /\ ErrorMeansInvisible
  /\ txPc \in {"begin", "send"} => commits = 0
  /\ txPc = "begin" => sent = 0 /\ stored = 0 /\ outcome = "none"
  /\ txPc = "send" => txnStatus = "open" /\ outcome = "open" /\ stored = sent
  /\ txPc = "commit" =>
       /\ txnStatus = "open" /\ outcome \in {"open", "committed"}
       /\ sent = TxSize /\ stored = TxSize
       /\ commits < CommitRetries
  /\ txPc = "abort" => txnStatus \in {"open", "fatal"} /\ outcome \in {"open", "committed"}

=============================================================================
