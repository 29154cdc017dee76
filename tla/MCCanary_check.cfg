SPECIFICATION LiveSpec
CONSTANTS
  TxSize = 2
  CommitRetries = 2
  ChannelSize = 1
  MaxLog = 4
  NoOffset = NoOffset
INVARIANTS
  TypeOK
  TxInv
  AllOrNothing
  ErrorMeansInvisible
  NothingSkipped
  StuckOnlyIfRecreateFailed
PROPERTIES
  TransactedIsCommitted
  CancelEndsProcess
  CatchesUp
