CONSTANTS
  Tx <- MCTx
  User <- MCUser
  Caller <- MCCaller
  Hub <- MCHub
  Result <- MCResult
  MaxProposals = 3
  MaxLost = 2
SPECIFICATION TransactionSpec
INVARIANTS DoneIsCommitted SignedByCaller OnlyEndorsed
PROPERTIES ToldOnce AlwaysTold
CHECK_DEADLOCK FALSE
