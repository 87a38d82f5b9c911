SPECIFICATION Spec
CONSTANTS
  NULL = NULL
  w1 = w1
  w2 = w2
  w3 = w3
  w4 = w4
  c1 = c1
  Transactions <- MCTransactions
  Workloads <- MCWorkloads
  MentionId <- MCMentionId
  Clients <- MCClients
  PageSize = 2
  MaxClock = 3
CHECK_DEADLOCK FALSE
INVARIANTS
  HistoryIsInOrder
  PagesMissNothing
