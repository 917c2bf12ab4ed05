\* Three transactions and two blocks; three blocks of each chain and two
\* crashes for the store.  The bounded chains end.
CONSTANTS
  t1 = t1
  t2 = t2
  t3 = t3
  c1 = c1
  c2 = c2
  c3 = c3
  key = key
  token = token
  Tx = {t1, t2, t3}
  Ins <- MCIns
  Outs <- MCOuts
  TokenIns <- MCTokenIns
  Inits <- MCInits
  Stakes <- MCStakes
  Sane = {t1, t2, t3}
  Proved = {t1, t2, t3}
  MaxTx = 2
  GenesisCoins = {c1, c2}
  Validators = {}
  PersistMempool = TRUE
  IsLoadFromMempool = TRUE
  MaxHeight = 2
  Budgets <- MCBudgets
CHECK_DEADLOCK FALSE
SPECIFICATION MCSpec
INVARIANTS
  ApprovedSpendsOnce
  DiskMatchesBestState
  ReservationsAreExact
PROPERTIES
  CertifiedIsInserted
  StoreRecovers
