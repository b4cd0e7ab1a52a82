SPECIFICATION Spec
CONSTANTS
  r1 = r1
  r2 = r2
  r3 = r3
  A = A
  B = B
  C = C
  k1 = k1
  k2 = k2
  alice = alice
  bob = bob
  EUR = EUR
  USD = USD
  JPY = JPY
  anon = anon
  Nobody = Nobody
  NoRow = NoRow
  Requests = {r1, r2}
  Numbers = {A, B}
  Keys = {k1, k2}
  Callers = {alice, bob}
  Anonymized = anon
  Currencies <- MCCurrencies
  MaxTransfer <- MCMaxTransfer
  Rates <- MCRates
  Amounts = {2, 4, 10}
  OpeningBalances = {0, 4}
  CurrencyCodes = {EUR, USD, JPY}
  Quantum = 2
  RateScale = 2
  MaxRetries = 3
  MaxPicks = 2
  Usd = USD
  FeedRates <- MCFeedRates
  ActivePairs <- MCActivePairs
  SendingFeePct = 1
  ReceivingFeePct = 1
  DeviationScale = 100
  DeviationThreshold = 30
  LimitPerTxUsd = 10
  LimitPerDayUsd = 11
  AmlThresholdUsd = 8
  MaxSnapshots = 0
  Capacity = 2
  OperationTypeWidth = 40
  InitialAccounts <- ClosingAccounts
  Workload <- ClosingWorkload
INVARIANTS
  ClosedAccountsAreEmpty
