\* Three calls of up to three attempts, a window of two requests, a budget that
\* can end in the middle of a call.
SPECIFICATION FairSpec
CONSTANTS
  MaxRequests = 5
  MaxRetries = 2
  Limit = 2
  Minute = 3
  MaxBackoff = 2
  MaxCalls = 3
INVARIANTS
  TypeOK
  WindowLimit
  WaitsOnlyWhenFull
  ExhaustedQuotaIsFinal
PROPERTIES
  ImplementsBudgetedCalls
  CallsEnd
