SPECIFICATION Spec
CONSTANTS
  Requests <- AllRequests
  Nothing = Nothing
  MaxHeaders = 3
  MaxQuery = 2
  MaxValue = 7
INVARIANTS ExtrasOwned HeadersComplete LastCookieWins QueryDecoded
