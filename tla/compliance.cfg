CONSTANTS
  v = v  w = w  nobody = nobody
  Requests = {1, 2}  NoRequest = 0
  Workers = {v, w}
  Nobody = nobody
  Practice <- MCPractice
  MaxAttempts = 2  MaxInstalls = 2  MaxFaults = 1
SPECIFICATION FairSpec
INVARIANTS PInv CompletedIsServed OneErasurePerDelivery ErasureIsProved AcceptedIsKept DeadLetterHadAllAttempts ClosedShopIsPursuedOrGivenUp
CHECK_DEADLOCK FALSE
PROPERTIES EverySettled
