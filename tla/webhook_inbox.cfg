CONSTANTS
  thing = thing  a = a  b = b
  Events = {1, 2}  NoEvent = 0
  Resources = {thing}
  Consumers = {a, b}
  ResourceOf <- MCResourceOf
  MaxAttempts = 2  DrainBatch = 1
  MaxVersion = 2  MaxFaults = 1
SPECIFICATION FairSpec
INVARIANTS CInv AcceptedIsKept OneProcessorPerDelivery CompletedIsApplied SerialWorkConverges
CHECK_DEADLOCK FALSE
PROPERTIES EverySettled
