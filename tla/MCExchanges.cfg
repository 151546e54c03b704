SPECIFICATION SpecAll
CONSTANTS
  Readers = {1}
  Updates = 5
  RING_SIZE = 2
  Count = 20
  Capacity <- CapacityOf
  Sends <- SendsOf
  Pending = 3
INVARIANTS NoUseAfterFree MessagesAccounted
PROPERTIES ImplementsExchange ExchangeEnds RcuEndsClean
CHECK_DEADLOCK FALSE
