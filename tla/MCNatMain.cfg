CONSTANTS
  Endpoints = {a, b}
  EntryIds = {e1, e2}
  NoEntry = NoEntry
  MIN_PORT = 0
  MAX_PORT = 1
  NAT_TIMEOUT = 1
  HashEntries = 2
  MaxAllocs = 2
  Mbufs = {m1, m2, m3}
  BURST_SIZE = 2
SPECIFICATION SpecMain
INVARIANT MbufsAccounted
PROPERTIES DueHandled SignalStops
CHECK_DEADLOCK FALSE
