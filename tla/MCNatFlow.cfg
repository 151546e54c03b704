CONSTANTS
  Endpoints = {a, b, c}
  EntryIds = {e1, e2, e3, e4}
  NoEntry = NoEntry
  MIN_PORT = 1
  MAX_PORT = 3
  NAT_TIMEOUT = 2
  HashEntries = 3
  MaxAllocs = 5
SYMMETRY Perms
SPECIFICATION Spec
INVARIANTS TypeOK TablesSound RoundTrip
PROPERTIES ClashNeedsWrap OnlyIdleExpires
