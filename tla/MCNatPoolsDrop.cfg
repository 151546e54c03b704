CONSTANTS
  Sources = {h1, h2, h3}
  NoAddr = NoAddr
  Destinations = {d1}
  Elsewhere = Elsewhere
  pool_size = 2
  IDLE_TIMEOUT = 2
  TABLE_TIMEOUT = 3
  EXPIRY_INTERVAL = 1
  BURST_SIZE = 2
  NMbufs = 3
  NotIPv4 = NotIPv4
  LazyBurst = 3
  RESET = 3
  Frames <- EarlyFrames
  Lines <- EarlyLines
  MAX_IPS = 3
  MAX_NAT_ENTRIES = 2
  PRIVATE_IP = "priv"
  PUBLIC_IP = "pub"
SPECIFICATION SpecAll
PROPERTY UnmappedInboundDropped
