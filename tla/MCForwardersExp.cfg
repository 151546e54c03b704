SPECIFICATION SpecAll
CONSTANTS
  n_backends = 3
  BURST_SIZE = 2
  LittleEndian = TRUE
  BackendIP <- BackendsOfTable
  MaxRx = 5
  RING_SIZE = 4
  Mix <- Classified
  MaxBursts = 2
  Ports <- PortList
  portmask = {0, 2}
  Traffic <- AclTraffic
  Frames <- AclFrames
  Keys <- AclKeys
  Incoming <- VxlanTraffic
  Headroom = 128
  MaxPackets = 3
INVARIANT ExpMatchesSsdp
CHECK_DEADLOCK FALSE
