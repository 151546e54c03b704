\* The first ring is just large enough, the second one too small, so that the
\* parser has to drop.  Two tabs compete for a backlog of one.
SPECIFICATION SpecAll
CONSTANTS
  RX_RING_SIZE = 8
  TX_RING_SIZE = 4
  BURST_SIZE = 3
  Limit = 5
  Tabs = {t1, t2}
  MaxCommands = 2
  Backlog = 1
INVARIANTS NoneLost InOrder TotalsExplained OneAttempt OwnAnswers
PROPERTIES QuitStopsAll GoesOn
CHECK_DEADLOCK FALSE
