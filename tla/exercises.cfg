SPECIFICATION FairSpec
CONSTANTS
  THREADS = 3
  RUNS = 3
  BUFFER_SIZE = 2
  Unit = {1, 2}
  Text = {0, 1}
  Zero = 0
INVARIANTS TypeOK CounterBounds OneLeader
PROPERTIES ImplementsChannel Terminates
