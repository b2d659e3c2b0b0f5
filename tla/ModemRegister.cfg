CONSTANTS
  Networks = {n1, n2, n3}
  ConfigNetwork = n1
  Signals = {10, 20, 99}
  MAX_OPERATORS = 2
  MaxFaults = 2
SPECIFICATION Spec
INVARIANTS TypeOK ZeroMeansRegistered StrongestFirst
PROPERTY Recovers
