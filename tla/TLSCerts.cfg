SPECIFICATION FairSpec
CONSTANTS
  Nodes = {1, 2, 3}
  Sizes = {1, 3}
  SecretMaxSize = 2
  MaxEdits = 1
  MaxRenewals = 1
  MaxLag = 1
  MaxFaults = 1
INVARIANTS TypeOK PackingSound
PROPERTIES MountsComplete CertsSettle
