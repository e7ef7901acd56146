SPECIFICATION Spec
CONSTANTS
  Threads = {t1, t2}
  Cpus = {c1, c2}
  Objs = {o1, o2}
  None = None
  HardCap = 2
  Batch = 2
  TransferCap = 1
  Configs <- MCConfigs
SYMMETRY Symmetry
INVARIANTS PlacesExact OwnerExcluded
PROPERTY CallsServed
