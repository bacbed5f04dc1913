SPECIFICATION Spec
CONSTANTS
  NoReceipt = NoReceipt
  NoBelief = NoBelief
  NoCall = NoCall
  Genesis = Genesis
  LearnCalls = {l1, l2}
  ObserveCalls = {}
  Versions = {v0, v1}
  InitVersion = v0
  Policies = {p0}
  InitPolicy = p0
  Statuses = {"applied", "rolled_back"}
  OwnsModel = TRUE
  MaxTick = 0
SYMMETRY Symmetry
INVARIANT SnapshotCoherent
