SPECIFICATION Spec
CONSTANTS
  NoReceipt = NoReceipt
  NoBelief = NoBelief
  NoCall = NoCall
  Genesis = Genesis
  LearnCalls = {l1}
  ObserveCalls = {o1}
  Versions = {v0, v1}
  InitVersion = v0
  Policies = {p0}
  InitPolicy = p0
  Statuses = {"applied"}
  OwnsModel = FALSE
  MaxTick = 0
INVARIANT DescendantsExtend
