SPECIFICATION Spec
CONSTANTS
    r1 = r1
    r2 = r2
    r3 = r3
    None = None
    Runs = {r1, r2, r3}
    MaxPowerLosses = 2
INVARIANTS
    OneAttempt
    MarkerStands
    ReturnedIsCompleted
    LeftoverMeansStarted
PROPERTIES
    FinalOnce
    IsOneShot
    EveryRunEnds
