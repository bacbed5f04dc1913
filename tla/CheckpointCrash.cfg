SPECIFICATION Spec
CONSTANTS
    s1 = s1
    s2 = s2
    Savers = {s1, s2}
    MaxId = 3
    MaxCrashes = 2
SYMMETRY Symmetry
INVARIANTS
    PathIsComplete
    SavedSurvives
    IdsAreFresh
    ReturnedLeavesNoTemp
PROPERTIES
    SavesAreAtomic
