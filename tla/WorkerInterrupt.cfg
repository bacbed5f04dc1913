SPECIFICATION Spec
CONSTANTS
    Masters = 2
    Lanes = 3
    MaxConcurrency = 2
INVARIANTS
    FailedMeansReaped
