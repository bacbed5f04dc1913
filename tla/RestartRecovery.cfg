SPECIFICATION Spec
CONSTANTS
    NoReceipt = NoReceipt
    NoBundle = NoBundle
    Capacity = 2
    MaxId = 4
    MaxTorn = 1
    MaxLives = 3
INVARIANTS
    LinksAreCanonical
    NothingIsRefused
    ReplayIsFaithful
PROPERTIES
    RestoredIsSaved
