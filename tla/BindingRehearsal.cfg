SPECIFICATION Spec
CONSTANTS
    MaxFaults = 3
INVARIANTS
    OneChild
    EvidenceIsTruthful
    PackageIsExact
    AuthorityIsEarned
PROPERTIES
    NeverDowngraded
    ClaimIsSettled
