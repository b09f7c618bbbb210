CONSTANTS
    Alive = {a1, a2}
    RefreshInterval = 2
    MetadataInterval = 1
SPECIFICATION Spec
INVARIANTS TypeOK RecoveryBound LostIsCounted
PROPERTY Settles
