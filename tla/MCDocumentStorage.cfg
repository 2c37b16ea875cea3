SPECIFICATION Spec
CONSTANTS
    Upload = {p1}
    Correctable = {stray}
    Worker = {w1, w2}
    MaxAttempts = 2
    MaxRevision = 3
    None = None
INVARIANTS
    TypeOK
    DocumentKeepsBytes
    NoOrphanForgotten
    AlertedWasAnnounced
PROPERTIES
    PurgeFollowsReview
    ProcessedIsFinal
    OrphanErasedOrReported
CHECK_DEADLOCK FALSE
