SPECIFICATION Spec
CONSTANTS
    Run <- MCRun
    Deletion <- MCDeletion
INVARIANTS
    TypeOK
    OneRunPerRecord
    LockHasHolder
    DeletionExcludesRuns
    DeletedNotListed
PROPERTIES
    DeletionEnds
