CONSTANTS
    deleteFinalizerName = deleteFinalizerName
    deletePrevFinalizerName = deletePrevFinalizerName
    MaxReconciles <- MCMaxReconciles
    MaxUserEdits <- MCMaxUserEdits
    MaxApiFaults <- MCMaxApiFaults
SPECIFICATION Spec
CHECK_DEADLOCK FALSE
INVARIANT NoDuplicateFinalizers
PROPERTY StatusPersistedDespiteConflicts
PROPERTY ImplementsDeletionGate
