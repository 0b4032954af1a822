SPECIFICATION Spec
CONSTANT Setups <- Every
INVARIANTS TypeOK RepairCloses  OneResultPerCall RetriesAreClean RecordsAreTrue ContextPaired
PROPERTY UsesStore
