\* A rolling restart: starts beside instances that serve, stop and die.
SPECIFICATION FairSpec
CONSTANTS
    old = old
    new = new
    Instance = {old, new}
    Requests <- MCRequests
    Passes <- MCPasses
    PoolSize = 2
CHECK_DEADLOCK FALSE
INVARIANTS
    TypeOK
    OneMigration
    IngestionIsNeverVictim
    SchemaBeforeService
PROPERTIES
    StartsAndStopsEnd
    RequestsAndPassesEnd
