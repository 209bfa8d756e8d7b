SPECIFICATION ServicesSpec
CHECK_DEADLOCK FALSE
INVARIANTS
    PoolIsExclusive
    ConnectionsAccounted
    AnswerIsWhole
    DaemonIsConsistent
    PacketsAccounted
    RegistryServes
PROPERTIES
    ServiceIsDone
