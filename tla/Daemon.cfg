SPECIFICATION Spec
CONSTANTS
    MaxStarts = 3
INVARIANTS
    TypeOK
    DatabaseWhileUsed
    AllOrNobody
    RespawnedComesLater
PROPERTIES
    StopEnds
