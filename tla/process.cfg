SPECIFICATION Spec
CONSTANTS
    Clients = {c1, c2}
    Jobs = {j1, j2}
    LastVersion = 2
INVARIANTS
    TypeOK
    SchemaIsWhole
    BuiltFromWhatExists
    GracefulExit
    CauseIsKept
    Inductive
PROPERTIES
    ShutdownEnds
