\* The hall plus one instance with arbitrary callers, each started at most
\* twice; liveness is checked, so no symmetry.
CONSTANTS
    hall = hall
    sv2 = sv2
    Svcs <- MCSvcs
    Hall = hall
    MaxCalls = 2

SPECIFICATION AppSpec

INVARIANT TypeOK

PROPERTY StopServiceEffective StopTerminates ShutdownCompletes HallEndsAfterFrameworkStop
