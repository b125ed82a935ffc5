\* Two replicas with leader election, two ticks to the second.
SPECIFICATION ManagerSpec
CONSTANTS
    Replicas = {r1, r2}
    Pods = {p1}
    FailureTypes = {oom}
    Healthy = Healthy
    Fingerprints = {x, y}
    Absent = Absent
    Names <- MCNames
    Name <- MCName
    MinBetween = 3
    TicksPerSecond = 2
    MaxAttempts = 2
    Faults = {"read", "write", "gather", "llm", "crash", "delete", "replace"}
    MaxFaults = 2
    MaxPodWrites = 2
    LeaderElect = TRUE
    LeasesAllowed = TRUE
    LeaseDuration = 2
    RenewDeadline = 1
INVARIANTS ManagerTypeOK OnlyTheHolderRuns
PROPERTIES  ImplementsLifecycle
SYMMETRY Symmetry
