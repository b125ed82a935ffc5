\* Two replicas without leader election, failing calls and crashes.
SPECIFICATION Spec
CONSTANTS
    Replicas = {r1, r2}
    Pods = {p1}
    FailureTypes = {oom}
    Healthy = Healthy
    Fingerprints = {x, y}
    Absent = Absent
    Names <- MCNames
    Name <- MCName
    MinBetween = 1
    TicksPerSecond = 1
    MaxAttempts = 2
    Faults = {"read", "write", "gather", "llm", "crash"}
    MaxFaults = 2
    MaxPodWrites = 1
INVARIANTS NoLostWork
PROPERTIES NoLostUpdate
SYMMETRY Symmetry
