\* One replica, every kind of trouble, a pod that changes its failure class.
SPECIFICATION Spec
CONSTANTS
    Replicas = {r1}
    Pods = {p1}
    FailureTypes = {oom, crash}
    Healthy = Healthy
    Fingerprints = {x, y}
    Absent = Absent
    Names <- MCNames
    Name <- MCName
    MinBetween = 1
    TicksPerSecond = 1
    MaxAttempts = 2
    Faults = {"lag", "read", "write", "gather", "llm", "crash", "delete", "replace"}
    MaxFaults = 2
    MaxPodWrites = 2
INVARIANTS TypeOK AboutItsTarget 
PROPERTIES ImplementsLifecycle
SYMMETRY DataSymmetry
