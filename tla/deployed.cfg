\* The deployment as shipped: two replicas that may not write leases, nothing goes wrong.
SPECIFICATION FairManagerSpec
CONSTANTS
    Replicas = {r1, r2}
    Pods = {p1}
    FailureTypes = {oom}
    Healthy = Healthy
    Fingerprints = {x, y}
    Absent = Absent
    Names <- MCNames
    Name <- MCName
    MinBetween = 1
    TicksPerSecond = 1
    MaxAttempts = 2
    Faults = {}
    MaxFaults = 0
    MaxPodWrites = 1
    LeaderElect = TRUE
    LeasesAllowed = FALSE
    LeaseDuration = 2
    RenewDeadline = 1
PROPERTIES EveryReplicaReconciles
