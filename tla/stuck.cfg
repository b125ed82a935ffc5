\* One replica, one failed update, a pod that recovers.
SPECIFICATION FairSpec
CONSTANTS
    Replicas = {r1}
    Pods = {p1}
    FailureTypes = {oom}
    Healthy = Healthy
    Fingerprints = {x, y}
    Absent = Absent
    Names <- MCNames
    Name <- MCName
    MinBetween = 1
    TicksPerSecond = 1
    MaxAttempts = 2
    Faults = {"write"}
    MaxFaults = 1
    MaxPodWrites = 2
PROPERTIES AnalyzingEnds
