\* One init and two app containers, both restart policies.
SPECIFICATION Spec
CONSTANTS
    None = None
    InitNames <- MCInitNames
    AppNames <- MCAppNames
    Reasons = {"ErrImagePull", "RunContainerError", "CreateContainerConfigError"}
    Messages = {m}
    Policies = {"Always", "Never"}
    MaxRestarts = 1
INVARIANTS TypeOK PendingNamesNoInit FailuresNoticed NoFalseAlarm FingerprintNeverRecurs
CHECK_DEADLOCK FALSE
