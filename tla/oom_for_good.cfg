\* An app container that is OOM-killed and not restarted.
SPECIFICATION Spec
CONSTANTS
    None = None
    InitNames <- MCInitNames
    AppNames <- MCAppNames
    Reasons = {"ErrImagePull", "CreateContainerConfigError"}
    Messages = {m}
    Policies = {"Always", "Never"}
    MaxRestarts = 1
INVARIANTS OOMKilledForGood
CHECK_DEADLOCK FALSE
