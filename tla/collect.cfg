\* One init and one app container.
SPECIFICATION CollectSpec
CONSTANTS
    None = None
    InitNames <- MCInitNames
    AppNames <- MCAppNames
    Reasons = {"ErrImagePull"}
    Messages = {m}
    Policies = {"Always", "Never"}
    MaxRestarts = 2
    Events <- MCEvents
    MaxEvents = 2
    TailLines = 2
    MaxLogRunes = 2
    MaxLines = 3
    Widths = {1, 2}
    Unavailable = Unavailable
    MaxFailures = 1
INVARIANTS CollectTypeOK LogsCoverTheFailure EndShownIfItFits RecentEvents
PROPERTIES LogsOfTheCrash
CHECK_DEADLOCK FALSE
