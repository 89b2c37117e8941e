CONSTANTS
    b1 = b1
    b2 = b2
    Builders = {b1, b2}
    QueueSize = 2
    Retries = 1
    MaxReports = 4
    MaxTime = 4
    Pauses = {1, 2}
SPECIFICATION FairSpec
INVARIANT Accounted
PROPERTIES PauseHonoured ReportSettled SenderStops
CHECK_DEADLOCK FALSE
