SPECIFICATION ReporterSpec
CONSTANTS
    NoStatus = NoStatus
    Errors = {"e1"}
    KickCap = 2
    MaxFails = 0
INVARIANT ReportedIsCurrent
