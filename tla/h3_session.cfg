SPECIFICATION FairSpec
CONSTANTS
    ReportH3Stats = TRUE
    BodySize = 3
    MaxReports = 1
    MaxData = 1
INVARIANTS AuxiliaryIsolated ReportsWhole
PROPERTIES TerminationSeen ReportsGoOn
CHECK_DEADLOCK FALSE
