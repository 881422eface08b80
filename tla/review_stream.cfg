CONSTANTS
    Reports <- SomeReports
    MaxReports = 1
    MaxWire = 1
    MaxFaults = 1
SPECIFICATION FairSpec
CHECK_DEADLOCK FALSE
INVARIANTS PollingIsAlive DoneShowsAll
PROPERTIES ProgressNeverFalls ScreenNeverFalls EndIsLearnt
