CONSTANTS
    Sessions = {s1}
    Clients = {c1}
    UploadSlots = 1
    MaxDeadlines = 4
    MaxRequests = 3
    MaxFaults = 1
SPECIFICATION FairSpec
CHECK_DEADLOCK FALSE
PROPERTIES LapsedIsCleaned
