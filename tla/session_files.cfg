CONSTANTS
    Sessions = {s1}
    Clients = {c1, c2}
    UploadSlots = 1
    MaxDeadlines = 4
    MaxRequests = 3
    MaxFaults = 2
SPECIFICATION Spec
CHECK_DEADLOCK FALSE
INVARIANTS FilesAreOwned KeysNameFiles ShownStateIsTrue UploadsAreCounted
PROPERTIES ServesClean CleanupSparesReviews
SYMMETRY Alike
