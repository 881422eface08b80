CONSTANTS
    Users = {1, 2, 3, 4}
    Missing = {5}
    Laws = {6}
    Deviation <- Codes
    Signalled = {4}
    Paragraphs <- Weights
    Budget = 3
    SegmentSize = 3
    Questions <- Asked
    MaxQuestions = 3
    MaxFaults = 1
SPECIFICATION AnswersSpec


PROPERTIES NothingIsSkipped
CHECK_DEADLOCK FALSE
