SPECIFICATION Spec
CONSTANTS
    Ids <- MCIds
    Values <- MCValues
    MaxBody = 2
    MaxSent = 2
INVARIANTS TypeOK WholeHandled
PROPERTIES NothingInvented
CHECK_DEADLOCK FALSE
