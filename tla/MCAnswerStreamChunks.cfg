\* An agent that sends compact text chunks.
CONSTANTS
    Styles = {TRUE}
    Limit = 2
    MaxSaid = 6
    MaxFailures = 1
SPECIFICATION Spec
INVARIANT
    ChunksInOrder
CHECK_DEADLOCK FALSE
