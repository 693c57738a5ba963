\* A flush cancels a timer task that paints the end of an answer.
CONSTANTS
    MaxCard = 3
    MaxText = 2
    MaxFailures = 1
SPECIFICATION Spec
INVARIANT
    FinalTextWasShown
CHECK_DEADLOCK FALSE
