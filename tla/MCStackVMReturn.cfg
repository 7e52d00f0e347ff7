\* A closure that captures two locals, or is not the last local, is returned.
CONSTANTS
    FramesMax = 4
    Leftovers <- MCLeftovers
    Sessions <- ReturnSessions
SPECIFICATION Spec
\* A session comes to an end.
CHECK_DEADLOCK FALSE
INVARIANTS
    AnswersAsWritten
