\* Every session of MCSessions, with up to four frames.
CONSTANTS
    FramesMax = 4
    Leftovers <- MCLeftovers
    Sessions <- MCSessions
SPECIFICATION FairSpec
\* A session comes to an end.
CHECK_DEADLOCK FALSE
INVARIANTS
    TypeOK
    EnginesNest
    CapturesStaySound
    StackBalanced
    AnswersAsWritten
PROPERTIES
    Halts
