SPECIFICATION FairLogSpec
CONSTANTS
    OpenBound = 2
    FrameBound = 3
    TextBound = 2
    WidgetBound = 2
INVARIANTS
    LogTypeOK
    FramesAgree
PROPERTIES
    BookKept
    LoggerEnds
CHECK_DEADLOCK FALSE
