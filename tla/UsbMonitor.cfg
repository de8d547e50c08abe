CONSTANTS
    Packet = 2
    DescriptorSize = 2
    SendSize = 5
    RecvSize = 3
    MarkSize = 2
    Workloads <- RequestsAndText
SPECIFICATION FairSpec
INVARIANTS AnswersMatch ConsoleInOrder
PROPERTIES EveryRequestEnds
CHECK_DEADLOCK FALSE
