SPECIFICATION ShSpec
CONSTANTS
    Names = {"a"}
    MaxIno = 2
    COUNT = 5
    MAX_ARG_NR = 1
    MaxFd = 6
    Slots = 2
    MaxNest = 2
    Lines <- MCLines
CONSTRAINT Nested
CHECK_DEADLOCK FALSE
INVARIANTS LineShown DescriptorsExact PromptTrue WashedAgrees
