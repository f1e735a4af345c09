SPECIFICATION LibSpec
CONSTANTS
    PageSpan = 2
    PageTableSpan = 8
    IOPageTableSpan = 4
    EPTPTSpan = 4
    EPTPDSpan = 16
    EPTPDPTSpan = 1048576
    CONFIG_IRQ_IOAPIC = TRUE
    PPTR_USER_TOP = 315
    SEL_TLS = 312
    SEL_IPCBUF = 333
    Counts = {0, 1, 2, 3, 11, 13, 14}
    ErrorLengths = {0, 1, 5}
    MaxCalls = 2
    Lengths = {1, 4}
    Pointers = {{1}, {0, 1}}
    MaxMessages = 3
    MaxSets = 2
INVARIANTS
    ArgumentsArrive
    AnswersArrive
    FaultReported
    FieldsKept
PROPERTIES
    MessageKept
    MessageArrives
CHECK_DEADLOCK FALSE
