\* Two unary calls and two streams that are longer than their channels, over two threads.
SPECIFICATION FairServiceSpec
CONSTANTS
    Unary = {u1, u2}
    Stream = {s1, s2}
    Total <- MCTotal
    CHANNEL_CAPACITY = 1
    THREADS = 2
INVARIANTS
    ServiceTypeOK
    OneTaskPerCall
    ShutdownLosesNoCall
PROPERTIES
    UnaryAnswered
    ShutdownCompletes
    EachStreamKeepsContract
