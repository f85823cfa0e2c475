\* Two connections, one message the switch sends unasked, one read that ends inside a
\* message, a socket that holds one message.
CONSTANTS
    None = None
    MaxConns = 2
    MaxUnasked = 1
    MaxCuts = 1
    SockBuf = 1
SPECIFICATION FairSpec
INVARIANTS TypeOK HeadExists ConnSet QueueFIFO NoLostWakeup AnsweredOnce
PROPERTIES EventuallyDrained LostConnsClose IsChannel
CHECK_DEADLOCK FALSE
