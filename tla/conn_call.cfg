CONSTANTS
    Msgs = {m1}
    Nop = Nop
    NoMsg = NoMsg
    QueueSize = 5
    MaxConn = 3
    MaxNop = 1
SPECIFICATION FairSpec
PROPERTIES AtLeastOnceCall  CallsEnd
