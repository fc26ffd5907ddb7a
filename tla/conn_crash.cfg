CONSTANTS
    Msgs = {m1}
    Nop = Nop
    NoMsg = NoMsg
    QueueSize = 2
    MaxConn = 2
    MaxNop = 0
SPECIFICATION Spec
INVARIANT StaysUp
