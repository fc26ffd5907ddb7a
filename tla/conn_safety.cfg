CONSTANTS
    Msgs = {m1, m2}
    Nop = Nop
    NoMsg = NoMsg
    QueueSize = 1
    MaxConn = 3
    MaxNop = 0
SPECIFICATION Spec
SYMMETRY CallSymmetry
INVARIANTS TypeOK Fifo ReplyMatches HeldOnce ExecsBounded
PROPERTY LostOnlyWhileStarting
