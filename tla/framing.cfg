CONSTANTS
    Messages <- Replies
    MaxLength = 3
    MaxChunk = 5
    MaxSent = 3
    None = None
SPECIFICATION Spec
INVARIANTS TypeOK BufferBounded
PROPERTIES ChannelOfMessages EachIsDelivered
