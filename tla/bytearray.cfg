SPECIFICATION SpecAll
CONSTANTS
    m_baseSize = 2
    GroupBits = 2
    Width = 5
    Items <- MCItems
    Chunks <- MCChunks
    Garbage = 7
    MaxSize = 6
    MaxOps = 5
    ByteBits = 3
    V4Bits = 6
    V6Bytes = 3
    V6Groups = 8
INVARIANTS CurIsPosition ReadsBack ViewsAgree CodecExact AddressExact
CHECK_DEADLOCK FALSE
