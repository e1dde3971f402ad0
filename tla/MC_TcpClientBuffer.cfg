\* Buffers of 2 bytes growing to 4 and 8; an emptied buffer of 4 drains.
CONSTANTS
    Stream <- MCStream
    DefaultSize = 2
    MaxSize = 4
    ReadSizes = {1, 3}
SPECIFICATION Spec
INVARIANTS TypeOK BufferMirrorsStream ReturnsNextFrame
PROPERTY ImplementsBufferedStream
