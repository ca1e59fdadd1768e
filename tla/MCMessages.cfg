\* Two messages of every kind, their properties up to two frames long, and data
\* sources that give nothing or exactly a full buffer.
SPECIFICATION MCSpec
CONSTANTS
    FrameSize = 2
    MinRoom = 1
    BufferSize = 2
    NumMessages = 2
    MaxProperties = 1
    MaxWrites = 1
    SourceSizes = {0, 2}
INVARIANTS
    
    OnlyEmptyFramesFail
    BeginsOnce
    PropertiesFound

    
\* All messages are delivered in the end.
CHECK_DEADLOCK FALSE
