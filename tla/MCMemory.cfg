SPECIFICATION MemorySpec
CONSTANTS
    Byte = {x, y}
    Zero = x
    kCheapPrepend = 1
    kInitialSize = 2
    ExtraSize = 3
    MaxPut = 3
    MaxReadable = 3
CHECK_DEADLOCK FALSE
INVARIANTS
    SlotsAccounted
    BlocksAccounted
    ChainIsSound
    DeletedByTheLast
    
    WorkersAccounted
PROPERTIES
    ImplementsByteQueue
