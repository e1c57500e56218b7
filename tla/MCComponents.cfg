CONSTANTS
    Calls <- AllCalls
    Tid = {t1, t2}
    System = System
    Nobody = Nobody
    Permits = 1
    StrayWoken = {}
    NumBlocks = 4
    Capacity = 2
    Sizes = {2, 3}
    MaxFrames = 3
    Payloads <- AllPayloads
    MaxSends = 2
    RingSize = 3
    EncoderSize = 6
    DecoderSize = 2
    Layers = {s1, s2}
    Ports = {1, 2}
    MapRoom = 2
    Junk = Junk
    Sockets = {s1, s2}
    RxSize = 2
    MaxPackets = 3
    NoTask = NoTask
SPECIFICATION DevSpec
INVARIANTS
    RegTypeOK
    OthersKept
    NothingUndone
    ReadBack
    SuccessIsReal
    WakesTheWaiting
    ChainWhole
    GivenOnce
    FramesInStep
    FramesArrive
    BindingsPaired
    NewestKept
    ReaderFindsPacket
PROPERTIES
    LockDiscipline
    CallsEnd
CHECK_DEADLOCK FALSE
