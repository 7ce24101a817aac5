SPECIFICATION FairSpec
CONSTANTS
    maxProcessCount = 2
    retryLimit = 2
    Sizes = {5, 6}
    Overhead = 2
    MinPdu = 2
    PrbBytes = 4
    MaxPrb = 2
    SnRange = 8
    isoutOfOrderDelivery = FALSE
    Word = 1024
    First = 6
    MaxUnderWay = 2
    MaxSdus = 2
    MaxHandovers = 1
CHECK_DEADLOCK FALSE
INVARIANTS
    TypeOK
    EverySduAccounted
    OneSduPerSn
    BufferStatusIsPayload
    TimerHasPacket
    CountsFollow
PROPERTIES
    ImplementsLossyChannel
    TbKeptUntilSent
    EverySduSettles
