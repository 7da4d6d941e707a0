SPECIFICATION Spec
CONSTANTS
    t1 = t1
    t2 = t2
    Tasks = {t1, t2}
    Programs <- Mixed
    PathOps <- AllPathOps
    Paths <- TwoPaths
    Dirs <- WideOnly
    Metas <- SomeMetas
    Content <- Data3
    Writes <- AnyWrite
    Raws <- RawPackets
    Handles <- TwoHandles
    ChunkSize = 2
    MaxPacket = 66
    U32 = 268435456
    U64 = 1073741824
    Cuts = {11}
    Kinds = {"Unsupported", "ChannelIo"}
    MaxErrors = 1
CHECK_DEADLOCK FALSE
INVARIANTS AnswersAreTrue TransfersAreWhole NothingIsStranded
