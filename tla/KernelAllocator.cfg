CONSTANTS
    Firmware <- MCFirmware
    NotEnoughFrame = NotEnoughFrame
    FrameSize = 4
    BlockSizes <- MCBlockSizes
    Layouts <- MCLayouts
    MaxLive = 3
    MappedEnd = 24
    Null = Null
    Data = Data
SPECIFICATION SpecHeap
INVARIANTS HeapSound FirstFitExact
