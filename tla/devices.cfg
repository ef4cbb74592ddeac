SPECIFICATION DevicesSpec
CONSTANTS
    SectorCount = 2
    SlotCount = 2
    BlkValues = {x, y}
    IndexModulus = 4
    Boards <- MCBoards
    QueueSize = 8
    MaxTimeouts = 1
    CardSectors = 3
    CardSlots = 2
    CardValues = {x, y}
    BlockBytes = 2
    Addresses = {1, 2}
    MaxCardFaults = 2
    BufferCount = 2
    RingModulus = 4
    DeviceEvents <- MCDeviceEvents
    MaxEmitted = 4
    Usages = {"f4", "caps"}
    Topologies <- MCTopologies
    ReportKeys = 1
    MaxPresses = 3
    UsbFaults = {"controller", "setup", "status", "descriptor", "port", "enable",
                 "poll", "ack"}
SYMMETRY Symmetry
INVARIANTS
    BlkTrue
    SdTrue
    KeyboardTrue
    UsbTrue
CHECK_DEADLOCK FALSE
