CONSTANTS
    Frames <- MCFrames Boundary = 4 Wrap = 1 Base = 2 Top = 3 Extended = {0, 1} Half = 2 MaxBreak = 4
    BLOCKLOG = 3 LIST = 2 INFO = 2 HEAPSIZE = 4 FINAL_FREE_BLOCKS = 3 CoreLimit = 7 Sizes = {4, 8, 24} MaxLive = 3
    Users = {"t", "u"} Slots = 3 MaxRequests = 5 MaxFaults = 1 Wanted = {"vbios", "vpit"}
    Inums = {1, 2, 3, 4} Titles = {"a", "b"} MaxNesting = 2 MaxCommands = 2 MaxFailures = 1
    Callers = {"t", "u"} Structs = {"d1", "d2", "d3"} Partitions = {"hda1"} Ramdisks = {"rd0"} Floppies = {"fd0"}
    MaxMounts = 3 MaxErrors = 1
    Printers = {"t", "u"} Numbers = {1, 2} Stamps = {"n1", "n2", "n3", "n4"} MaxJobs = 3 MaxLosses = 1
    Askers = {"t", "u"} Drives = {0, 1} SectorsPerTrack = 2 HeadsPerCylinder = 2 FloppyBlocks = 8
    FloppyAsks <- MCFloppyAsks FloppyRetries = 1 MaxAsked = 2 MaxDiskFaults = 1
SPECIFICATION Spec
INVARIANTS MemoryOwned ModulesCounted NamesResolve DevicesCounted RequestsServed
CHECK_DEADLOCK FALSE
