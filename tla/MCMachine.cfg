CONSTANTS
    Shells = {"s1", "s2"} Vms = {"v1", "v2"} Devices = {"vide", "vpit"} Sleepy = {"vide"} MaxDevices = 2
    Makers = {"t", "u"} Guests = {"g", "h"} PortArgs <- MCPortArgs PortValues = {1, 2} MAX_LPR_OFFSET = 2 MaxMade = 2
    Changers = {"t", "u"} Images <- MCImages Tracks = 2 MaxChanges = 2 MaxBadReads = 1 Asked <- MCAsked
    Owners = {"fd", "o"} Channels = {1, 2, 5} Byte = 3 Infos <- MCInfos Stored = {"page", "clr_ff"} MaxAccesses = 3
    Sizes = {1, 4, 13} Track = 2 MaxCylinders = 3 Width = 64 Values = {90} MaxRequests = 2 MaxFaults = 1
    Keys <- MCKeys Ring = 6 BiosRoom = 1 MaxKeys = 3 MaxWrites = 2
    Ttys = {"t1", "t2", "t3"} Readers = {"t1"} PhysicalKeys = {"right_alt", "caps", "plus", "pause"}
    COOKED_BUFSIZ = 3 MaxStrokes = 3 MaxOpened = 3
    Letters = {"a", "b"} Cols = 2 Rows = 3 Digits = {2} rl_history_max = 3 MaxLength = 3 MaxTyped = 8
    TimesOfDay <- MCTimes DatesOfYear <- MCDates MaxUpdates = 2 MaxCalls = 3
    Starts <- MCStarts MaxDays = 430
SPECIFICATION Spec
INVARIANTS DevicesLive DevicesServe  ConsoleListens LineIsKept ClockIsRight
CHECK_DEADLOCK FALSE
