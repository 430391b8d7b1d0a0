CONSTANTS
    Sleepers = {t1} Machines = {m1} Width = 8 Lengths = {1, 3} Intervals = {2, 3} Second = 4
    Loggers = {"t", "u"} Handles = {0, 1} Size = 4 MaxMessages = 3
SPECIFICATION Spec
INVARIANTS TimersListed LogInOrder
PROPERTIES NeverEarly SleepEnds LogDrained
CHECK_DEADLOCK FALSE
