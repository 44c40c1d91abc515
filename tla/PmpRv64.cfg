\* A 64-bit hart, whose configuration registers hold eight regions.  Region 4
\* is in the register of region 3.
CONSTANTS
    Num = 5
    XLen = 64
    Grain = 4
    Modes = {"off", "napot"}
    Perms = {"W"}
    Addresses = {0}
SPECIFICATION Spec
PROPERTY OnlyTheNamedRegion
CHECK_DEADLOCK FALSE
