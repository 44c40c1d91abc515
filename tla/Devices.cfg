\* One part after the other, each on the instance that MCDevices gives it.
CONSTANTS
    PmpNum = 2
    Grain = 16
    PmpModes = {"off", "tor", "napot"}
    Perms = {"W"}
    Addresses = {0, 1}
    Exist = {3}
    TopCounter = 4
    Base = 2
    HpmTicks = 3
    MaxLen = 2
    Csids = {0}
    Protocols = {"single", "quad"}
    MaxData = 1
    WdogMaxScale = 2
    MaxCmp = 2
    ClockRate = 12
    WdogMaxCount = 6
    RtcWord = 4
    RtcMaxScale = 3
    Compares = {0, 1, 3, 4, 5, 6, 7}
    RtcMaxCount = 9
    Pins = {0, 1}
    Leds = {0}
    PinTypes = {"rise", "high"}
    NumWays = 4
    Lims = {0, 1, 2, 3, 4}
    Bss = {0, 1, 2}
    WithDcache = {0}
    Caches = {"ccache0", "pl2cache0"}
    Monitors = 1
    MonitorIds = {0, 1}
    Hits = {"hit"}
    Clients = {"core"}
    MonitorWord = 2
    MaxEvents = 4
    Errors = {2, 5}
    Masks = {{2}, {2, 5}}
    MapEntries = {0, 1, 2}
    Width = 2
    RegsNum = 2
    MapRegions = {"a", "b"}
    HeapStart = 2
    HeapEnd = 7
    Rises = {0, 1, 2, 3, 9}
    Falls = {1, 2}
    Brks = TRUE
    TimeHarts = {0, 1}
    Self = 1
    TimeIds = {0, 1, 2}
    TimeWord = 4
    Big = 16
    ClockWord = 8
    Timebase = 3
    ClocksPerSec = 5
    Million = 4
    Nano = 5
    MtimeRate = 3
    MaxCycles = 9
    TimeTicks = 4
    Byte = 5
    Printed = {0, 1, 4}
    LineEnds = {4}
    MaxPrinted = 7
    StartHarts = {0, 1}
    BootHart = 0
    Ctors = 2
    Dtors = 2
    Weak = TRUE
    MemoryWord = 8
    Bases = {0, 1, 3, 5}
    Sizes = {0, 2, 3, 4}
    NoMemory = NoMemory
    PrivModes = {"S", "U"}
SPECIFICATION Spec
INVARIANTS
    TypeOK
    CallsTakeEffect
    WiresAreAsAsked
    ResultsAreTrue
    ReadIsCurrent
    MemoryIsAsAsked
PROPERTIES
    OnlyTheNamed
    TimeDoesNotJump
CHECK_DEADLOCK FALSE
