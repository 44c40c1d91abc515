\* Start-up with hart 1 as the boot hart: hart 1 initialises, hart 0 releases.
CONSTANTS
    N = 4
    BootHart = 1
    Senders = {}
    WeakStores = FALSE
SPECIFICATION Spec
INVARIANTS TypeOK NoEarlyStart NoTrapInStartUp QuietStart
PROPERTIES EveryHartStarts BarrierSpec
