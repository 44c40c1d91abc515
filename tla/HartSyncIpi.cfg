\* The programs of harts 0 and 1 send interrupts while others start.
CONSTANTS
    N = 4
    BootHart = 0
    Senders = {0, 1}
    WeakStores = TRUE
SPECIFICATION Spec
PROPERTIES BarrierSafeSpec
