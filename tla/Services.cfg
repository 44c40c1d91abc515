\* One system after the other, each on the instance that MCServices gives it.
\* The crystals of 12 to 50 MHz, and rates from 3 % to 33 times the input.
CONSTANTS
    RefRates = {12000000, 16000000, 26000000, 50000000}
    RingRate = 14400000
    Rates = {3, 40, 74, 75, 125, 126, 160, 500, 1700, 3300}
    Serial = {"uart0"}
    I2c = {"i2c0"}
    Pwms = {"pwm0"}
    ClockRates = {1, 2}
    Null = "null"
    PwmRates = {6, 20, 50, 80}
    Freqs = {1, 3, 4}
    Duties = {0, 50, 100}
    MaxCount = 7
    MaxPrescale = 3
    Channels = {1}
    Depth = 2
    Frame = 3
    Watermarks = {2, 5}
    MaxPutc = 3
    MaxCame = 3
    WordSize = 4
    MaxTime = 6
    Period = 2
    SpiRates = {4, 10, 32, 33, 70}
    Bauds = {1, 2, 3, 5}
    MaxDiv = 3
    Texts <- ShortTexts
    MaxWrites = 3
    MaxMailed = 3
SPECIFICATION ServicesSpec
INVARIANTS
    ServicesTypeOK
    ListsHoldOrder
    RateIsFollowed
    ClocksAreStable
    RateIsClosest
    EachOnceInOrder
    TimerIsExact
PROPERTIES
    RateChangesAtRest
    CallsReturn
    InterruptsAreServed
CHECK_DEADLOCK FALSE
