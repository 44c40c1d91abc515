----------------------------- MODULE MCDevices ------------------------------
(***************************************************************************)
(* The devices and units of a hart that have nothing to do with each       *)
(* other, each as its module has it, in one run: a behaviour is about one  *)
(* of them, and the others stay as they are initially.                     *)
(***************************************************************************)
EXTENDS Integers

CONSTANTS
    PmpNum, Grain, PmpModes, Perms, Addresses,                     \* Pmp
    Exist, TopCounter, Base, HpmTicks,                             \* Hpm
    MaxLen,                                                        \* I2cTransfer
    Csids, Protocols, MaxData,                                     \* SpiTransfer
    WdogMaxScale, MaxCmp, ClockRate, WdogMaxCount,                 \* Watchdog
    RtcWord, RtcMaxScale, Compares, RtcMaxCount,                   \* Rtc
    Pins, Leds, PinTypes,                                          \* Gpio
    NumWays, Lims, Bss, WithDcache,                                \* Cache
    Caches, Monitors, MonitorIds, Hits, Clients, MonitorWord, MaxEvents,
                                                                   \* CacheMonitor
    Errors, Masks,                                                 \* BusError
    MapEntries, Width, RegsNum, MapRegions,                        \* Remapper
    HeapStart, HeapEnd, Rises, Falls, Brks,                        \* Heap
    TimeHarts, Self, TimeIds, TimeWord, Big, ClockWord, Timebase, ClocksPerSec,
    Million, Nano, MtimeRate, MaxCycles, TimeTicks,                \* Timekeeping
    Byte, Printed, LineEnds, MaxPrinted,                           \* Trace
    StartHarts, BootHart, Ctors, Dtors, Weak,                      \* Startup
    MemoryWord, Bases, Sizes, NoMemory,                            \* Memory
    PrivModes                                                      \* Privilege

VARIABLES unit,   \* the part that this behaviour is about
          cfg, addr, grain, pmpLast,   \* Pmp
          hpmCount, events, hpmHi, hpmLo, access, mtvec, hpmOp, ticks,
          hpmSeen, hpmAsked,   \* Hpm
          i2cOp, tip, nack, cmd, held, talks, refused, i2cLast,   \* I2cTransfer
          proto, csmode, csid, csdef, tx, rx, spiOp, late, wire, stored,   \* SpiTransfer
          unlocked, seenIp, wdogScale, result, wdogEnable, wdogIp, wdogCmp,
          wdogCount, todo, first, wdogAsked, rest, bites,   \* Watchdog
          rtcHi, rtcLo, rtcOn, rtcScale, rtcCmp, rtcOp, rtcAsked, rtcSeen,   \* Rtc
          input, output, port, mux, sel, ie, gpioIp, high, gpioOp, gpioAsked,
          gpioWants,   \* Gpio
          lim, bss, enabled, cleanEvict, started, l1, vector, mie,   \* Cache
          select, filter, pmCount, since, pmCall, happened,   \* CacheMonitor
          beuEnable, accrued, cause, platform, local, beuOp, rc, recorded,
          beuWants,   \* BusError
          key, valid, from, to, steps, loop, mapSeen, mapOn, mapAsked,   \* Remapper
          brk, mem, own,   \* Heap
          cycle, mtime, timeOp, timeSeen, clock,   \* Timekeeping
          buffer, bytes, told, printed,   \* Trace
          pc, initWalk, finiWalk, run, constructed, destructed, prefetcher,
          startMie, ready, arrived, released,   \* Startup
          table, address, found, lockRc,   \* Memory
          mode, status, mepc, privPc, copy, target, mask   \* Privilege

pmpVars == <<cfg, addr, grain, pmpLast>>
hpmVars == <<hpmCount, events, hpmHi, hpmLo, access, mtvec, hpmOp, ticks,
             hpmSeen, hpmAsked>>
i2cVars == <<i2cOp, tip, nack, cmd, held, talks, refused, i2cLast>>
spiVars == <<proto, csmode, csid, csdef, tx, rx, spiOp, late, wire, stored>>
wdogVars == <<unlocked, seenIp, wdogScale, result, wdogEnable, wdogIp, wdogCmp,
              wdogCount, todo, first, wdogAsked, rest, bites>>
rtcVars == <<rtcHi, rtcLo, rtcOn, rtcScale, rtcCmp, rtcOp, rtcAsked, rtcSeen>>
gpioVars == <<input, output, port, mux, sel, ie, gpioIp, high, gpioOp,
              gpioAsked, gpioWants>>
cacheVars == <<lim, bss, enabled, cleanEvict, started, l1, vector, mie>>
pmVars == <<select, filter, pmCount, since, pmCall, happened>>
beuVars == <<beuEnable, accrued, cause, platform, local, beuOp, rc, recorded,
             beuWants>>
mapVars == <<key, valid, from, to, steps, loop, mapSeen, mapOn, mapAsked>>
heapVars == <<brk, mem, own>>
timeVars == <<cycle, mtime, timeOp, timeSeen, clock>>
traceVars == <<buffer, bytes, told, printed>>
startVars == <<pc, initWalk, finiWalk, run, constructed, destructed, prefetcher,
               startMie, ready, arrived, released>>
memVars == <<table, address, found, lockRc>>
privVars == <<mode, status, mepc, privPc, copy, target, mask>>
vars == <<unit, pmpVars, hpmVars, i2cVars, spiVars, wdogVars, rtcVars,
          gpioVars, cacheVars, pmVars, beuVars, mapVars, heapVars, timeVars, traceVars,
          startVars, memVars, privVars>>

\* Of 32 bits: on 64 the driver writes all the regions of a register.
Pmp == INSTANCE Pmp WITH
    Num <- PmpNum, XLen <- 32, Modes <- PmpModes, last <- pmpLast

Hpm == INSTANCE Hpm WITH
    Top <- TopCounter, MaxTicks <- HpmTicks, count <- hpmCount,
    hi <- hpmHi, lo <- hpmLo, op <- hpmOp, seen <- hpmSeen, asked <- hpmAsked

I2c == INSTANCE I2cTransfer WITH op <- i2cOp, last <- i2cLast

Spi == INSTANCE SpiTransfer WITH op <- spiOp

Watchdog == INSTANCE Watchdog WITH
    MaxScale <- WdogMaxScale, MaxCount <- WdogMaxCount, scale <- wdogScale,
    enable <- wdogEnable, ip <- wdogIp, cmp <- wdogCmp, count <- wdogCount,
    asked <- wdogAsked

Rtc == INSTANCE Rtc WITH
    Word <- RtcWord, MaxScale <- RtcMaxScale, MaxCount <- RtcMaxCount,
    hi <- rtcHi, lo <- rtcLo, on <- rtcOn, scale <- rtcScale, cmp <- rtcCmp,
    op <- rtcOp, asked <- rtcAsked, seen <- rtcSeen

\* A pin is given to one of the functions that have a bit of their own.
Gpio == INSTANCE Gpio WITH
    Types <- PinTypes, Functions <- {1}, ip <- gpioIp, op <- gpioOp,
    asked <- gpioAsked, wants <- gpioWants

Cache == INSTANCE Cache

Monitor == INSTANCE CacheMonitor WITH
    Units <- Caches, Counters <- Monitors, Ids <- MonitorIds, Events <- Hits,
    Word <- MonitorWord, count <- pmCount, call <- pmCall

BusError == INSTANCE BusError WITH
    Events <- Errors, enable <- beuEnable, op <- beuOp, wants <- beuWants

Remapper == INSTANCE Remapper WITH
    Entries <- MapEntries, Regions <- MapRegions, seen <- mapSeen,
    on <- mapOn, asked <- mapAsked

\* The increments of the break, up and down.
Incs == Rises \cup {-n : n \in Falls}

Heap == INSTANCE Heap WITH Start <- HeapStart, End <- HeapEnd

Time == INSTANCE Timekeeping WITH
    Harts <- TimeHarts, Ids <- TimeIds, Word <- TimeWord, Rate <- MtimeRate,
    MaxTicks <- TimeTicks, op <- timeOp, seen <- timeSeen

Trace == INSTANCE Trace WITH
    Chars <- Printed, Ends <- LineEnds, MaxChars <- MaxPrinted,
    asked <- printed

Startup == INSTANCE Startup WITH
    Harts <- StartHarts, init <- initWalk, fini <- finiWalk, mie <- startMie

\* Memories, of them those that are empty, that end at the last address, and
\* that wrap.
Block(base, size, atomics) == [base |-> base, size |-> size, atomics |-> atomics]
Blocks == {Block(base, size, atomics) :
               base \in Bases, size \in Sizes, atomics \in BOOLEAN}

Memory == INSTANCE Memory WITH Word <- MemoryWord, None <- NoMemory

\* Programs call it with interrupts disabled.
Privilege == INSTANCE Privilege WITH
    Modes <- PrivModes, Masked <- TRUE, pc <- privPc, to <- target

ASSUME Instances ==
    /\ Pmp!PmpAssumption
    /\ Hpm!HpmAssumption
    /\ I2c!I2cAssumption
    /\ Spi!SpiAssumption
    /\ Watchdog!WatchdogAssumption
    /\ Rtc!RtcAssumption
    /\ Gpio!GpioAssumption
    /\ Cache!CacheAssumption /\ Monitor!CacheMonitorAssumption
    /\ BusError!BusErrorAssumption
    /\ Remapper!RemapperAssumption
    /\ Heap!HeapAssumption
    /\ Time!TimekeepingAssumption
    /\ Trace!TraceAssumption /\ Startup!StartupAssumption
    /\ Memory!MemoryAssumption /\ Privilege!PrivilegeAssumption
    \* Those that a single shift brings into the register.
    /\ \A c \in Compares : c < 2 * RtcWord

Init ==
    /\ unit \in {"pmp", "hpm", "i2c", "spi", "watchdog", "rtc",
                "gpio", "cache", "buserror", "remapper", "heap", "time",
                "trace", "monitor", "startup", "memory",
                "privilege"}
    /\ Pmp!Init /\ Hpm!Init /\ I2c!Init /\ Spi!Init
    /\ Watchdog!Init /\ Rtc!Init /\ Gpio!Init /\ Cache!Init
    /\ BusError!Init /\ Remapper!Init /\ Heap!Init /\ Time!Init
    /\ Trace!Init /\ Monitor!Init /\ Startup!Init
    /\ Memory!Init /\ Privilege!Init
    /\ unit # "cache" => lim = (CHOOSE n \in Lims : TRUE)
                         /\ bss = (CHOOSE n \in Bss : TRUE)
    /\ unit # "startup" => run /\ startMie = {}
    /\ unit # "memory" =>
           table = CHOOSE t \in Blocks \X Blocks : Memory!Disjoint(t[1], t[2])

\* All parts but one stay as they are.
Others(u) ==
    /\ UNCHANGED unit
    /\ u # "pmp" => UNCHANGED pmpVars
    /\ u # "hpm" => UNCHANGED hpmVars
    /\ u # "i2c" => UNCHANGED i2cVars
    /\ u # "spi" => UNCHANGED spiVars
    /\ u # "watchdog" => UNCHANGED wdogVars
    /\ u # "rtc" => UNCHANGED rtcVars
    /\ u # "gpio" => UNCHANGED gpioVars
    /\ u # "cache" => UNCHANGED cacheVars
    /\ u # "buserror" => UNCHANGED beuVars
    /\ u # "remapper" => UNCHANGED mapVars
    /\ u # "heap" => UNCHANGED heapVars
    /\ u # "time" => UNCHANGED timeVars
    /\ u # "trace" => UNCHANGED traceVars
    /\ u # "monitor" => UNCHANGED pmVars
    /\ u # "startup" => UNCHANGED startVars
    /\ u # "memory" => UNCHANGED memVars
    /\ u # "privilege" => UNCHANGED privVars

Next ==
    \/ unit = "pmp" /\ Pmp!Next /\ Others("pmp")
    \/ unit = "hpm" /\ Hpm!Next /\ Others("hpm")
    \/ unit = "i2c" /\ I2c!Next /\ Others("i2c")
    \/ unit = "spi" /\ Spi!Next /\ Others("spi")
    \/ unit = "watchdog" /\ Watchdog!Next /\ Others("watchdog")
    \/ unit = "rtc" /\ Rtc!Next /\ Others("rtc")
    \/ unit = "gpio" /\ Gpio!Next /\ Others("gpio")
    \/ unit = "cache" /\ Cache!Next /\ Others("cache")
    \/ unit = "buserror" /\ BusError!Next /\ Others("buserror")
    \/ unit = "remapper" /\ Remapper!Next /\ Others("remapper")
    \/ unit = "heap" /\ Heap!Next /\ Others("heap")
    \/ unit = "time" /\ Time!Next /\ Others("time")
    \/ unit = "trace" /\ Trace!Next /\ Others("trace")
    \/ unit = "monitor" /\ Monitor!Next /\ Others("monitor")
    \/ unit = "startup" /\ Startup!Next /\ Others("startup")
    \/ unit = "memory" /\ Memory!Next /\ Others("memory")
    \/ unit = "privilege" /\ Privilege!Next /\ Others("privilege")

Spec == Init /\ [][Next]_vars

-----------------------------------------------------------------------------
(* What the modules say of each part; see there for the code each is about. *)

TypeOK ==
    /\ Pmp!TypeOK /\ Hpm!TypeOK /\ I2c!TypeOK /\ Spi!TypeOK
    /\ Watchdog!TypeOK /\ Rtc!TypeOK /\ Gpio!TypeOK
    /\ Cache!TypeOK /\ BusError!TypeOK /\ Remapper!TypeOK
    /\ Heap!TypeOK /\ Time!TypeOK /\ Trace!TypeOK /\ Monitor!TypeOK
    /\ Startup!TypeOK /\ Memory!TypeOK /\ Privilege!TypeOK

\* A call that returns success has done what it was asked for: a PMP region
\* holds its configuration, and its address unless a locked TOR region begins
\* there (pmp.c:204 returns 0 for an address that the hart ignored); the lower
\* mode has the counters it was given; the watchdog's locked registers
\* and the RTC's scaled compare value hold what was asked; a pin has its
\* function and interrupts for what it was configured for; the lines of the
\* bus-error unit and the valid bits of the remapper are those asked for.
\* Constructors and destructors run once, in order, before and after programs,
\* and a drop of privilege arrives in the mode it names.
CallsTakeEffect ==
    /\ Pmp!SuccessMeansSet
    /\ Hpm!AccessAsAsked
    /\ Watchdog!CallsTakeEffect
    /\ Rtc!CompareIsAsked
    /\ Gpio!PinHasItsFunction /\ Gpio!InterruptsAsAsked
    /\ BusError!LinesAsAsked
    /\ Remapper!RemapsAsAsked
    /\ Startup!EachRunsOnce /\ Startup!ProgramFindsAllSetUp
    /\ Startup!DestructorsRun
    /\ Privilege!EntersInTheMode

\* A call changes nothing but what it names, though it reads and writes a
\* register that others share: no other PMP region; of the edges of other pins,
\* none that comes after the call has read them (those that it has read it
\* clears, sifive_gpio0.c:183); of the other error events, none that the call
\* has read (those that come later it loses, sifive_buserror0.c:182); and no
\* memory that the program keeps when the break moves, nor what is past the heap
\* but for the byte that is scrubbed when memory is given back after a failed
\* call (sys_sbrk.c:40).
OnlyTheNamed ==
    /\ Pmp!OnlyTheNamedRegion
    /\ Gpio!LateEdgesAreKept
    /\ BusError!OtherEventsStay
    /\ Heap!MemoryIsKept

\* Time does not jump: a running watchdog fires no earlier than was asked, also
\* while a call that changes it is half done, except that between the two writes
\* of set_rate (sifive_wdog0.c:102) it goes by the scale of 0 that is there; and
\* the time that times reports goes on by as much as the count of cycles it is
\* made from.
TimeDoesNotJump == Watchdog!NeverEarly /\ Time!TimeMarches

\* The wires of the buses: after a call the I2C bus is left, or kept, as asked
\* and no slave drives it; a SPI chip select is held just during calls and
\* every frame has the protocol of its phase.
WiresAreAsAsked ==
    /\ I2c!BusIsLeft /\ I2c!SlaveIsSilent
    /\ Spi!HeldDuringCalls /\ Spi!FramesInTheirMode

\* What a call returns is true: an I2C write or read that succeeds had every
\* byte accepted, a received SPI byte is the answer to the frame of its place,
\* a count is converted to a time without a carry lost, the trace of a
\* program has the characters that it printed, and the memory that is found for
\* an address holds it.
ResultsAreTrue ==
    /\ I2c!SuccessMeansAccepted /\ Spi!AnswersInPlace
    /\ Time!TimesAreExact /\ Time!TicksAreTheResolution
    /\ Trace!TraceIsWhole /\ Memory!FindsTheMemory

\* A counter that is read in two halves has had the value that is returned
\* during the call (HPM, cycles), or is not behind it (RTC); one that is cleared
\* in three writes counts from 0; and the counters of the caches have what was
\* selected since they were cleared.
ReadIsCurrent ==
    /\ Hpm!ReadIsCurrent /\ Hpm!ClearedCountsFromZero
    /\ Rtc!NeverAhead
    /\ Monitor!CounterIsExact
    /\ Time!CyclesAreCurrent

\* Memory is what the program thinks it is: a protected region is no smaller
\* than the hart can protect, unless its address was ignored for a locked TOR
\* region that begins there; a valid remapping is a whole one; no LIM section
\* becomes cache, nor the bss behind one that is smaller than the ways it leaves
\* (that of a larger one passes the check of sifive_ccache0.c:65); a flushed
\* line has been written; and what the program has of the heap lies in
\* it, before the break, and was scrubbed before it was handed out.
MemoryIsAsAsked ==
    /\ Pmp!RegionsAreLargeEnough
    /\ Remapper!MappingsAreWhole
    /\ Cache!UsedLimIsKept /\ Cache!LineIsFlushed
    /\ Heap!StaysInTheHeap /\ Heap!NothingRaw

=============================================================================
