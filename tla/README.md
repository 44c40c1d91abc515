# TLA+ models of freedom-metal

freedom-metal is the bare-metal C library of SiFive's RISC-V cores: start-up
code, interrupt controllers, timers, locks, clocks and device drivers.  It has
no scheduler.  What is hard in it is that several harts and their interrupt
handlers touch the same registers and the same words of memory, that a 64-bit
counter is reached by two 32-bit accesses while it counts, that registers are
shared by callers that each name a part of them, that calls wait for hardware
that may not answer, and that drivers keep state which another driver's call
makes stale.  These modules model that, one access to a shared register or word
at a time.

Paths below are relative to the repository; the lines of every definition are
in `PROJECT.json` under `map`, and the hazards, at their lines, under `hazards`.

## Inventory

| Component | State | Operations and interactions | What is hard | What makes it correct |
|---|---|---|---|---|
| Start-up: `gloss/crt0.S`, `src/synchronize_harts.c`, `src/init.c` | MSIP registers, the image, `mstatus.MIE`, `mie`, the flags of `metal_init` and `metal_fini` | one hart initialises and runs constructors; all meet in a barrier over MSIP; every hart runs `secondary_main`; destructors | interleaving of harts, the registers are reused for IPIs, `metal_init` called from itself | nobody starts early, nobody traps on the way, everybody starts, each constructor runs once |
| Lock: `metal/lock.h`, `src/memory.c` | one word | init (asks whether its memory has atomics), take, give | races, a handler that wants its thread's lock | exclusion, no lost update, progress |
| Clock callbacks: `metal/clock.h` | two intrusive lists per clock | register; `set_rate_hz` = pre-callbacks, change, post-callbacks | a callback registers again; a divisor of the old rate; transfers under way | lists keep everybody, devices follow the rate, it changes at rest, calls return |
| Clock sources: HFROSC, HFXOSC, LFROSC, `sifive_fe310-g000_pll.c`, `sifive_prci0.c` | dividers, lock bits, selectors | get and set rate, init | switch away, reprogram, wait for lock, switch back | core and devices never run from an unlocked PLL; the closest rate is chosen |
| CLINT and timer: `riscv_clint0.c`, `src/timer.c`, part of `riscv_cpu.c` | mtime, mtimecmp, MSIP | read and set in two words; default handler rearms; IPIs | torn words; a handler in the middle of a thread's write | reads are current, no spurious and no lost interrupt |
| PLIC: `riscv_plic0.c` | priorities, enable words, thresholds, a table of functions | init, register, enable, disable, affinity, claim, complete | harts race for a claim; read-modify-write; hart ids and contexts | one hart serves, none is lost, enabled as asked, right data |
| CPU controller: `riscv_cpu.c`, `src/interrupt.c`, `trap.S`, `vector.S`, and its children, the local and global external interrupts | a handler table per hart, mtvec, mie | init, register, enable, dispatch; parent of CLINT and PLIC | order of initialisation; direct and vectored modes | an enabled cause reaches what was registered last; an initialised hart has a trap vector |
| CLIC: `sifive_clic0.c` | a control byte per line, two vector tables | as above, with levels | fields share a byte whose layout moves | levels are kept, the accepted handler runs |
| PMP: `src/pmp.c` | configuration and address per region | init, set, get, lock | packing, granularity, TOR, locks | success means set, no other region changes |
| HPM counters: `src/hpm.c` | counters, selectors, access bits | init, events, access, clear, read | two-word reads and clears; a borrowed mtvec | reads are current, access as asked |
| PWM: `sifive_pwm0.c` | freq, duty, PWMCFG | enable, set_freq, set_duty, trigger, stop, callbacks | the prescaler is ORed in; periods change under duties | duty and frequency survive a change of rate |
| I2C, SPI: `sifive_i2c0.c`, `sifive_spi0.c` | controller registers, queues | read, write, transfer; rate | timeouts, NACK, a late frame | success means accepted, the bus is left as asked, answers are in their place |
| UART and consoles: `sifive_uart0.c`, `ucb_htif0.c`, `sifive_trace.c`, `src/tty.c` | queues, watermarks, mailbox words | putc, getc, watermarks, callbacks | full queue, wait for the last bit, nested printing | each character once and in order, calls return |
| Watchdog, RTC, remapper: `sifive_wdog0.c`, `sifive_rtc0.c`, `sifive_remapper2.c` | registers behind a key; a scaled compare | feed, configure, run; set, get; map | a key opens one write; half-written entries; carries | writes happen, no bite is early, mappings are whole |
| Bus-error unit: `sifive_buserror0.c` | events recorded, events enabled | enable, read, clear | events arrive during a clear | no other event is lost |
| Caches and prefetchers: `src/cache.c`, `sifive_ccache0.c`, `sifive_pl2cache0.c`, `sifive_l2pf*.c`, `sifive_mallard0.c` | ways, event counters, lines | init, flush, discard, monitor | memory that becomes cache; a borrowed mtvec; two-word counters | memory in use stays memory, a flush writes, counters are exact |
| GPIO, LED, button, switch | port registers, pending bits | configure, set, clear, toggle, clear_int | read-modify-write | a pin does what it was configured for, later edges are kept |
| Heap and time calls: `gloss/sys_sbrk.c`, `sys_times.c`, `sys_clock_gettime.c`, `sys_gettimeofday.c`, `src/scrub.S` | the break; counters | sbrk, brk; times | bounds, scrubbing, overflow, two-word reads | memory is in the heap, cleared and kept; times are exact |
| Privilege: `src/privilege.c` | mstatus, mepc | drop to a mode | a trap between two CSR writes | the entry point runs in the mode named |
| Test device, simuart, atomics | little or none | single stores or instructions | little | not modelled |

## How the project is built

A module stands for a component and says, beside its actions, what the component
promises.  `StartBarrier` and `Mutex` are abstract specifications; `HartSync`
and `MetalLock` are shown to implement them, and `Startup` is composed on top of
`StartBarrier`, so that it needs to know nothing of MSIP.  Three modules compose
the others for TLC, each with *units*: a behaviour picks a unit and runs the
module's own `Next` (and fairness) on the instance given there, while the
variables of the other units stay as they began.  The bounds, sizes and parts of
these systems are constants, which the `.cfg` gives for TLC and the proofs leave
open.  A property of such a run is the conjunction of what the modules say on one
subject, for example *what returns success has happened*.

* `MCServices`: `MetalClock`, `Pwm`, `SpiBaud`, `Uart` (alone and with a handler
  that prints too), `Pll`, `Prci`, `Htif` (alone and nested), `ClintTimer`,
  `SoftwareInterrupt` (with a CLINT and with a CLIC), `Plic` on one hart.  Here
  are the things that are waited for, so here is the fairness.
* `MCInterrupts`: `Dispatch` on one hart and on two, `Plic` shared by two harts
  and alone with affinity calls, `Clic`.
* `MCDevices`: `Pmp`, `Hpm`, `I2cTransfer`, `SpiTransfer`, `Watchdog`, `Rtc`,
  `Gpio`, `Cache`, `CacheMonitor`, `BusError`, `Remapper`, `Heap`,
  `Timekeeping`, `Trace`, `Startup`, `Memory`, `Privilege`.

Components that do interact are in one module: the clock with four kinds of
devices in `MetalClock`, the CPU controllers with their children in `Dispatch`,
GPIO with its LEDs in `Gpio`, mtime with the default handler and a thread in
`ClintTimer`, the barrier with the IPIs that share its registers in `HartSync`.

Operators introduced by "a form it must not take" are one mistake away from the
step below them; no specification uses them.  They show that the properties
would notice.

## Modules

### Start-up and locks

`StartBarrier` says what start-up promises: the image is initialised once, and
no hart is released before it is ready and every hart has arrived.  `HartSync`
is the code.  `pc[h]` is the place of hart h in `_start` and
`__metal_synchronize_harts`, `msip` the registers, `i` the counter of hart 0's
two loops.  The initialisation of the image is six phases; `visible` holds those
whose stores other harts can see, which with `WeakStores` lags behind `init`.
MSIP itself is sequentially consistent, as one device register is.  `Drain` is
the store buffer.  `ImageVisible`, that a released hart sees the whole image, is
checked with `WeakStores` only, where it fails.  A constructor may leave
interrupts enabled, so `DisableInterrupts` matters.  `SendIpi` and `AnswerIpi`
are `metal_cpu_software_set_ipi` and `_clear_ipi` of programs that already run.
Hart 0 releases, `BootHart` initialises: the source lets them differ.

`Startup` has the walks over constructors and destructors: a flag, set before
the walk, and the next of the list; `metal_init_run` may be replaced by the
program, and both a constructor and `main` may call `metal_init` again.
`constructed` and `destructed` are what was called, in order; `mie` shows that a
hart enters its program with its interrupts off.

`Mutex` is a holder that acquires and releases.  `MetalLock` has, on every hart,
a thread and a handler that preempts it.  Each takes the lock (`Swap`, and
`Delay` with its doubling backoff), reads and writes a shared word in two steps
and gives the lock back.  `masked` is chosen at the start: whether the threads
mask interrupts around the lock.  `Memory` is the lookup by which
`metal_lock_init` learns whether a lock lies where atomics work, with address
arithmetic that wraps.

### Clocks and what follows them

`MetalClock` has one clock, its lists as head and `_next` exactly as the C
structures are, so that cutting, losing and closing a list can happen.
`Register` and `AppendTo` are the append, whose loop may not end (`stuck`).
`active` are the devices at a transfer and the PWMs that run always, which their
pre-callback stops; `oneshot` the PWMs that run through one period, which no call
stops and which go on through a change of the rate.
Devices differ as their drivers do: UART and SPI register in init, PWM in a
`set_freq` that finds `freq = 0`, I2C in every `set_baud_rate`, its own
post-callback included.  `divisor[d]` is the rate that d's divisor was computed
for.  `again` is a history variable: someone has registered a second time.

`Pwm`, `SpiBaud` and `Uart` are one device each with its arithmetic: prescaler,
period and duties (`asked` is the frequency asked for last, `moved` says that the
rate has changed since, and `rescaled` that PWMCFG holds the OR of two scales, with
which no frequency is kept); SCKDIV and the wait for the FIFO;
the FIFO, the character on the wire bit by bit, the watermark that the
pre-callback borrows, and the wait that it computes for the last character.

`Pll` is the search through the FE310's table, for real rates, and the switch:
ring oscillator, bypass, configure, wait 100 microseconds, wait for lock,
select.  `Prci` is the constructor of the FU540's and FU740's PLLs: a list of
jobs (a PLL to set up, a switch, a device to release) which the straps shorten,
each done in stages, while PLLs lock when they like.  The core may already run
on its PLL when the constructor begins.

### Interrupts

`ClintTimer` has mtime as a number and mtimecmp as two words of `Word` values,
a thread that reads and sets, and the default handler of `riscv_cpu.c`, which
reads, adds `Period` and sets.  `Runs` is preemption.  The counter may tick
between any two accesses.

`SoftwareInterrupt` has the commands of the CLINT and of the CLIC, which keeps
the line in a register and in the pending byte.  Programs announce mail with
them: put it down, set; the handler clears, then looks.

`Plic` has the controller (gateways, pending requests, enable bits, priorities,
thresholds; external, from the way the driver uses it), the driver's table of
functions and data, one frame of `__metal_plic0_handler` per hart (`irq`), and
one driver call per actor (`call`), whose read and write of an enable word are
two steps.  `asked` is what the callers have asked for.  `MCPlic` gives the map
from harts to contexts that its run needs.

`Dispatch` has, per hart, the CPU controller's table (function, data,
sub-controller), the bus-error entry, the exception table, mtvec and mie; the
controllers are initialised and registered in any order that the program's
guards allow (`Careful`: every hart has initialised its own before `Main`
initialises the others), in direct and vector mode, with programs that bring a
trap vector of their own (`Rewrites`).  `trap` is the function an interrupt or
exception has reached, with its data.

`Clic` is the control byte as a set of bits, whose fields `NLBITS`, `NVBIT` and
the number of implemented bits cut; registration as plain or vectored handler,
level, priority, threshold, mode, and entry.  `asked` is the table that a handler
was last accepted into, `switched` are the interrupts that a call has told another
way of delivery since: a mode, a vector bit, or a level or priority that is written
over that bit.

### Devices and units

`Pmp` has configuration bytes and addresses, granularity and locks; a call is
the accesses it makes, and `last` its result.  `Hpm` reads, clears and counts in
words of `Base` values, and borrows mtvec around the access CSR.  `I2cTransfer`
and `SpiTransfer` step through commands and frames with a slave that answers,
refuses or is late.  `Watchdog` and `Remapper` make each call a list of writes
(`todo`, `steps`) with the key before each, while the watchdog counts (also
between a key and its write) and accesses are mapped; a remapper call over all
registers of valid bits is a `loop` of such lists.  `Rtc` has its counter in two
words and a compare value that is scaled.  `Gpio` and `BusError` have registers
that a call reads and writes back while pins or bus set bits.  `Cache` has the
ways that the constructor takes, in half ways, and a line that is flushed behind
a borrowed mtvec; `CacheMonitor` the event counters.  `Heap` is the break, what
every byte of the heap holds, and which of them the program has (`own`), through
calls that fail and give back; one byte past the heap shows what is not the
program's.  `Timekeeping` is the two-word read of mcycle and the arithmetic of
`times`, `gettimeofday` and `clock_gettime` over words of a size that is a
constant.  `Htif` is a mailbox of two words, with requests in stack frames that
disappear when calls return.  `Trace` packs characters into wider stimuli;
`told` is what the tool that reads them makes of them.  `Privilege` writes
mstatus and mepc one at a time, and a trap writes both.

## Runs

| Run | Shows |
|---|---|
| hart_sync | 4 harts, hart 1 boots: all of start-up's safety, that every hart starts, refinement of `StartBarrier` |
| hart_sync_ipi | 4 harts, harts 0 and 1 send IPIs, weak stores: the barrier's steps also then |
| lock | 2 harts, thread and handler each, 2 rounds: exclusion, updates, refinement of `Mutex`, progress when masked |
| services | 13 units with fairness: devices follow rates, which do not change under transfers, clocks are stable and closest, characters come once, time is exact, calls return, interrupts are served |
| interrupts | 5 units: claims, enables, data, registration, trap vectors, levels |
| devices | 17 units: success has happened, what a call does not name is left alone, what is read is current, wires and memory are as asked, each but for the cases below |
| hart_sync_weak_stores | *violated* `ImageVisible`: the stores of the image are not ordered before the release |
| hart_sync_late_ipi | *violated* `EveryHartStarts`: an IPI to a hart that still polls keeps it there |
| clock_i2c | *violated* `EveryChangeReturns`: an I2C registered twice closes the list |
| plic_contexts | *violated* `EnabledIsServed`: the hart id is taken for the context |
| pmp_rv64 | *violated* `OnlyTheNamedRegion`: the mask of region 3 reaches regions 4 to 7 |
| i2c_transfer | *violated* `TransferMeansAccepted`: the read part hides the failure of the write part |

The largest, services and devices, take two to four minutes each.

### Bounds

Bounds are the constants whose comment says *bound*; they cap how often programs
call (`Rounds`, `MaxCalls`, `MaxWrites`, `MaxSent`, `Raises`), how far
counters run (`MaxTime`, `MaxTicks`, `MaxCycles`, `MaxCount`, `MaxEvents`) and
how long transfers are (`MaxLen`, `MaxData`), and nothing else.

* Four harts let hart 0's loops have a first, a middle and a last hart beside a
  boot hart that is not hart 0.  Two harts with two contexts each are the least
  at which a lock waiter is preempted while another hart holds; two rounds make
  a context take a lock again, `MaxBackoff` 2 lets the backoff reach its top.
* A clock with a UART, an I2C and a PWM has a list with a head, a middle and a
  tail, and a driver that registers at each of its three times.
* Words of 2 or 4 values, with counters that roll the low word over at least
  once (hpm, timer, rtc, mcycle twice), so that a read may see the high word
  change.
* Two sources share an enable word, which a lost update needs; a source that is
  raised twice shows whether its gateway opened again; a third context that no
  hart traps for is the object of affinity calls.
* Two PMP regions with a granularity of 16 have a TOR neighbour; five of a
  64-bit hart reach past the fourth of a register.  Three remapper entries need
  two valid registers.
* Transfers of two bytes have a first and a last byte; FIFOs of two are full
  while a third is written; a scale of 2 or 3 bits has an overflow.
* The PLL is searched for four crystals and rates from 3 % to 3300 % of the
  input.  PWM and SPI have rates that divide, that do not, and that are beyond
  the largest divisor.
* Every request to sbrk that fits, that does not, that returns memory, of zero.

Deadlock is checked in hart_sync, hart_sync_ipi, hart_sync_late_ipi,
hart_sync_weak_stores, lock and clock_i2c.  In the others the system may really
stop: a machine has shut down, a program has made all its calls, or a
constructor has finished.

### Fairness

A hart that can run takes its next instruction, so every step of `_start` and of
a lock call is weakly fair, as is a walk over a callback list, a call's loop
over the HTIF, the PLL's and the PRCI's next write.  Hardware that the code
waits for without a timeout does its part: a transfer on the wire ends, a bit of
the UART is shifted out, a PLL locks, the host takes, serves and acknowledges a
request.  A thread need not call anything.  The interrupt of `ClintTimer` is
strongly fair: a thread that sets deadline after deadline makes it pending again
and again, and a hart looks before every instruction.  A gateway forwards and a
hart traps for a request, or a software interrupt, that stays pending.  No
fairness is assumed about which of two contexts gets a contended lock: with
unboundedly many rounds one may starve, so `EveryoneFinishes` is stated for
bounded rounds and for programs that mask interrupts.  I2C and SPI time out, and
nothing is assumed of their slaves.

## Findings

Each of the first six is a run of its own, and quotes in `PROJECT.json` what the
repository says.

* `synchronize_harts.c:61`: the barrier polls a register that IPIs reuse.
* `sifive_i2c0.c:137`: every `set_baud_rate` registers the callbacks again; an
  append of the last node links it to itself, and the next walk does not end.
  The same happens to any device that is initialised twice, such as the console
  UART that `metal_tty_init` has set up.
* `riscv_plic0.c:195`: the hart id is used as the context number in enable,
  disable and the threshold calls, though the handler translates it.
* `pmp.c:238`: a mask computed in `int` is sign-extended on a 64-bit hart.
* `sifive_i2c0.c:372`: a transfer returns 0 though its write part was refused.
* `synchronize_harts.c:53`: no fence orders the image before the release, so a
  released hart may read memory that is not initialised.

Others are seen in the modules, and are in no run, since no text of the
repository promises otherwise, or since they need no interleaving to see:

* `sifive_spi0.c:111`: CSDEF is written whole instead of one bit of it, so that a
  call for one chip select changes the idle level of the others and may select a
  slave that nobody named (`OnlyTheSelected` of `SpiTransfer`).
* `sifive_pwm0.c:274`: the callback before a change of the rate stops a PWM that
  runs always, and not a one-shot.  `RateChangesAtRest` is about the former.
* `sifive_prci0.c:212` and 259: on a board with both an HFPCLK and a CLTX PLL only
  the former is set up, and ChipLink is released on a PLL that was never started.
  Line 115 and the like write the core's PLL while the core may run on it.
  `ClocksAreStable` says nothing of ChipLink on that board, nor of the core until
  its PLL is set up.
* `pmp.c:151`: nobody looks whether the region above is TOR and locked; the hart
  then ignores the address, and the call returns 0.  The properties say nothing of
  the address, nor of the size, of such a region; its configuration is as asked.
* `sifive_wdog0.c:102`: `set_rate` clears the scale before it writes the new one,
  so that a watchdog that counts may fire in between after the timeout unscaled.
  `NeverEarly` claims no more there.  A bit of `ip` that is set between the read and
  the write of WDOGCFG is written back as it was read.
* `sifive_clic0.c:157`: the mask of a priority takes in the bit that vectors, so that
  a priority or a level changes the way of delivery in selective mode.
  `AcceptedHandlerRuns` counts such a call as one that chooses another way.
* `riscv_plic0.c:91`: enable words are changed without masking; with `IsrCalls` a
  handler's change is lost, and a source that its own handler disables stays
  closed (line 120).
* `riscv_plic0.c:235` skips context 0 in the affinity calls and reports success
  (`metal/interrupt.h:540`); `affinity_get_threshold` returns 0 whatever it reads
  (line 286); `init` enables the external line of every parent from one hart
  (line 159).
* `sifive_gpio0.c:183` and `sifive_buserror0.c:182` clear pending bits by a
  read-modify-write: edges of other pins that were pending are cleared too, and
  an error event that arrives between the two accesses is lost.  The properties are
  about edges that come after the read, and about error events that it has seen.
* `metal/gpio.h:215`: the driver puts the pin into IOF_SEL and the function into
  IOF_EN, so that a pin given to function 0 is not given to a device; the run
  uses function 1.
* `sifive_rtc0.c:60` shifts a compare value by a number that grows, so a value that
  takes two rounds is scaled by three bits, and is set with a scale of two.
* `sifive_ccache0.c:65`: the check that no bss lies in what becomes cache looks at
  the first ways of the LIM, as many as there will be cache; but it is the last
  ones that are taken.  With four ways, a LIM section of two and a bss of half a way
  behind it, the way of the bss is enabled, though `sifive_ccache0.h:32` says of
  the LIM in use that its ways are not.  `UsedLimIsKept` is what is true: the LIM
  section itself stays memory, and so does the bss when the section is smaller than
  the ways that it leaves.
* `sifive_pwm0.c:172` ORs the prescaler over the old one, and the next period is
  computed from a frequency that was rounded up, so that it drifts; if it has come
  above the rate of the clock, line 167 divides by zero.  `FrequencyIsAsAsked` says
  that the output is not slower than was asked, and claims nothing after an OR of
  two scales or a division by zero.
* `sifive_pl2cache0.c:85` and the lines like it use the registers of the hart that
  runs: its counters cannot be read from another.
* `privilege.c:45` prepares mstatus and mepc unmasked: with `Masked` FALSE the
  entry point may run in another mode than the one named.
* `hpm.c:205` and `cache.c:184` borrow mtvec: an interrupt that comes then is not
  handled.
* `trap.S:49` keeps the mode bits of mtvec, where its comment masks them, and jumps
  there.
* `sys_sbrk.c:36`: a request that does not fit moves the break to the end.  Later
  ones fail until memory is given back, which succeeds from the end of the heap and
  scrubs one byte at the old break, past the heap.  `MemoryIsKept` excludes that
  write and no other.
* `timer.c:36` returns the 64-bit time as an int; the time calls divide the count
  of cycles by the rate of mtime.
* `sifive_uart0.c`: with a handler that prints, a character may be stored into a
  full FIFO, and a change of the rate may tear one.

## Proofs

`HartSyncProof`, for every number of harts, boot hart and set of senders.  The
invariant is `TypeOK`, `SyncInv` and `QuietInv`.  `NoEarlyStart` is
not inductive: it must be known that hart 0 leaves its first loop only when all
others have announced.  `SyncInv` therefore says that harts below hart 0's counter
have announced (`CountInv`), that a hart's MSIP is 0 while it has not announced
(`MsipInv`) even though others send interrupts, since only harts that run their
program send and none does before the release (`SideInv`), what the boot hart has
done when it comes to the barrier (`BootInv`), and that in the second loop only
harts below the counter have been let go (`LowerInv`).  `QuietInv` follows the
CSRs.  From it follow `TypeCorrect`, `StartUpSafe`, `StartUpTakesNoTrap`,
`ProgramStartsQuiet` and `ImplementsBarrier`, whether stores are weak or not.
Nothing is proved of what other harts see of the image (run
`hart_sync_weak_stores`).

`MetalLockProof`, for every set of harts, rounds and backoff.  The invariant adds
to `MutualExclusion` that a holder implies `state = 1` (`HeldInv`), that nobody
has called before init (`StartInv`) and that the copy about to be written is
current (`DataInv`).  From it `TypeCorrect`, `Exclusive`, `UpdatesKept` and
`ImplementsMutex`.

`SoftwareInterruptProof`, for every number of harts, with a CLINT and with a
CLIC: `NothingIsLost`.  Mail that waits is announced, or somebody is at it
(`Announced`).  This holds on only because of who may be writing: threads set,
and a handler clears its own hart's interrupt before it looks (`Writers`); and on
a CLIC because register and line differ only while the thread has written the
one and not yet the other (`Line`).

`PlicProof`, for any harts, contexts, sources, priorities and program of the
model.  A claim returns an enabled request or 0 (`BestIsReady`; that some request
has the highest priority is where the well-founded order of the numbers is
needed), so a claimed source has its gateway closed, has no request and belongs
to one hart (`SoleServer`): `OneServes`.  Whatever is enabled, about to be, or
being served is registered, and its registration has ended (`UsedAreRegistered`),
so a function is loaded together with its data: `DataIsRegistered`.  The other two
theorems assume `EachForItself`: no calls from handlers, contexts with the numbers
of the harts, and affinity calls only of a hart that is alone and not for context
0, which they skip.  Then what a call has read of a word of enable bits is what
they are when it writes (`OwnBits`), hence `BitsAreAsAsked`; and a hart that
serves a source has it enabled (`ServedIsEnabled`), since its thread cannot run
meanwhile, so that the controller takes its completion, hence `NothingIsLost`.
Without the assumption the first can fail (two harts that write one context's
word, or contexts with other numbers, as in run `plic_contexts`) and the second
too, when a handler disables its own source.

`DispatchProof`, for any harts, any controllers among the children and any number
of calls.  `TypeCorrect` holds whatever programs do.  The others assume `InOrder`:
`Careful`, and that `Main` is the first of the PLIC's parents.  Both are needed:
an init clears the table of the hart that calls it, and without `Careful` may
clear what a child has put there; and the PLIC's init goes through its parents
and enables the external line in mie of the hart that *runs* it
(`riscv_plic0.c:159`), so that with another `Main`, TLC shows with two harts and
`Main = 1`, the line is enabled before that hart's own entry is set.  The invariant is
`OrderInv` (which controllers are up, how far a walk over the parents has come,
and what has not been touched before), `EntriesAsAsked` (an entry holds what was
asked for it, with data and child), `EnabledWereAsked` (a line that is enabled has
been asked for), `ClintLines` and `PlicLine` (parents that a walk has visited hold
the child that walks) and `TrapsAnswered`, which is `LastRegisteredRuns` with
`InitialisedHartsTrapWell`.  An entry alone is not enough for the last: in vector
mode an interrupt ends where mtvec points, so the proof follows mtvec, the mode
and the registrations together.  From it `LastRegistered`, `TrapsWell`,
`ClintReachable`.

`InterruptsProof` brings these to the systems of `MCInterrupts`, which
instantiates `PlicProof` and `DispatchProof` (each extends the module it is
about), so that the lemmas come with the instances: each of the five systems
meets the assumptions (`BoardsFit`), keeps its invariant, and is left alone by
the steps of the others.  It also has the proof about `Clic`, for any
sub-interrupts, any number of implemented bits and any levels, which are
constants of `MCInterrupts`.  `LevelBitsAsWanted` says that the bits of a
control byte which NLBITS makes its level are those asked for, and that at least
one bit below them is left to priority and vector; `AcceptedIsThere` says that
what was accepted is in its table, and that the interrupt ends in that table if
no call has switched it since.  From them `ClicLevelStays`, `ClicAcceptedRuns`
and `ClicTypeCorrect`.  The nine other theorems are the nine invariants that run
`interrupts` checks, by their names.

`ServicesProof` is about `MCServices`, whose systems have their bounds, rates and
sizes as constants: its theorems are the seven invariants that run `services`
checks, by their names, and one of its action properties, for all values that meet
the assumptions of the modules.  `ServicesInv` has one part per system.

* `ClockInv`: as long as nobody has registered twice, both lists are the chain of
  the devices in the order of registration, which is as many nodes as there are
  devices at most, so that the end is found; and a walk has set every divisor
  behind it (`Walked`).  `ListsHoldOrder` and the divisors' part of `RateIsFollowed`
  follow.  `NodeOfChain` and `AppendToEnd` are the lemmas on lists.
* `RestInv`, for `RateChangesAtRest`: whatever has registered and is active lies
  ahead of the walk over the pre-callbacks (`Ahead`).  After a second
  registration that need not be so; but then the list has no end: there is a set
  of devices that it does not leave (`Endless`), since a list that is cut at one
  device ends there, and who is appended once more is linked to itself
  (`EndIsWhereCut`, `AppendedAgain`).  A walk over it never comes to the change
  of the rate.
* `SpiInv` and `PwmInv`: the register holds what the rate of the moment gives, where
  the PWM's frequency comes from two divisions that round (`FrequencyIsSet`): it is
  not below the one asked for, since each change starts from one that was not.
* `UartInv`: what getc has returned and what waits in the FIFO are characters in
  the order in which they came, the former before the latter (`OnceInv`).
  `UartAloneInv`: a thread that no handler interrupts never finds the FIFO full
  between its look and its store, and has waited for every bit when it changes
  the divisor.
* `HtifInv`: no more answers are under way than contexts that wait (`Tokens`).
  `HtifAloneInv`: with a thread alone there is at most one, the stack frame that the
  mailbox points at is there, and the screen shows the texts that were printed up to
  the character under way (`Printed`), for any texts.
* `TimerInv`: the words that a read has got so far are those of times that it had, the
  high word as it was before the low one (`ReadSoFar`); between the writes of mtimecmp
  the compare value is past every deadline (`MaskedIsLate`).
* `PllInv`: a PLL that is selected has waited, with a configuration that is valid for
  its input and closest to what was asked; that the limits of a row are those of the
  hardware is `RowsAreWithinLimits`, over all 68 rows, and that a row's product is its
  rate, rounding aside, is `RowsSayWhatComes`.  A bypass is close enough too
  (`InputIsClosest`), or no row is valid.
* `PrciInv`: for the current job and stage, which PLLs have been written, have locked
  and are on, on both boards with all straps, from reset and with a core that runs.
* The software interrupts' `IInv`, from `SoftwareInterruptProof`.

`DevicesProof` is about `MCDevices`, with every size, word, set and bound a
constant: its theorems are the six invariants and the two action properties that
run `devices` checks, for all values that meet the assumptions.  `DevicesInv` is
one part per unit; a step of the whole is, for each unit, a step of it or none
(`StepsAreOfOne`).  What each part needs beyond what is checked:

* `PmpInv`: the two properties are inductive with the types: also a call that sets
  mode or address alone checks with what it has read.
* `HpmInv`, `MonInv`, `RtcInv`, `CallsInv`: what a read in two words has so far.  If
  the upper word is still the one that was read, the words are those of one value of
  the meantime (`HpmReading`, `MonGoesOn`, `ReadInv`).  A clear is right if the low
  word does not roll over while it is half done (`HpmCounted`, `MonRoom`): the
  guards of `Tick` and `Event` say so, since no 2^32 events fit between two
  instructions.
* `I2cInv`: the command on the bus is that of the call's place, and what a slave
  refused shows in the acknowledgement (`I2cCore`).
* `SpiInv`: between calls the queues are empty, in a call they hold the one frame it
  waits for (`SpiCore`); that is so until a frame is late, and what is
  stated of answers and modes is stated up to then.
* `WdogInv`: which writes a call has still to make and which registers are as
  asked meanwhile (`Comparing`, `Rating`, `Setting`, `Running`), wherever the
  key stands; then no order of ticks, keys and writes lets the watchdog bite
  before the timeout with the scale of the moment (`ScaleNow`).  `RtcInv` with
  `ShiftsOnce`: a compare value that needs one shift is stored within its scale;
  larger ones are excluded by an assumption of `MCDevices`, since the code gets
  them wrong (`sifive_rtc0.c:60`).
* `GpioInv`, `BeuInv`: enables are what was asked, type by type and line by line.
  `GpioEdges` and `BeuEvents` are about a step: what a write clears, its call named,
  or its read had seen.
* `CacheInv`: the ways the LIM section needs, rounded up from half ways, are never
  enabled; and where the borrowed mtvec is, and what the line holds then.
* `RemapInv`: for each call and each of its writes, what is still to come, that the
  key is set before each, and how far a loop over the registers has come
  (`RemapProgress`).
* `HeapInv`: whatever the program has lies before the break and before the end of
  the heap (`StaysInTheHeap`), also while the break is at the end after a refusal;
  so the scrub, which clears at least one byte, clears nothing that is kept.
* `TimeInv`: `MulDivExact` is the arithmetic: `v * num / den` by parts is exact in 64
  bits if `num * den` fits, whatever v.  `ClockInv` is what `times` last
  reported; that it goes on by the ticks in between, or one more, is `Marches`, from
  `DivSum` and `ModDifference`.
* `TraceInv`: the buffer is a number whose digits are the characters printed since
  the last stimulus (`Held`); that a word of three goes as two and one, and comes
  back in order, is `Of3`.
* `StartInv`: a walk has called those before its next, in order (`Walked`); how far
  walks are when the boot hart is at a place (`Booting`), and that nobody is in a
  program before all have arrived (`HartAt`).
* `MemInv` and `MatchIsHold`: the comparison of wrapping addresses finds just the
  memory that holds one, if no memory wraps around.
* `PrivInv`: what a handler that traps between the CSR writes returns to, in which
  mode (`PrivProgress`).

The assumptions are the named ones of the modules: that the constants have their
types, that there is a second hart or a hart 0, that the boot hart is a hart, that
a heap's start is not past its end, that registers have the width the code gives
them, that a bounded count does not wrap as a whole; for Timekeeping, that
the rate times the units per second fits 64 bits, as a comment in `sys_times.c`
asks; for the RTC, one shift, as above; and, where a theorem names them,
`EachForItself` and `InOrder`, which are about programs and boards.  TLC evaluates
each on the values of its runs.  The inductive invariants were checked with TLC on
small instances before they were proved.

Some choices of `MCDevices` are fixed rather than proved for all: PMP registers of a
32-bit hart (`pmp_rv64` shows the other), GPIO function 1, and programs that
drop privilege with interrupts off; without them the findings above apply.

Every invariant and every `[][...]` property that a passing run checks is proved.
Only model-checked: everything temporal beyond that (who starts, finishes, is
served, returns: `EveryHartStarts`, the fairness half of `BarrierSpec`,
`EveryoneFinishes`, `CallsReturn`, `InterruptsAreServed`), which needs liveness under
fairness.

## Not modelled

* Preemption of a CLIC handler by a higher level: the driver sets levels, and the
  hardware does the rest.
* The length of a faulting instruction and the skipping of it
  (`metal_cpu_get_instruction_length`), a function of two bits.
* The PWM's interrupt flags, error injection into caches and the settings of the
  prefetchers, fixed and fixed-factor clocks, the test device and the simulated
  UART: each a load, a store or a constant.
* Atomic operations, each an instruction; the builds without atomics, which trap.
* The system calls that only fail (`sys_open.c` and the like).
* The register headers `metal/drivers/*_regs.h`, which are numbers.
* Wording of messages, and the exact codes of errors.

### What programs are taken to do

Beside the bounds, these are all the guards of actions that are the program's and
not the code's; what the properties say holds of programs that keep to them.

* A lock is initialised before it is taken; it is given by who holds it, who does
  not take it meanwhile.  Each actor makes one call at a time.
* IPIs are sent by harts that run their program (`Senders`).  Mail is put down before
  the interrupt is set, by threads, and a handler clears the interrupt before it looks.
* A PWM is enabled before `set_freq`, and the frequency asked of it is not above any
  rate of its clock (`PwmAssumption`).  The rate of a clock is changed by one context,
  outside of callbacks.
* One hart reads its timer and sets its compare register, from its thread;
  the handler is the default one.
* A PLIC source is registered once, and before it is enabled and its priority
  set; handlers make no calls (`IsrCalls` is FALSE in the runs).  Handlers of
  the CLIC make none either.
* The interrupt controllers come up in the order of `Careful`; the theorems also
  take the main hart for the first of the PLIC's parents (`InOrder`).  A line is
  enabled after a handler was registered, and disabled while another is; the
  CLINT's lines are not given NULL, and `ext` is left to the PLIC.  A hart turns
  its interrupts on after it has initialised its controller, others than the
  main one when the main one has finished; who vectors expects no bus errors
  (their number is past the table's end).
* The PMP is initialised before a region is set.
* Interrupts are masked around the access calls of the HPM, and privilege is
  dropped with interrupts off (`Masked`).  The flushes of a cache take
  interrupts.
* Fewer events than a word holds come while a 64-bit counter is half cleared.
* A remapper entry is mapped anew only when it is disabled.  A compare value of the RTC
  needs no more than one shift.
* An I2C call is for one byte at least.
* `metal_l2cache_set_enabled_ways` is asked for no way that the program uses, and the
  counters of a private cache are used from its own hart.
* sbrk is asked to take back no more than lies between the start of the heap and the
  break, and _brk is used to give back only.

Registering a device twice, setting the rate of a watchdog that counts, a PMP
region below a locked TOR one, a heap call after one that was refused, a change
of modes, levels and vector bits of a CLIC under registered handlers, and
one-shots of a PWM are not excluded: the models make them, and the properties
say what holds of them.
