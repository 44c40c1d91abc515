----------------------------- MODULE MCServices -----------------------------
(***************************************************************************)
(* Clocks, and what waits for them: a clock with its callbacks and the     *)
(* devices on it, the PLLs, the consoles, and the timer, the software      *)
(* interrupts and the PLIC, each under the fairness of its own module.  A  *)
(* behaviour is about one of them, and the others stay as they are         *)
(* initially.  Pll is extended and keeps its names.                        *)
(***************************************************************************)
EXTENDS Pll

CONSTANTS Serial, I2c, Pwms, ClockRates, Null,   \* of MetalClock
          PwmRates, Freqs, Duties, MaxCount, MaxPrescale, Channels,   \* of Pwm
          Depth, Frame, Watermarks, MaxPutc, MaxCame,   \* of Uart
          WordSize, MaxTime, Period,   \* of ClintTimer
          SpiRates, Bauds, MaxDiv,   \* of SpiBaud
          Texts, MaxWrites,   \* of Htif
          MaxMailed   \* of SoftwareInterrupt

\* What the programs on the console print.
ShortTexts == {<<"a">>, <<"a", "b">>}

VARIABLES unit,   \* the part that this behaviour is about
          lists, order, again, inited, divisor, active, oneshot, clockRate,
          target, clockPc, current,   \* MetalClock
          pwmRate, prescale, modes, pwmCmp, freq, count, duty, registered,
          phase, rescaled, pwmAsked, moved, stale,   \* Pwm
          fifo, shift, txcnt, uartPc, left, sent, lost, torn, rx, came, got,   \* Uart
          mtime, timerCmp, timerPc, hi, lo, since, value, deadline,   \* ClintTimer
          line, raises, pending, closed, enabled, asked, priority, threshold,
          table, data, call, irq, off,   \* Plic
          board, straps, job, stage, pll, core, pclk, released,   \* Prci
          spiRate, baud, sckDiv, txmark, words, spiPhase,   \* SpiBaud
          tohost, fromhost, frame, htifPc, text, taken, answers, screen,
          printed, writes, status,   \* Htif
          msip, ip, ipiCall, mail, mailed   \* SoftwareInterrupt

clockVars == <<lists, order, again, inited, divisor, active, oneshot, clockRate,
               target, clockPc, current>>
pwmVars == <<pwmRate, prescale, modes, pwmCmp, freq, count, duty, registered,
             phase, rescaled, pwmAsked, moved, stale>>
uartVars == <<fifo, shift, txcnt, uartPc, left, sent, lost, torn, rx, came,
              got>>
timerVars == <<mtime, timerCmp, timerPc, hi, lo, since, value, deadline>>
plicVars == <<line, raises, pending, closed, enabled, asked, priority,
              threshold, table, data, call, irq, off>>
prciVars == <<board, straps, job, stage, pll, core, pclk, released>>
spiVars == <<spiRate, baud, sckDiv, txmark, words, spiPhase>>
htifVars == <<tohost, fromhost, frame, htifPc, text, taken, answers, screen,
              printed, writes, status>>
ipiVars == <<msip, ip, ipiCall, mail, mailed>>
allVars == <<unit, vars, clockVars, pwmVars, uartVars, timerVars, plicVars,
             prciVars, spiVars, htifVars, ipiVars>>

Clock == INSTANCE MetalClock WITH
    Pwm <- Pwms, Rates <- ClockRates, rate <- clockRate, pc <- clockPc

Pwm == INSTANCE Pwm WITH
    Rates <- PwmRates, rate <- pwmRate, cmp <- pwmCmp, asked <- pwmAsked

\* The UART of a thread alone, and of a thread and its interrupt handler.
Uart == INSTANCE Uart WITH
    Printers <- {"thread"}, MaxSent <- MaxPutc, pc <- uartPc

Both == INSTANCE Uart WITH
    Printers <- {"thread", "handler"}, MaxSent <- MaxPutc, pc <- uartPc

Timer == INSTANCE ClintTimer WITH
    Word <- WordSize, cmp <- timerCmp, pc <- timerPc

Plic == INSTANCE Plic WITH
    Harts <- {1}, Contexts <- {0, 1}, Context <- [h \in {1} |-> h],
    NumInterrupts <- 3, WordBits <- 32, MaxPriority <- 7,
    Priorities <- {3, 7}, Thresholds <- {2}, Registrars <- {1},
    Defaults <- FALSE, Masks <- {}, IsrCalls <- FALSE, Raises <- 2

Prci == INSTANCE Prci WITH
    Starts <- {"reset", "running"}

Spi == INSTANCE SpiBaud WITH
    Rates <- SpiRates, rate <- spiRate, div <- sckDiv, left <- words, phase <- spiPhase

\* The console of a thread alone, and of a thread and a handler.
Htif == INSTANCE Htif WITH
    Printers <- {"thread"}, pc <- htifPc, asked <- printed

Nested == INSTANCE Htif WITH
    Printers <- {"thread", "handler"}, pc <- htifPc, asked <- printed

\* Two harts with a CLINT, and one with a CLIC.
Clint == INSTANCE SoftwareInterruptProof WITH
    Harts <- {0, 1}, Clic <- FALSE, MaxSent <- MaxMailed, call <- ipiCall,
    sent <- mailed

Clic == INSTANCE SoftwareInterruptProof WITH
    Harts <- {0, 1}, Clic <- TRUE, MaxSent <- MaxMailed, call <- ipiCall,
    sent <- mailed

ASSUME Instances ==
    /\ Clock!MetalClockAssumption /\ Pwm!PwmAssumption
    /\ Uart!UartAssumption /\ Both!UartAssumption
    /\ Timer!ClintTimerAssumption /\ Plic!PlicAssumption /\ Prci!PrciAssumption
    /\ Spi!SpiBaudAssumption /\ Htif!HtifAssumption /\ Nested!HtifAssumption
    /\ Clint!SoftwareInterruptAssumption /\ Clic!SoftwareInterruptAssumption

Units == {"pll", "clock", "pwm", "uart", "both", "timer", "plic", "prci",
          "spi", "htif", "nested", "clint", "clic"}

\* What a unit that the behaviour is not about begins with is the same in all.
ServicesInit ==
    /\ unit \in Units
    /\ Init /\ (unit # "pll" => ref = 0)
    /\ Clock!Init /\ (unit # "clock" => clockRate = CHOOSE r \in ClockRates : TRUE)
    /\ Pwm!Init /\ (unit # "pwm" => pwmRate = CHOOSE r \in PwmRates : TRUE)
    /\ Uart!Init /\ Timer!Init /\ Plic!Init
    /\ Prci!Init /\ (unit # "prci" => board = "fu540" /\ straps = {})
    /\ Spi!Init /\ (unit # "spi" => spiRate = CHOOSE r \in SpiRates : TRUE)
    /\ Htif!Init /\ Clint!Init

\* All parts but one stay as they are.
Others(u) ==
    /\ UNCHANGED unit
    /\ u # "pll" => UNCHANGED vars
    /\ u # "clock" => UNCHANGED clockVars
    /\ u # "pwm" => UNCHANGED pwmVars
    /\ u \notin {"uart", "both"} => UNCHANGED uartVars
    /\ u # "timer" => UNCHANGED timerVars
    /\ u # "plic" => UNCHANGED plicVars
    /\ u # "prci" => UNCHANGED prciVars
    /\ u # "spi" => UNCHANGED spiVars
    /\ u \notin {"htif", "nested"} => UNCHANGED htifVars
    /\ u \notin {"clint", "clic"} => UNCHANGED ipiVars

ServicesNext ==
    \/ unit = "pll" /\ Next /\ Others("pll")
    \/ unit = "clock" /\ Clock!Next /\ Others("clock")
    \/ unit = "pwm" /\ Pwm!Next /\ Others("pwm")
    \/ unit = "uart" /\ Uart!Next /\ Others("uart")
    \/ unit = "both" /\ Both!Next /\ Others("both")
    \/ unit = "timer" /\ Timer!Next /\ Others("timer")
    \/ unit = "plic" /\ Plic!Next /\ Others("plic")
    \/ unit = "prci" /\ Prci!Next /\ Others("prci")
    \/ unit = "spi" /\ Spi!Next /\ Others("spi")
    \/ unit = "htif" /\ Htif!Next /\ Others("htif")
    \/ unit = "nested" /\ Nested!Next /\ Others("nested")
    \/ unit = "clint" /\ Clint!Next /\ Others("clint")
    \/ unit = "clic" /\ Clic!Next /\ Others("clic")

\* The fairness of each module, of the unit that the behaviour is about.
PllFairness ==
    /\ WF_vars(unit = "pll" /\ Edge)
    /\ WF_vars(unit = "pll" /\ Settle)
    /\ WF_vars(unit = "pll" /\ (Bypass \/ Configure \/ Lock \/ Select))

ClockFairness ==
    /\ WF_clockVars(/\ unit = "clock"
                    /\ \/ Clock!CallPre \/ Clock!ChangeRate
                       \/ Clock!CallPost \/ Clock!Return)
    /\ \A d \in Serial \cup I2c \cup Pwms :
          WF_clockVars(unit = "clock" /\ Clock!TransferEnds(d))

UartFairness ==
    /\ WF_uartVars(unit \in {"uart", "both"} /\ Uart!Bit)
    /\ WF_uartVars(unit \in {"uart", "both"} /\ Uart!SeeEmpty)
    /\ WF_uartVars(unit \in {"uart", "both"} /\ Uart!Wait)
    /\ WF_uartVars(unit \in {"uart", "both"} /\ Uart!ChangeRate)
    /\ WF_uartVars(unit \in {"uart", "both"} /\ Uart!Putc)

TimerFairness ==
    /\ SF_timerVars(unit = "timer" /\ Timer!Interrupt)
    /\ WF_timerVars(unit = "timer" /\ Timer!IsrStep)
    /\ WF_timerVars(unit = "timer" /\ Timer!SetStep("thread"))

PlicFairness ==
    /\ \A s \in {1, 2} : WF_plicVars(unit = "plic" /\ Plic!Forward(s))
    /\ WF_plicVars(unit = "plic" /\ Plic!HandlerStep(1))
    /\ \A a \in {<<1, "thread">>, <<1, "isr">>} :
          WF_plicVars(unit = "plic" /\ (Plic!ReadWord(a) \/ Plic!WriteWord(a)))

PrciFairness ==
    /\ WF_prciVars(unit = "prci" /\ Prci!InitStep)
    /\ \A p \in {"core", "hfpclk", "cltx", "gemgxl"} :
          WF_prciVars(unit = "prci" /\ Prci!Locks(p))

HtifFairness ==
    /\ \A p \in {"thread", "handler"} :
          WF_htifVars(unit \in {"htif", "nested"} /\ Htif!Step(p))
    /\ WF_htifVars(unit \in {"htif", "nested"} /\ Htif!Take)
    /\ WF_htifVars(unit \in {"htif", "nested"} /\ Htif!Serve)
    /\ WF_htifVars(unit \in {"htif", "nested"} /\ Htif!Acknowledge)

IpiFairness ==
    /\ \A h \in {0, 1} :
          /\ WF_ipiVars(unit = "clint" /\ (Clint!Interrupt(h) \/ Clint!Look(h)))
          /\ \A c \in {"thread", "handler"} :
                WF_ipiVars(unit = "clint" /\ Clint!WriteMsip(<<h, c>>))
    /\ WF_ipiVars(unit = "clic" /\ (Clic!Interrupt(0) \/ Clic!Look(0)))
    /\ \A c \in {"thread", "handler"} :
          WF_ipiVars(/\ unit = "clic"
                     /\ Clic!WriteMsip(<<0, c>>) \/ Clic!WriteLine(<<0, c>>))

ServicesSpec ==
    /\ ServicesInit /\ [][ServicesNext]_allVars
    /\ PllFairness /\ ClockFairness /\ UartFairness
    /\ TimerFairness /\ PlicFairness /\ PrciFairness
    /\ HtifFairness /\ IpiFairness

-----------------------------------------------------------------------------
(* What the modules say of each system; see there for the code it is about. *)

ServicesTypeOK ==
    /\ TypeOK /\ Clock!TypeOK /\ Pwm!TypeOK /\ Both!TypeOK
    /\ Timer!TypeOK /\ Prci!TypeOK /\ Spi!TypeOK
    /\ IF unit = "htif" THEN Htif!TypeOK ELSE Nested!TypeOK
    /\ Clic!TypeOK

\* The callback lists hold every device that has registered, in that order.
ListsHoldOrder == Clock!ListsHoldOrder

\* Whatever the rate has become, a device that hangs on the clock works as it
\* was set up: with a divisor for that rate if nobody has registered twice, a
\* SPI with the baud rate that it reports, a PWM with the duty cycles asked of it
\* and a frequency that is not below the one asked of it, and the one reported.
\* The last is not so while its scale was ORed over another, nor after a division
\* by zero (sifive_pwm0.c:172 and 167): see FrequencyIsAsAsked.
RateIsFollowed ==
    /\ Clock!DivisorsFollowRate
    /\ Spi!SckFollowsRate
    /\ Pwm!DutyFollowsRate /\ Pwm!FrequencyIsAsAsked

\* The rate does not change under a transfer or a PWM that runs always, if its
\* callbacks are registered (a one-shot of a PWM is not stopped), nor under the
\* words in a SPI's FIFO, nor, unless a handler prints meanwhile, under a
\* character on the wire.
RateChangesAtRest ==
    /\ Spi!RateChangesWhenEmpty
    /\ [][/\ clockRate' # clockRate => Clock!AtRest
          /\ unit = "uart" => Uart!NoCharacterIsTorn']_allVars

\* The core of the FE310, and on the larger parts the core once its PLL was set
\* up, the bus and the devices out of reset run on PLLs that have locked, within
\* their limits, at the rates the code names; but for ChipLink on a board with
\* both an HFPCLK and a CLTX PLL, of which the code sets up only the former.
ClocksAreStable ==
    /\ CoreClockIsStable /\ WithinLimits
    /\ Prci!ClocksAreStable /\ Prci!RatesAreAsNamed

\* Characters come out of getc once each, in order, and putc by one context
\* loses none, nor does the simulator's console.
EachOnceInOrder ==
    /\ Uart!EachOnceInOrder
    /\ unit = "htif" => Htif!PrintedOnce
    /\ unit = "uart" => Uart!NothingIsDropped

\* The time that is read is current, no timer interrupt is spurious, the
\* compare register holds what was set last, and no software interrupt whose
\* set has returned is lost.
TimerIsExact ==
    /\ Timer!ReadIsCurrent /\ Timer!NoSpuriousInterrupt
    /\ Timer!CompareIsDeadline
    /\ IF unit = "clic" THEN Clic!NoIpiIsLost ELSE Clint!NoIpiIsLost

\* A change of the rate of a clock, of a PLL, the wait for the last character,
\* the set-up of the PLLs and a write to the console of a simulator come to an
\* end.
CallsReturn ==
    /\ EveryCallReturns /\ Clock!ChangeReturns /\ Uart!DrainEnds
    /\ (unit = "prci" => Prci!InitReturns)
    /\ (unit = "htif" => Htif!PrintsReturn)
    /\ (unit = "nested" => Nested!PrintsReturn)

\* An interrupt that is due is served: the timer's when its deadline comes,
\* and the sources of the PLIC, and mail that is announced by a software
\* interrupt is read; and the timer handler finds no half of a write.
InterruptsAreServed ==
    /\ [][Timer!Interrupt => timerPc["thread"] \notin {"low", "high"}]_timerVars
    /\ (unit = "timer" => Timer!DeadlineIsHonoured)
    /\ Plic!EnabledIsServed
    /\ (unit = "clint" => Clint!MailIsRead)
    /\ (unit = "clic" => Clic!MailIsRead)

=============================================================================
