--------------------------------- MODULE Pwm ---------------------------------
(***************************************************************************)
(* One PWM, src/drivers/sifive_pwm0.c: its prescaler, its period and its   *)
(* duty cycles, across changes of the rate of its clock.  Callback lists   *)
(* of several devices are in MetalClock.                                   *)
(***************************************************************************)
EXTENDS Naturals, FiniteSetsExt

CONSTANTS Rates,        \* what the clock can run at
          Freqs,        \* the frequencies that programs ask for
          Duties,       \* the duty cycles, in percent
          MaxCount,     \* the largest period, 2^compare_width - 1
          MaxPrescale,  \* METAL_PWM_MAXPRESCAL
          Channels      \* the comparators after PWMCMP0

PwmAssumption ==
    /\ MaxCount \in Nat \ {0} /\ MaxPrescale \in 1 .. 15
    /\ Rates \subseteq Nat /\ Freqs \subseteq Nat \ {0}
    /\ Duties \subseteq 0 .. 100 /\ 0 \notin Channels
    /\ \A r \in Rates, f \in Freqs : f <= r

VARIABLES rate,        \* the rate of the clock
          prescale,    \* the scale in PWMCFG
          modes,       \* the modes of PWMCFG that are set
          cmp,         \* PWMCMP0, and the one of each channel
          freq, count, \* pwm->freq and pwm->count_val
          duty,        \* pwm->duty
          registered,  \* the callbacks are in the lists of the clock
          phase,       \* where a change of the rate is
          rescaled,    \* PWMCFG has another scale than that of the period
          asked,       \* the frequency asked for last, 0 if it cannot be kept
          moved,       \* the rate was changed since
          stale        \* the channels whose period was changed under them

vars == <<rate, prescale, modes, cmp, freq, count, duty, registered, phase,
          rescaled, asked, moved, stale>>
history == <<rescaled, asked, moved>>
device == <<prescale, modes, cmp>>
kept == <<freq, count, duty>>

Init ==
    /\ rate \in Rates
    /\ prescale = 0 /\ modes = {} /\ cmp = [c \in Channels \cup {0} |-> 0]
    /\ freq = 0 /\ count = 0 /\ duty = [c \in Channels |-> 0]
    /\ registered = FALSE
    /\ phase = "rest"
    /\ rescaled = FALSE /\ asked = 0 /\ moved = FALSE /\ stale = {}

-----------------------------------------------------------------------------

\* A form it must not take: the scale before the last one that was enabled
\* stays.
KeptScale == prescale

\* PWMCFG after enable.
ClearedScale == 0

\* metal_pwm_enable.
Enable ==
    /\ phase = "rest"
    /\ freq' = 0 /\ count' = 0
    /\ prescale' = ClearedScale /\ modes' = {}
    /\ rescaled' = FALSE /\ asked' = 0
    /\ stale' = Channels
    /\ UNCHANGED <<rate, cmp, duty, registered, phase, moved>>

\* METAL_PWM_GETCMPVAL.
CompareFor(percent, period) == (percent * period) \div 100

\* 1UL << prescale.
PowerOfTwo(p) ==
    <<1, 2, 4, 8, 16, 32, 64, 128, 256, 512, 1024, 2048, 4096, 8192, 16384,
      32768, 65536>>[p + 1]

\* The period at a scale; the loop of set_freq leaves it with a scale past the
\* largest when there is none that fits.
PeriodAt(p, f) == (rate \div PowerOfTwo(p)) \div f

ScaleFor(f) ==
    Min({p \in 0 .. MaxPrescale : PeriodAt(p, f) <= MaxCount}
            \cup {MaxPrescale + 1})

\* The bits of a OR b, of four bits.
BitOr(a, b) ==
    LET Bit(i) == IF (a \div i) % 2 = 1 \/ (b \div i) % 2 = 1 THEN i ELSE 0
    IN  Bit(1) + Bit(2) + Bit(4) + Bit(8)

\* The registers and the fields as set_freq leaves them.  The period comes from
\* the scale before the loop went past the largest.  The scale is ORed over the
\* one that is there, which gives another if that has a bit of its own.
SetsFreq(f) ==
    LET p == ScaleFor(f)
        n == PeriodAt(Min({p, MaxPrescale}), f)
    IN  /\ freq' = (rate \div PowerOfTwo(p)) \div n
        /\ count' = n - 1
        /\ prescale' = BitOr(prescale, p % (MaxPrescale + 1))
        /\ rescaled' = (p > MaxPrescale \/ prescale' # p)

\* What remains of a demand when the period for a frequency is set.
Kept(demand, f) == IF ScaleFor(f) > MaxPrescale THEN 0 ELSE demand

\* metal_pwm_set_freq.  The callbacks are registered when there is no
\* frequency yet; the comparators of the channels are left as they are.
SetFreq(f) ==
    /\ phase = "rest"
    /\ SetsFreq(f)
    /\ cmp' = [cmp EXCEPT ![0] = count']
    /\ registered' = (registered \/ freq = 0)
    /\ asked' = Kept(f, f) /\ moved' = FALSE
    /\ stale' = Channels
    /\ UNCHANGED <<rate, modes, duty, phase>>

\* metal_pwm_set_duty.
SetDuty(c, percent) ==
    /\ phase = "rest"
    /\ cmp' = [cmp EXCEPT ![c] = CompareFor(percent, count)]
    /\ duty' = [duty EXCEPT ![c] = percent]
    /\ stale' = stale \ {c}
    /\ UNCHANGED <<rate, prescale, modes, freq, count, registered, phase,
                   history>>

\* metal_pwm_trigger and metal_pwm_stop.
Trigger(mode) ==
    /\ phase = "rest"
    /\ modes' = modes \cup {mode}
    /\ UNCHANGED <<rate, prescale, cmp, kept, registered, phase, history, stale>>

Stop ==
    /\ phase = "rest"
    /\ modes' = modes \ {"always"}
    /\ UNCHANGED <<rate, prescale, cmp, kept, registered, phase, history, stale>>

\* metal_pwm_get_duty: channel 0 is the period and has none.
GetDuty(c) == IF c \in Channels THEN duty[c] ELSE 0

\* metal_pwm_get_freq, of all channels.
GetFreq == freq

-----------------------------------------------------------------------------
(* metal_clock_set_rate_hz. *)

\* pre_rate_change_callback.
BeforeChange ==
    /\ phase = "rest"
    /\ modes' = IF registered THEN modes \ {"always"} ELSE modes
    /\ phase' = "changing"
    /\ UNCHANGED <<rate, prescale, cmp, kept, registered, history, stale>>

Change ==
    /\ phase = "changing"
    /\ rate' \in Rates
    /\ phase' = "changed"
    /\ moved' = TRUE
    /\ UNCHANGED <<device, kept, registered, rescaled, asked, stale>>

\* A form it must not take: the duty cycles are of the period before.
OldPeriod == count

\* The period that post_rate_change_callback takes duty cycles of.
NewPeriod == count'

\* The frequency in pwm->freq is not the one asked for but the next above it
\* that the rate could produce: at another rate, it may have no period.
HasNoPeriod == registered /\ freq > rate

\* set_freq divides by zero, and there is nothing to say of what follows.
AfterChangeUndefined ==
    /\ phase = "changed" /\ HasNoPeriod
    /\ phase' = "undefined"
    /\ UNCHANGED <<rate, device, kept, registered, history, stale>>

\* post_rate_change_callback.  A channel of no duty is left alone.
AfterChange ==
    /\ phase = "changed" /\ ~HasNoPeriod
    /\ IF registered /\ freq # 0
         THEN /\ SetsFreq(freq)
              /\ cmp' = [c \in Channels \cup {0} |->
                           IF c = 0 THEN count'
                           ELSE IF duty[c] = 0 THEN cmp[c]
                           ELSE CompareFor(duty[c], NewPeriod)]
              /\ stale' = {c \in stale : duty[c] = 0}
              /\ asked' = Kept(asked, freq)
         ELSE UNCHANGED <<prescale, cmp, freq, count, rescaled, asked, stale>>
    /\ phase' = "rest"
    /\ UNCHANGED <<rate, modes, duty, registered, moved>>

Next ==
    \/ Enable \/ Stop \/ BeforeChange \/ Change \/ AfterChange
    \/ AfterChangeUndefined
    \/ \E f \in Freqs : SetFreq(f)
    \/ \E c \in Channels, percent \in Duties : SetDuty(c, percent)
    \/ \E mode \in {"always", "oneshot"} : Trigger(mode)

Spec == Init /\ [][Next]_vars

-----------------------------------------------------------------------------

TypeOK ==
    /\ rate \in Rates
    /\ prescale \in 0 .. 15 /\ modes \subseteq {"always", "oneshot"}
    /\ cmp \in [Channels \cup {0} -> Nat]
    /\ freq \in Nat /\ count \in Nat
    /\ duty \in [Channels -> Duties \cup {0}]
    /\ registered \in BOOLEAN
    /\ phase \in {"rest", "changing", "changed", "undefined"}
    /\ rescaled \in BOOLEAN /\ asked \in Nat /\ moved \in BOOLEAN
    /\ stale \subseteq Channels

\* What the device puts out with a period of n.
FreqOfPeriod(n) == (rate \div PowerOfTwo(prescale)) \div n
RealFreq == FreqOfPeriod(cmp[0] + 1)

\* "Set duty cycle after clock rate change" (sifive_pwm0.c): outside a change
\* of the rate, each channel is on for the share of the period that was asked
\* for, whatever the period has become, unless the program itself set another
\* period after it set the duty.
DutyFollowsRate ==
    phase = "rest" =>
        \A c \in Channels \ stale : cmp[c] = CompareFor(GetDuty(c), count)

\* "Sets frequency in Hz for a given PWM instance", "Gets frequency in Hz for a
\* given PWM instance" (pwm.h), "Set frequency after clock rate change"
\* (sifive_pwm0.c): the output has the frequency that get_freq returns and is not
\* slower than was asked, through all changes of the rate; until the first of
\* them the next longer period would be slower.  (After it the output may be
\* faster: each change starts from the frequency that the one before rounded up.)
\* It is not so while PWMCFG has a scale that was ORed with an earlier one, nor
\* after a division by zero, nor is a frequency kept that is below the lowest at
\* a rate in between.
FrequencyIsAsAsked ==
    phase = "rest" /\ GetFreq # 0 /\ ~rescaled =>
        /\ RealFreq = GetFreq
        /\ RealFreq >= asked
        /\ ~moved => FreqOfPeriod(cmp[0] + 2) < asked

=============================================================================
