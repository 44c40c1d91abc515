----------------------------- MODULE Timekeeping -----------------------------
(***************************************************************************)
(* The clocks of the C library as the program of a hart sees them: its     *)
(* cycle counter, which RV32 reads in two words (src/drivers/riscv_cpu.c,  *)
(* src/timer.c), and what becomes of it and of mtime                       *)
(* (gloss/sys_times.c, gloss/sys_gettimeofday.c, src/time.c,               *)
(* gloss/sys_clock_gettime.c).  How mtime itself is read is in ClintTimer. *)
(***************************************************************************)
EXTENDS Integers, Sequences

CONSTANTS Harts,        \* metal_cpu_get knows these
          Self,         \* the one that executes
          Ids,          \* the hart ids that programs pass
          Word,         \* 2^32
          Big,          \* 2^64, of an unsigned long long
          ClockWord,    \* the size of clock_t
          Timebase,     \* the timebase-frequency of the devicetree
          ClocksPerSec, \* of times
          Million,      \* microseconds in a second
          Nano,         \* nanoseconds in a second
          Rate,         \* MTIME_RATE_HZ
          MaxCycles,    \* bound: how far the cycle counter runs
          MaxTicks      \* bound: how far mtime runs

TimekeepingAssumption ==
    /\ {Word, Big, ClockWord, Timebase, ClocksPerSec, Million, Nano, Rate}
           \subseteq Nat \ {0}
    /\ Harts \subseteq Ids /\ {0, Self} \subseteq Harts
    /\ Word * Word = Big /\ Big % ClockWord = 0
    /\ {MaxCycles, MaxTicks} \subseteq 0 .. Big - 1
    \* "we just need timebase to be less than about 4,000,000,000,000"
    /\ ClocksPerSec * Timebase <= Big
    /\ Million * Timebase <= Big
    /\ Nano * Rate <= Big

VARIABLES cycle,   \* mcycle and mcycleh of the hart
          mtime,   \* the time of the CLINT
          op,      \* the read of the counter that the hart is in
          seen,    \* the result of the last call
          clock    \* the last result of times, with its count of cycles

vars == <<cycle, mtime, op, seen, clock>>

\* The calls that read the cycle counter.
Counts == {"cycles", "times", "day"}

Idle == [pc |-> "idle", kind |-> "none", start |-> 0, hi |-> 0, lo |-> 0]
Nothing == [kind |-> "none", start |-> 0, raw |-> 0, val |-> <<0>>, end |-> 0]

Init ==
    /\ cycle = 0
    /\ mtime = 0
    /\ op = Idle
    /\ seen = Nothing
    /\ clock = [raw |-> 0, val |-> 0]

-----------------------------------------------------------------------------
(* The conversions. *)

\* "v * num / den while avoiding overflow", in 64 bits.
MulDiv(v, num, den) ==
    (((((v % den) * num) % Big) \div den) + (((v \div den) * num) % Big)) % Big

\* The second part of a split time, in 64 bits.
Rest(v, num, den) == (((v % den) * num) % Big) \div den

\* What the calls make of a count of cycles.
Converted(kind, v) ==
    CASE kind = "cycles" -> <<v>>
      [] kind = "times" -> <<MulDiv(v, ClocksPerSec, Timebase) % ClockWord>>
      [] kind = "day" -> <<v \div Timebase, Rest(v, Million, Timebase)>>

\* The timespec of clock_gettime, and the nanoseconds of clock_getres.
TimeSpec(ticks) == <<ticks \div Rate, Rest(ticks, Nano, Rate)>>
Resolution == Nano \div Rate

-----------------------------------------------------------------------------
(* The calls. *)

Run ==
    /\ cycle < MaxCycles
    /\ cycle' = cycle + 1
    /\ UNCHANGED <<mtime, op, seen, clock>>

Tick ==
    /\ mtime < MaxTicks
    /\ mtime' = mtime + 1
    /\ UNCHANGED <<cycle, op, seen, clock>>

\* metal_timer_get_cyclecount of a hart id, times, which passes the caller's,
\* and gettimeofday, which passes 0.  An id without a hart fails at once.
Begin(kind, id) ==
    /\ op.pc = "idle"
    /\ kind = "times" => id = Self
    /\ kind = "day" => id = 0
    /\ op' = IF id \in Harts
               THEN [pc |-> "hi", kind |-> kind, start |-> cycle, hi |-> 0,
                     lo |-> 0]
               ELSE op
    /\ seen' = Nothing
    /\ UNCHANGED <<cycle, mtime, clock>>

\* The three reads of __metal_driver_cpu_mcycle_get, of the registers of the
\* hart that executes, whichever hart was named.
ReadHi ==
    /\ op.pc = "hi"
    /\ op' = [op EXCEPT !.hi = cycle \div Word, !.pc = "lo"]
    /\ UNCHANGED <<cycle, mtime, seen, clock>>

ReadLo ==
    /\ op.pc = "lo"
    /\ op' = [op EXCEPT !.lo = cycle % Word, !.pc = "again"]
    /\ UNCHANGED <<cycle, mtime, seen, clock>>

\* hi != hi1: the counter has carried, and all is read again.
ReadAgain ==
    /\ op.pc = "again"
    /\ op' = [op EXCEPT !.pc = IF op.hi # cycle \div Word THEN "hi" ELSE "done"]
    /\ UNCHANGED <<cycle, mtime, seen, clock>>

Return ==
    LET raw == op.hi * Word + op.lo
        val == Converted(op.kind, raw) IN
    /\ op.pc = "done"
    /\ op' = Idle
    /\ seen' = [kind |-> op.kind, start |-> op.start, raw |-> raw, val |-> val,
                end |-> cycle]
    /\ clock' = IF op.kind = "times" THEN [raw |-> raw, val |-> val[1]] ELSE clock
    /\ UNCHANGED <<cycle, mtime>>

\* clock_gettime, for CLOCK_MONOTONIC.
GetTime ==
    /\ op.pc = "idle"
    /\ seen' = [Nothing EXCEPT !.kind = "spec", !.raw = mtime,
                               !.val = TimeSpec(mtime)]
    /\ UNCHANGED <<cycle, mtime, op, clock>>

Next ==
    \/ Run \/ Tick \/ GetTime
    \/ \E kind \in Counts, id \in Ids : Begin(kind, id)
    \/ ReadHi \/ ReadLo \/ ReadAgain \/ Return

Spec == Init /\ [][Next]_vars

-----------------------------------------------------------------------------

TypeOK ==
    /\ cycle \in 0 .. MaxCycles
    /\ mtime \in 0 .. MaxTicks
    /\ op \in [pc : {"idle", "hi", "lo", "again", "done"},
              kind : {"none"} \cup Counts, start : 0 .. MaxCycles,
              hi : 0 .. Word - 1, lo : 0 .. Word - 1]
    /\ seen \in [kind : {"none", "spec"} \cup Counts, start : 0 .. MaxCycles,
                raw : Nat, val : Seq(Nat), end : 0 .. MaxCycles]
    /\ clock \in [raw : Nat, val : 0 .. ClockWord - 1]

\* "hi != hi1 means mcycle overflow during we get value, so we must retry"
\* (riscv_cpu.c): the count that a call uses was the hart's during the call.
CyclesAreCurrent ==
    seen.kind \in Counts =>
        seen.start <= seen.raw /\ seen.raw <= seen.end

\* What the calls convert is exact but for the fraction, and what they split is
\* normal: less than a million microseconds or 10^9 nanoseconds.
TimesAreExact ==
    /\ seen.kind = "times" =>
           seen.val[1] = ((seen.raw * ClocksPerSec) \div Timebase) % ClockWord
    /\ seen.kind = "day" =>
           /\ seen.val[2] \in 0 .. Million - 1
           /\ seen.val[1] * Million + seen.val[2] = (seen.raw * Million) \div Timebase
    /\ seen.kind = "spec" =>
           /\ seen.val[2] \in 0 .. Nano - 1
           /\ seen.val[1] * Nano + seen.val[2] = (seen.raw * Nano) \div Rate

\* "a change of 'c' in cyclecount will change the return value by c *
\* CLOCKS_PER_SEC / timebase, so applications will see time marching forward"
\* (sys_times.c), as far as clock_t goes round.
TimeMarches ==
    [][clock' # clock =>
          LET c == clock'.raw - clock.raw
              whole == (c * ClocksPerSec) \div Timebase
          IN /\ c >= 0
             /\ (clock'.val - clock.val) % ClockWord
                    \in {whole % ClockWord, (whole + 1) % ClockWord}]_vars

\* From one tick of mtime to the next clock_gettime moves by the resolution
\* that clock_getres reports, or by a nanosecond more.
TicksAreTheResolution ==
    LET ns(t) == TimeSpec(t)[1] * Nano + TimeSpec(t)[2]
    IN ns(mtime + 1) - ns(mtime) \in {Resolution, Resolution + 1}

=============================================================================
