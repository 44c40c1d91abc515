--------------------------------- MODULE Hpm ---------------------------------
(***************************************************************************)
(* The hardware performance counters, src/hpm.c, on a hart with 32-bit     *)
(* registers: a counter is two words that go on counting while they are    *)
(* read or cleared, and the access of the lower privilege modes is changed *)
(* behind a trap vector of the driver's own.                               *)
(***************************************************************************)
EXTENDS Naturals, FiniteSetsExt

CONSTANTS Exist,     \* the programmable counters the hart has
          Top,       \* METAL_HPM_COUNTER_31
          Base,      \* the values of a word
          MaxTicks   \* bound: the events that are counted; a counter does
                     \* not wrap around as a whole

HpmAssumption ==
    /\ {Top, Base, MaxTicks} \subseteq Nat /\ Base > 1 /\ Top >= 3
    /\ Exist \subseteq 3 .. Top /\ MaxTicks < Base * Base

Counters == 0 .. Top
Time == 1       \* METAL_HPM_TIME is with the CLINT

VARIABLES count,   \* cpu->hpm_count
          events,  \* the counters that have an event selected
          hi, lo,  \* the words of the counter that is looked at
          access,  \* mcounteren
          mtvec,   \* "program", or "after": label 1 of an access call
          op,      \* the call the program is in
          ticks,   \* what was counted since the counter was last 0
          seen,    \* the value read last, and what there was to read
          asked    \* the access that was last asked for

vars == <<count, events, hi, lo, access, mtvec, op, ticks, seen, asked>>
word == <<hi, lo>>
csrs == <<access, mtvec>>

Idle == [at |-> "idle", n |-> 0, on |-> FALSE, vh |-> 0, vl |-> 0, from |-> 0]

Init ==
    /\ count = 0 /\ events = {}
    /\ hi = 0 /\ lo = 0
    /\ access = {} /\ mtvec = "program"
    /\ op = Idle
    /\ ticks = 0
    /\ seen = [value |-> 0, from |-> 0, to |-> 0]
    /\ asked = {}

Value == hi * Base + lo

\* The counter counts between two instructions; it does not run through its
\* lower word within one call.
Tick ==
    /\ ticks < MaxTicks
    /\ op.at = "clear_hi_again" => ticks < Base - 1
    /\ ticks' = ticks + 1
    /\ lo' = (lo + 1) % Base
    /\ hi' = IF lo + 1 = Base THEN (hi + 1) % Base ELSE hi
    /\ UNCHANGED <<count, events, csrs, op, seen, asked>>

-----------------------------------------------------------------------------
(* Configuration. *)

\* metal_hpm_init counts up to the first counter without an event selector;
\* the last one is not looked at.  It clears what it has counted.
InitHpm ==
    LET n == Min({c \in 3 .. Top : c \notin Exist \/ c = Top}) IN
    /\ op = Idle /\ count = 0
    /\ count' = n
    /\ events' = events \ (0 .. n)
    /\ hi' = 0 /\ lo' = 0 /\ ticks' = 0
    /\ UNCHANGED <<csrs, op, seen, asked>>

\* metal_hpm_disable: "csrw mcounteren, zero", and no counter is left.
DisableHpm ==
    /\ op = Idle
    /\ count' = 0
    /\ access' = {}
    /\ asked' = {}
    /\ UNCHANGED <<events, word, mtvec, op, ticks, seen>>

InRange(n) == n < count

\* metal_hpm_set_event and metal_hpm_clr_event.
SelectEvent(n, on) ==
    /\ op = Idle /\ InRange(n) /\ n \in Exist
    /\ events' = IF on THEN events \cup {n} ELSE events \ {n}
    /\ UNCHANGED <<count, word, csrs, op, ticks, seen, asked>>

-----------------------------------------------------------------------------
(* Access: metal_hpm_enable_access and metal_hpm_disable_access.  The hart has
   mcounteren, and programs mask interrupts meanwhile: what traps while the
   vector is the call's own goes on at label 1, and is not returned from. *)

BeginAccess(n, on) ==
    /\ op = Idle /\ InRange(n)
    /\ mtvec' = "after"
    /\ op' = [Idle EXCEPT !.at = "access", !.n = n, !.on = on]
    /\ UNCHANGED <<count, events, word, access, ticks, seen, asked>>

\* A form it must not take: disabling one takes the others with it.
AccessOfOne == IF op.on THEN {op.n} ELSE {}

AccessWith == IF op.on THEN access \cup {op.n} ELSE access \ {op.n}

WriteAccess ==
    /\ op.at = "access"
    /\ access' = AccessWith
    /\ op' = [op EXCEPT !.at = "restore"]
    /\ UNCHANGED <<count, events, word, mtvec, ticks, seen, asked>>

EndAccess ==
    /\ op.at = "restore"
    /\ mtvec' = "program"
    /\ op' = Idle
    /\ asked' = IF op.on THEN asked \cup {op.n} ELSE asked \ {op.n}
    /\ UNCHANGED <<count, events, word, access, ticks, seen>>

-----------------------------------------------------------------------------
(* The two words of a counter, mcycle and minstret among them. *)

BeginRead(n) ==
    /\ op = Idle /\ InRange(n) /\ n # Time
    /\ op' = [Idle EXCEPT !.at = "read_hi", !.from = Value]
    /\ UNCHANGED <<count, events, word, csrs, ticks, seen, asked>>

ReadHi ==
    /\ op.at = "read_hi"
    /\ op' = [op EXCEPT !.at = "read_lo", !.vh = hi]
    /\ UNCHANGED <<count, events, word, csrs, ticks, seen, asked>>

ReadLo ==
    /\ op.at = "read_lo"
    /\ op' = [op EXCEPT !.at = "check", !.vl = lo]
    /\ UNCHANGED <<count, events, word, csrs, ticks, seen, asked>>

\* A form it must not take: the words are read once.
NeverTorn == FALSE

\* "while (vh != vh1)".
Torn == op.vh # hi

CheckHi ==
    /\ op.at = "check"
    /\ IF Torn
       THEN op' = [op EXCEPT !.at = "read_hi"] /\ UNCHANGED seen
       ELSE /\ op' = Idle
            /\ seen' = [value |-> op.vh * Base + op.vl,
                        from |-> op.from, to |-> Value]
    /\ UNCHANGED <<count, events, word, csrs, ticks, asked>>

BeginClear(n) ==
    /\ op = Idle /\ InRange(n) /\ n # Time
    /\ op' = [Idle EXCEPT !.at = "clear_hi"]
    /\ UNCHANGED <<count, events, word, csrs, ticks, seen, asked>>

\* A form it must not take: the upper word is cleared once.
AfterClearLoOnce == "idle"

\* The upper word is cleared again after the lower one.
AfterClearLo == "clear_hi_again"

ClearHi ==
    /\ op.at \in {"clear_hi", "clear_hi_again"}
    /\ hi' = 0
    /\ op' = IF op.at = "clear_hi" THEN [op EXCEPT !.at = "clear_lo"] ELSE Idle
    /\ UNCHANGED <<count, events, lo, csrs, ticks, seen, asked>>

ClearLo ==
    /\ op.at = "clear_lo"
    /\ lo' = 0 /\ ticks' = 0
    /\ op' = IF AfterClearLo = "idle" THEN Idle
                                      ELSE [op EXCEPT !.at = AfterClearLo]
    /\ UNCHANGED <<count, events, hi, csrs, seen, asked>>

Step == WriteAccess \/ EndAccess \/ ReadHi \/ ReadLo \/ CheckHi \/ ClearHi
        \/ ClearLo

Next ==
    \/ Tick \/ InitHpm \/ DisableHpm \/ Step
    \/ \E n \in Counters :
          \/ BeginRead(n) \/ BeginClear(n)
          \/ \E on \in BOOLEAN : SelectEvent(n, on) \/ BeginAccess(n, on)

Spec == Init /\ [][Next]_vars

-----------------------------------------------------------------------------

TypeOK ==
    /\ count \in 0 .. Top
    /\ events \subseteq Exist
    /\ {hi, lo} \subseteq 0 .. Base - 1
    /\ access \subseteq Counters /\ asked \subseteq Counters
    /\ mtvec \in {"program", "after"}
    /\ op \in [at : {"idle", "access", "restore", "read_hi", "read_lo", "check",
                     "clear_hi", "clear_lo", "clear_hi_again"},
               n : Counters, on : BOOLEAN, vh : 0 .. Base - 1,
               vl : 0 .. Base - 1, from : 0 .. Base * Base - 1]
    /\ ticks \in 0 .. MaxTicks
    /\ seen \in [value : 0 .. Base * Base - 1, from : 0 .. Base * Base - 1,
                 to : 0 .. Base * Base - 1]

\* "hi != hi1 means mcycle overflow during we get value" (riscv_cpu.c): the
\* value that is returned is one the counter had during the call, unless the
\* counter wrapped around as a whole.
ReadIsCurrent ==
    seen.from <= seen.to => seen.value \in seen.from .. seen.to

\* "Clears off specified counter" (hpm.h): once the lower word is cleared, and
\* when the call returns, the counter holds what was counted since, though it
\* may carry into the upper word between two of the three writes.
ClearedCountsFromZero ==
    op.at \notin {"clear_lo", "clear_hi_again"} => Value = ticks

\* "Enable counter access to next lower privilege mode" (hpm.h): the mode has
\* the access that was last asked for each counter, and the program its own
\* trap vector.
AccessAsAsked ==
    op.at = "idle" => access = asked /\ mtvec = "program"

=============================================================================
