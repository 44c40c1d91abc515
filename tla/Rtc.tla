--------------------------------- MODULE Rtc ---------------------------------
(***************************************************************************)
(* The real-time clock, src/drivers/sifive_rtc0.c: a counter of two words  *)
(* and a compare value of one, scaled to reach as far as the counter.      *)
(***************************************************************************)
EXTENDS Naturals, FiniteSetsExt

CONSTANTS Word,        \* what a register counts up to, METAL_RTCCMP0_MAX + 1
          MaxScale,    \* METAL_RTCCFG_RTCSCALE_MASK
          Compares,    \* the compare values that programs ask for
          MaxCount     \* bound: what the counter comes to

RtcAssumption ==
    /\ {Word, MaxScale, MaxCount} \subseteq Nat /\ Word > 1
    /\ Compares \subseteq Nat /\ MaxScale > 0
    /\ Word - 1 <= MaxCount /\ MaxCount < Word * Word

VARIABLES hi, lo,   \* RTCCOUNTHI, RTCCOUNTLO
          on,       \* METAL_RTCCFG_ENALWAYS
          scale,    \* the scale in RTCCFG
          cmp,      \* RTCCMP0
          op,       \* the call the program is in
          asked,    \* the compare value that was last asked for
          seen      \* what get_count returned last, and what it was then

vars == <<hi, lo, on, scale, cmp, op, asked, seen>>
counter == <<hi, lo>>

Idle == [at |-> "idle", value |-> 0, high |-> 0]

Init ==
    /\ hi = 0 /\ lo = 0
    /\ on = FALSE
    /\ scale = 0 /\ cmp = 0
    /\ op = Idle
    /\ asked = 0
    /\ seen = [value |-> 0, count |-> 0]

Count == hi * Word + lo

Tick ==
    /\ on /\ Count < MaxCount
    /\ lo' = (lo + 1) % Word
    /\ hi' = IF lo + 1 = Word THEN hi + 1 ELSE hi
    /\ UNCHANGED <<on, scale, cmp, op, asked, seen>>

-----------------------------------------------------------------------------

\* metal_rtc_run.
Run(option) ==
    /\ op = Idle
    /\ on' = option
    /\ UNCHANGED <<counter, scale, cmp, op, asked, seen>>

\* A form it must not take: a value of just a word is taken for one that fits.
TimesToWord(compare) ==
    Min({k \in 0 .. 6 : compare \div 2 ^ ((k * (k + 1)) \div 2) <= Word})

\* How often the loop of set_compare shifts the value, by one place more each
\* time, until it fits into a register.
Times(compare) ==
    Min({k \in 0 .. 6 : compare \div 2 ^ ((k * (k + 1)) \div 2) < Word})

\* metal_rtc_set_compare writes the scale, then the value.
SetCompare(compare) ==
    /\ op = Idle
    /\ scale' = Times(compare) % (MaxScale + 1)
    /\ op' = [Idle EXCEPT !.at = "compare", !.value = compare]
    /\ UNCHANGED <<counter, on, cmp, asked, seen>>

WriteCompare ==
    /\ op.at = "compare"
    /\ LET k == Times(op.value)
       IN cmp' = (op.value \div 2 ^ ((k * (k + 1)) \div 2)) % Word
    /\ asked' = op.value
    /\ op' = Idle
    /\ UNCHANGED <<counter, on, scale, seen>>

\* A form it must not take: the lower word is read first.
LowFirst == "low"

\* RTCCOUNTHI is read before RTCCOUNTLO.
FirstRead == "high"

\* metal_rtc_get_count.
BeginGetCount ==
    /\ op = Idle
    /\ op' = [Idle EXCEPT !.at = "read",
                          !.high = IF FirstRead = "high" THEN hi ELSE lo]
    /\ UNCHANGED <<counter, on, scale, cmp, asked, seen>>

EndGetCount ==
    /\ op.at = "read"
    /\ seen' = [value |-> IF FirstRead = "high" THEN op.high * Word + lo
                                                ELSE hi * Word + op.high,
                count |-> Count]
    /\ op' = Idle
    /\ UNCHANGED <<counter, on, scale, cmp, asked>>

\* metal_rtc_set_count.
SetCount(count) ==
    /\ op = Idle
    /\ hi' = count \div Word
    /\ op' = [Idle EXCEPT !.at = "low", !.value = count]
    /\ UNCHANGED <<lo, on, scale, cmp, asked, seen>>

WriteLow ==
    /\ op.at = "low"
    /\ lo' = op.value % Word
    /\ op' = [Idle EXCEPT !.at = "read", !.high = hi]
    /\ UNCHANGED <<hi, on, scale, cmp, asked, seen>>

Next ==
    \/ Tick \/ WriteCompare \/ BeginGetCount \/ EndGetCount \/ WriteLow
    \/ \E option \in BOOLEAN : Run(option)
    \/ \E compare \in Compares : SetCompare(compare)
    \/ \E count \in {0, Word - 1, MaxCount} : ~on /\ SetCount(count)

Spec == Init /\ [][Next]_vars

-----------------------------------------------------------------------------

TypeOK ==
    /\ hi \in 0 .. Word - 1 /\ lo \in 0 .. Word - 1
    /\ on \in BOOLEAN
    /\ scale \in 0 .. MaxScale /\ cmp \in 0 .. Word - 1
    /\ op.at \in {"idle", "compare", "read", "low"}
    /\ op.value \in Nat /\ op.high \in 0 .. Word - 1
    /\ asked \in Compares \cup {0}
    /\ seen \in [value : 0 .. Word * Word - 1, count : 0 .. MaxCount]

\* "Determine the bit shift and shifted value to store in rtccmp0/rtccfg.scale"
\* (sifive_rtc0.c), "the granularity of the compare value" (rtc.h): once the
\* call has returned the device compares with the value asked for, what the
\* scale cannot hold aside, and not with the one before.
CompareIsAsked ==
    op.at # "compare" =>
        /\ cmp * 2 ^ scale <= asked
        /\ asked < (cmp + 1) * 2 ^ scale

\* "Get the current count of the RTC": a carry between the two reads makes the
\* result too small, never too large: as the upper word is read first, a
\* program does not see a time that has not come yet.
NeverAhead == seen.value <= seen.count

=============================================================================
