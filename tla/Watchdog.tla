------------------------------- MODULE Watchdog -------------------------------
(***************************************************************************)
(* The watchdog, src/drivers/sifive_wdog0.c.  A register takes a value     *)
(* only after the key has been written, which that write takes back; a     *)
(* call may need several such writes, and the counter goes on in between,  *)
(* also between a key and its write.                                       *)
(***************************************************************************)
EXTENDS Integers, Sequences

CONSTANTS MaxScale,   \* METAL_WDOGCFG_SCALE_MASK
          MaxCmp,     \* METAL_WDOGCMP_MASK
          ClockRate,  \* the rate of the clock that drives it
          MaxCount    \* bound: the count a program lets it come to

WatchdogAssumption ==
    /\ {MaxCmp, ClockRate, MaxCount} \subseteq Nat \ {0}
    /\ MaxScale \in 1 .. 7

Results == {"none", "interrupt", "reset"}
Runs == {"stop", "always", "awake"}

VARIABLES unlocked,  \* the key has been written, and no register since
          seenIp,    \* the bit of ip in the WDOGCFG that the call has read
          scale, result, enable, ip,   \* WDOGCFG
          cmp,       \* WDOGCMP
          count,     \* the counter
          todo,      \* the writes that the current call has still to do
          first,     \* the next write is the first of its call
          asked,     \* what the calls that have returned have asked for
          rest,      \* the ticks since it was last fed, with the counter on
          bites      \* the ticks of rest when it last fired, -1 if not yet

cfg == <<scale, result, enable, ip>>
vars == <<unlocked, seenIp, cfg, cmp, count, todo, first, asked, rest, bites>>

Unset == [scale |-> 0, result |-> "none", enable |-> "stop", cmp |-> MaxCmp]

\* After a reset nothing is enabled; the program sets what it needs.
Init ==
    /\ unlocked = FALSE /\ seenIp = FALSE
    /\ scale = 0 /\ result = "none" /\ enable = "stop" /\ ip = FALSE
    /\ cmp = MaxCmp
    /\ count = 0
    /\ todo = <<>> /\ first = TRUE
    /\ asked = Unset
    /\ rest = 0 /\ bites = -1

-----------------------------------------------------------------------------
(* The device. *)

Matches(c) == c \div 2 ^ scale >= cmp

\* The counter counts while it is enabled and fires when its scaled value has
\* come to the compare value.
Tick ==
    /\ enable # "stop" /\ count < MaxCount
    /\ ~(Matches(count + 1) /\ result = "reset")
    /\ LET fires == Matches(count + 1)
           zeroed == fires /\ result = "interrupt"
       IN /\ ip' = (ip \/ fires)
          /\ count' = IF zeroed THEN 0 ELSE count + 1
          /\ rest' = IF zeroed THEN 0 ELSE rest + 1
          /\ bites' = IF fires /\ ~ip THEN rest + 1 ELSE bites
    /\ UNCHANGED <<unlocked, seenIp, scale, result, enable, cmp, todo, first,
                   asked>>

\* It fires and resets the system, itself included.
Reset ==
    /\ enable # "stop" /\ result = "reset" /\ Matches(count + 1)
    /\ unlocked' = FALSE /\ UNCHANGED seenIp
    /\ scale' = 0 /\ result' = "none" /\ enable' = "stop" /\ ip' = FALSE
    /\ cmp' = MaxCmp /\ count' = 0
    /\ todo' = <<>> /\ first' = TRUE
    /\ asked' = Unset
    /\ rest' = 0 /\ bites' = rest + 1

-----------------------------------------------------------------------------
(* Writes: what a call does to the device, one register write each. *)

\* A form it must not take: the key is written once for a call.
OncePerCall == first

\* WDOG_UNLOCK_REGW: the key is written before every register.
Unlocks == TRUE

\* WDOG_UNLOCK, and the read of a register that is to be written back with a
\* field changed.
Unlock ==
    /\ todo # <<>> /\ Unlocks /\ ~unlocked
    /\ unlocked' = TRUE /\ seenIp' = ip
    /\ UNCHANGED <<cfg, cmp, count, todo, first, asked, rest, bites>>

\* The register after it.  With a field of WDOGCFG the bit of ip is written back
\* as it was read, so that of an interrupt in between is lost.
Write ==
    /\ todo # <<>> /\ (Unlocks => unlocked)
    /\ LET w == Head(todo) IN
       /\ scale' = IF unlocked /\ w.reg = "scale" THEN w.value ELSE scale
       /\ result' = IF unlocked /\ w.reg = "result" THEN w.value ELSE result
       /\ enable' = IF unlocked /\ w.reg = "enable" THEN w.value ELSE enable
       /\ ip' = CASE unlocked /\ w.reg = "ip" -> FALSE
                  [] unlocked /\ w.reg \in {"scale", "result", "enable"} -> seenIp
                  [] OTHER -> ip
       /\ cmp' = IF unlocked /\ w.reg = "cmp" THEN w.value ELSE cmp
       /\ count' = IF unlocked /\ w.reg = "feed" THEN 0 ELSE count
       /\ rest' = IF (unlocked /\ w.reg = "feed") \/ enable' = "stop" THEN 0
                  ELSE rest
       /\ asked' = IF Len(todo) = 1 /\ w.reg \in DOMAIN asked
                   THEN [asked EXCEPT ![w.reg] = w.value] ELSE asked
    /\ unlocked' = FALSE
    /\ todo' = Tail(todo)
    /\ first' = (Len(todo) = 1)
    /\ UNCHANGED <<seenIp, bites>>

W(reg, value) == [reg |-> reg, value |-> value]

Call(writes) ==
    /\ todo = <<>>
    /\ todo' = writes
    /\ UNCHANGED <<unlocked, seenIp, cfg, cmp, count, first, asked, rest, bites>>

-----------------------------------------------------------------------------
(* The calls. *)

Feed == Call(<<W("feed", 0)>>)

Abs(n) == IF n < 0 THEN -n ELSE n

RateWith(s) == ClockRate \div 2 ^ s

\* "Look for the closest scale value": the first of those, the largest scale
\* not among them.
ClosestScale(rate) ==
    IF rate >= ClockRate THEN 0
    ELSE CHOOSE s \in 0 .. MaxScale - 1 :
            \A t \in 0 .. MaxScale - 1 :
                /\ Abs(rate - RateWith(s)) <= Abs(rate - RateWith(t))
                /\ t < s => Abs(rate - RateWith(s)) < Abs(rate - RateWith(t))

\* metal_watchdog_set_rate clears the scale, then sets it, also while the
\* watchdog counts.
SetRate(rate) ==
    Call(IF rate >= ClockRate THEN <<W("scale", 0)>>
         ELSE <<W("scale", 0), W("scale", ClosestScale(rate))>>)

\* A form it must not take: the value is masked out first.
CompareInPlace(timeout) == <<W("cmp", 0), W("cmp", timeout)>>

\* "Instead, read the value into a local variable, modify it there, and then
\* write the whole register back".
CompareWrites(timeout) == <<W("cmp", timeout)>>

\* metal_watchdog_set_timeout.
SetTimeout(timeout) ==
    Call(CompareWrites(IF timeout > MaxCmp THEN MaxCmp ELSE timeout))

\* metal_watchdog_set_result.
SetResult(r) ==
    Call(IF r = "none" THEN <<W("result", "none")>>
                       ELSE <<W("result", "none"), W("result", r)>>)

\* A form it must not take: the counter goes on from where it was stopped.
StartWrites(option) == <<W("enable", "stop"), W("enable", option)>>

\* "Feed the watchdog before starting to reset counter".
RunWrites(option) ==
    IF option = "stop" THEN <<W("enable", "stop")>>
    ELSE <<W("enable", "stop"), W("feed", 0), W("enable", option)>>

\* metal_watchdog_run.
Run(option) == Call(RunWrites(option))

\* metal_watchdog_clear_interrupt.
ClearInterrupt == Call(<<W("ip", 0)>>)

Next ==
    \/ Tick \/ Reset \/ Unlock \/ Write \/ Feed \/ ClearInterrupt
    \/ \E rate \in {ClockRate, ClockRate \div 2, ClockRate \div 3, 1} : SetRate(rate)
    \/ \E timeout \in 0 .. MaxCmp + 1 : SetTimeout(timeout)
    \/ \E r \in Results : SetResult(r)
    \/ \E option \in Runs : Run(option)

Spec == Init /\ [][Next]_vars

-----------------------------------------------------------------------------

TypeOK ==
    /\ {unlocked, seenIp, ip, first} \subseteq BOOLEAN
    /\ scale \in 0 .. MaxScale /\ result \in Results /\ enable \in Runs
    /\ cmp \in 0 .. MaxCmp /\ count \in 0 .. MaxCount
    /\ Len(todo) <= 3
    /\ asked \in [scale : 0 .. MaxScale, result : Results, enable : Runs,
                  cmp : 0 .. MaxCmp]
    /\ rest \in 0 .. MaxCount /\ bites \in -1 .. MaxCount + 1

\* "All writes to watchdog registers must be precedded by a write of a magic
\* number": between two calls the registers hold what the calls have asked
\* for, though each call writes some of them more than once.
CallsTakeEffect ==
    todo = <<>> => /\ scale = asked.scale /\ result = asked.result
                   /\ enable = asked.enable /\ cmp = asked.cmp

\* set_rate has cleared the scale and not yet written the new one.
BetweenScales == ~first /\ todo # <<>> /\ Head(todo).reg = "scale"

\* The scale that a program has to reckon with.
ScaleNow == IF BetweenScales THEN 0 ELSE asked.scale

\* "... we cause a spurious interrupt because the compare value is temporarily
\* 0": a running watchdog does not fire before it has gone unfed for the
\* timeout and scale that were asked for, whatever call is half done, but for
\* one: between the two writes of set_rate (sifive_wdog0.c:102) the scale is
\* temporarily 0, and it fires once it has gone unfed for the timeout unscaled.
NeverEarly ==
    [][bites' # bites => bites' >= asked.cmp * 2 ^ ScaleNow]_vars

=============================================================================
