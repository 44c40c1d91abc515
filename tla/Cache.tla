-------------------------------- MODULE Cache -------------------------------
(***************************************************************************)
(* The caches: the ways of the composable cache that its constructor       *)
(* takes from the memory they also serve as (the LIM), in                  *)
(* src/drivers/sifive_ccache0.c; and the flush and discard of a line of    *)
(* the first-level cache in src/cache.c, which borrows mtvec.  Sizes are   *)
(* in half ways.                                                           *)
(***************************************************************************)
EXTENDS Integers

CONSTANTS NumWays,   \* the ways of the cache
          Lims,      \* how much of the LIM the program's lim section takes
          Bss,       \* how much the bss that follows it takes, 0: is elsewhere
          WithDcache \* the harts with a data cache, in the device tree

CacheAssumption ==
    /\ NumWays \in Nat \ {0} /\ WithDcache \subseteq Nat
    /\ Lims \subseteq Nat /\ Bss \subseteq Nat
    /\ \A lim \in Lims, bss \in Bss : lim + bss \in 0 .. 2 * (NumWays - 1)

VARIABLES lim, bss,     \* the sizes that the linker gave them
          enabled,      \* the ways that are cache and no longer LIM
          cleanEvict,   \* the cleanEvictEnable bit of the cache before it
          started,      \* how far metal_init has come
          l1,           \* a line of the first-level cache and the call on it
          vector, mie   \* mtvec and mstatus.MIE

ways == <<lim, bss, enabled, cleanEvict, started>>
line == <<l1, vector, mie>>
vars == <<ways, line>>

NoCall == [pc |-> "idle", what |-> "flush", hit |-> FALSE]

Init ==
    /\ lim \in Lims /\ bss \in Bss
    /\ enabled = 1 /\ cleanEvict = FALSE /\ started = 0
    /\ l1 = [state |-> "none", lost |-> FALSE, call |-> NoCall]
    /\ vector = "program" /\ mie = TRUE

-----------------------------------------------------------------------------
(* The ways. *)

\* A form it must not take: a way of which the LIM uses half is enabled.
WholeWays(size) == size \div 2

WaysInUse(size) == (size + 1) \div 2

\* What is left of the LIM when n ways are cache.
LimLeft(n) == 2 * (NumWays - n)

\* A form it must not take: ways may be given back to the LIM.
SetWaysUnchecked(n) == [ways |-> n, rc |-> 0]

\* set_enabled_ways: the way that it could set, or why it could not.
SetWays(n) == IF enabled > n THEN [ways |-> enabled, rc |-> -1]
                             ELSE [ways |-> n, rc |-> 0]

\* The bss starts, or ends, in the first ways of the LIM.
BssInLim(n) == bss > 0 /\ (lim < 2 * n \/ lim + bss < 2 * n)

Configured == LET n == NumWays - WaysInUse(lim)
              IN IF BssInLim(n) THEN [ways |-> enabled, rc |-> -1] ELSE SetWays(n)

\* sifive_pl2cache0_init, on a board with a composable cache behind it.
Pl2Init ==
    /\ started = 0
    /\ started' = 1 /\ cleanEvict' = TRUE
    /\ UNCHANGED <<lim, bss, enabled, line>>

\* sifive_ccache0_init, which metal_init calls by name, and once more as a
\* constructor.
CcacheInit ==
    /\ started \in 1 .. 2
    /\ started' = started + 1
    /\ enabled' = Configured.ways
    /\ cleanEvict' = (cleanEvict /\ Configured.rc = 0)
    /\ UNCHANGED <<lim, bss, line>>

\* metal_l2cache_set_enabled_ways, by a program that counts the ways it uses.
SetEnabledWays(n) ==
    /\ started = 3
    /\ lim + bss <= LimLeft(n)
    /\ enabled' = SetWays(n).ways
    /\ UNCHANGED <<lim, bss, cleanEvict, started, line>>

-----------------------------------------------------------------------------
(* A line of the first-level cache. *)

At(pc) == l1.call.pc = pc
Goto(pc) == [l1 EXCEPT !.call.pc = pc]

Write ==
    /\ At("idle")
    /\ l1' = [l1 EXCEPT !.state = "dirty", !.lost = FALSE]
    /\ UNCHANGED <<ways, vector, mie>>

\* metal_dcache_l1_available, whose switch ends with hart 8.
Available(hartid) == hartid \in 0 .. 8 /\ hartid \in WithDcache

\* metal_dcache_l1_flush and _discard set mtvec to the end of the call ...
Call(what, hartid) ==
    /\ At("idle") /\ mie /\ Available(hartid)
    /\ vector' = "label"
    /\ l1' = [l1 EXCEPT !.call = [pc |-> "instruction", what |-> what,
                                  hit |-> FALSE]]
    /\ UNCHANGED <<ways, mie>>

\* A form it must not take: what was written is gone.
Discarded(l, what) == [l EXCEPT !.state = "none", !.lost = l.state = "dirty"]

\* What CFLUSH.D.L1 and CDISCARD.D.L1 do to the line.
Emptied(l, what) ==
    [l EXCEPT !.state = "none",
              !.lost = what = "discard" /\ l.state = "dirty"]

\* ... for the instruction that a hart may not have, ...
Instruction ==
    /\ At("instruction")
    /\ l1' = [Emptied(l1, l1.call.what) EXCEPT !.call.pc = "restore"]
    /\ UNCHANGED <<ways, vector, mie>>

\* All lines at once, for address 0, without a look at traps.
EmptyAll(what, hartid) ==
    /\ At("idle") /\ Available(hartid)
    /\ l1' = Emptied(l1, what)
    /\ UNCHANGED <<ways, vector, mie>>

\* A form it must not take: a trap to the label leaves it in mtvec.
KeptByTrap == IF l1.call.hit THEN "label" ELSE "program"

Restored == "program"

\* ... and put it back.
Restore ==
    /\ At("restore")
    /\ vector' = Restored
    /\ l1' = Goto("idle")
    /\ UNCHANGED <<ways, mie>>

\* An interrupt that comes meanwhile traps to the label: it skips the
\* instruction, is not handled, and leaves interrupts off.
Interrupt ==
    /\ vector = "label" /\ mie
    /\ mie' = FALSE
    /\ l1' = [Goto("restore") EXCEPT !.call.hit = TRUE]
    /\ UNCHANGED <<ways, vector>>

\* The program, or a thread that it switches to, turns them on again.
EnableInterrupts ==
    /\ At("idle") /\ ~mie
    /\ mie' = TRUE
    /\ l1' = [l1 EXCEPT !.call = NoCall]
    /\ UNCHANGED <<ways, vector>>

Next ==
    \/ Pl2Init \/ CcacheInit \/ \E n \in 0 .. NumWays : SetEnabledWays(n)
    \/ Write \/ Instruction \/ Restore \/ Interrupt \/ EnableInterrupts
    \/ \E what \in {"flush", "discard"}, hartid \in WithDcache :
          Call(what, hartid) \/ EmptyAll(what, hartid)

Spec == Init /\ [][Next]_vars

-----------------------------------------------------------------------------

TypeOK ==
    /\ enabled \in 1 .. NumWays
    /\ started \in 0 .. 3 /\ {cleanEvict, mie} \subseteq BOOLEAN
    /\ l1.state \in {"none", "dirty"} /\ l1.lost \in BOOLEAN
    /\ l1.call.pc \in {"idle", "instruction", "restore"}
    /\ vector \in {"program", "label"}

\* "Do not enable cache ways, corresponding to LIM area in use"
\* (sifive_ccache0.c): no way that holds the LIM section of the program becomes
\* cache, nor one that holds the bss behind it, as long as that section is
\* smaller than the ways that it leaves, which are what the sanity check looks
\* at; and the private caches hand their clean lines on only to a cache that has
\* all the ways that the LIM section does not need.
UsedLimIsKept ==
    /\ enabled = 1 \/ lim <= LimLeft(enabled)
    /\ lim < 2 * (NumWays - WaysInUse(lim)) =>
          enabled = 1 \/ lim + bss <= LimLeft(enabled)
    /\ started = 3 /\ cleanEvict => enabled >= NumWays - WaysInUse(lim)

\* A flush or discard ends with the program's trap vector in mtvec; one that no
\* interrupt came into has emptied the line, and a flush has lost nothing that
\* was written to it.
LineIsFlushed ==
    /\ At("idle") => vector = "program"
    /\ At("restore") /\ ~l1.call.hit =>
          l1.state = "none" /\ (l1.call.what = "flush" => ~l1.lost)

=============================================================================
