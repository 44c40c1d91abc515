----------------------------- MODULE ClintTimer -----------------------------
(***************************************************************************)
(* The machine timer of src/drivers/riscv_clint0.c: a 64-bit counter and a *)
(* 64-bit compare register that the driver reaches in two words each.      *)
(* On the hart that owns the timer the program, a thread, reads mtime and  *)
(* sets mtimecmp, and the default timer handler, which interrupts it, does *)
(* both.  One action is one access to a word; the counter runs between any *)
(* two of them.                                                            *)
(***************************************************************************)
EXTENDS Integers

CONSTANTS Word,       \* the values of one word are 0 .. Word-1 (2^32)
          MaxTime,    \* the counter is followed up to here (a bound)
          Period      \* the ticks the default handler adds (10)

Top == Word - 1       \* 0xFFFFFFFF

\* The counter does not come near the value an all-ones high word stands for.
ClintTimerAssumption ==
    /\ Word \in Nat /\ Word > 1
    /\ MaxTime \in Nat /\ Period \in Nat \ {0}
    /\ MaxTime + Period < Top * Word

Times == 0 .. MaxTime
Deadlines == 0 .. MaxTime + Period

Hi(t) == t \div Word
Lo(t) == t % Word
Join(h, l) == h * Word + l

Actors == {"thread", "isr"}

VARIABLES mtime,     \* the counter
          cmp,       \* the two words of mtimecmp
          pc,        \* where each actor is
          hi, lo,    \* the locals of an actor's read of mtime
          since,     \* the counter when that read began
          value,     \* the time an actor writes to mtimecmp
          deadline   \* the time last set by a finished write

vars == <<mtime, cmp, pc, hi, lo, since, value, deadline>>

\* After reset the compare register holds its largest value.
Init ==
    /\ mtime = 0
    /\ cmp = [hi |-> Top, lo |-> Top]
    /\ pc = [a \in Actors |-> "idle"]
    /\ hi = [a \in Actors |-> 0]
    /\ lo = [a \in Actors |-> 0]
    /\ since = [a \in Actors |-> 0]
    /\ value = [a \in Actors |-> 0]
    /\ deadline = Join(Top, Top)

Goto(a, l) == pc' = [pc EXCEPT ![a] = l]

\* mip.MTIP of the hart.
Pending == mtime >= Join(cmp.hi, cmp.lo)

\* The thread does not run while its hart is in the handler.
Runs(a) == a = "thread" => pc["isr"] = "idle"

-----------------------------------------------------------------------------
(* Steps the code does not take, for the properties to notice. *)

RecheckNothing(a) ==
    /\ Runs(a) /\ pc[a] = "again"
    /\ Goto(a, IF a = "isr" THEN "rearm" ELSE "read")
    /\ UNCHANGED <<mtime, cmp, hi, lo, since, value, deadline>>

HighWordFirst(a) ==
    /\ Runs(a) /\ pc[a] = "mask"
    /\ cmp' = [cmp EXCEPT !.hi = Hi(value[a])]
    /\ Goto(a, "low")
    /\ UNCHANGED <<mtime, hi, lo, since, value, deadline>>

LowWordUncut(a) ==
    /\ Runs(a) /\ pc[a] = "low"
    /\ cmp' = [cmp EXCEPT !.lo = value[a]]
    /\ Goto(a, "high")
    /\ UNCHANGED <<mtime, hi, lo, since, value, deadline>>

HighWordStaysMasked(a) ==
    /\ Runs(a) /\ pc[a] = "high"
    /\ deadline' = value[a]
    /\ value' = [value EXCEPT ![a] = 0]
    /\ Goto(a, "idle")
    /\ UNCHANGED <<mtime, cmp, hi, lo, since>>

-----------------------------------------------------------------------------
(* The hardware. *)

Tick ==
    /\ mtime < MaxTime
    /\ mtime' = mtime + 1
    /\ UNCHANGED <<cmp, pc, hi, lo, since, value, deadline>>

\* The timer interrupt is taken: __metal_default_timer_handler, which reads
\* the time first.
Interrupt ==
    /\ Pending
    /\ pc["isr"] = "idle"
    /\ Goto("isr", "hi")
    /\ since' = [since EXCEPT !["isr"] = mtime]
    /\ UNCHANGED <<mtime, cmp, hi, lo, value, deadline>>

-----------------------------------------------------------------------------
(* __metal_clint0_mtime_get. *)

BeginRead ==
    /\ Runs("thread") /\ pc["thread"] = "idle"
    /\ Goto("thread", "hi")
    /\ since' = [since EXCEPT !["thread"] = mtime]
    /\ UNCHANGED <<mtime, cmp, hi, lo, value, deadline>>

ReadHi(a) ==
    /\ Runs(a) /\ pc[a] = "hi"
    /\ hi' = [hi EXCEPT ![a] = Hi(mtime)]
    /\ Goto(a, "lo")
    /\ UNCHANGED <<mtime, cmp, lo, since, value, deadline>>

ReadLo(a) ==
    /\ Runs(a) /\ pc[a] = "lo"
    /\ lo' = [lo EXCEPT ![a] = Lo(mtime)]
    /\ Goto(a, "again")
    /\ UNCHANGED <<mtime, cmp, hi, since, value, deadline>>

\* "Guard against rollover when reading": once more if the high word changed.
Recheck(a) ==
    /\ Runs(a) /\ pc[a] = "again"
    /\ Goto(a, IF Hi(mtime) # hi[a] THEN "hi"
               ELSE IF a = "isr" THEN "rearm" ELSE "read")
    /\ UNCHANGED <<mtime, cmp, hi, lo, since, value, deadline>>

\* An actor's locals are 0 when it does not use them.
ForgetRead(a) ==
    /\ hi' = [hi EXCEPT ![a] = 0]
    /\ lo' = [lo EXCEPT ![a] = 0]
    /\ since' = [since EXCEPT ![a] = 0]

EndRead ==
    /\ Runs("thread") /\ pc["thread"] = "read"
    /\ ForgetRead("thread")
    /\ Goto("thread", "idle")
    /\ UNCHANGED <<mtime, cmp, value, deadline>>

-----------------------------------------------------------------------------
(* __metal_driver_riscv_clint0_mtimecmp_set. *)

BeginSet(t) ==
    /\ Runs("thread") /\ pc["thread"] = "idle"
    /\ value' = [value EXCEPT !["thread"] = t]
    /\ Goto("thread", "mask")
    /\ UNCHANGED <<mtime, cmp, hi, lo, since, deadline>>

\* The default handler asks for the next interrupt.
Rearm ==
    /\ pc["isr"] = "rearm"
    /\ value' = [value EXCEPT !["isr"] = Join(hi["isr"], lo["isr"]) + Period]
    /\ ForgetRead("isr")
    /\ Goto("isr", "mask")
    /\ UNCHANGED <<mtime, cmp, deadline>>

MaskHigh(a) ==
    /\ Runs(a) /\ pc[a] = "mask"
    /\ cmp' = [cmp EXCEPT !.hi = Top]
    /\ Goto(a, "low")
    /\ UNCHANGED <<mtime, hi, lo, since, value, deadline>>

WriteLow(a) ==
    /\ Runs(a) /\ pc[a] = "low"
    /\ cmp' = [cmp EXCEPT !.lo = Lo(value[a])]
    /\ Goto(a, "high")
    /\ UNCHANGED <<mtime, hi, lo, since, value, deadline>>

WriteHigh(a) ==
    /\ Runs(a) /\ pc[a] = "high"
    /\ cmp' = [cmp EXCEPT !.hi = Hi(value[a])]
    /\ deadline' = value[a]
    /\ value' = [value EXCEPT ![a] = 0]
    /\ Goto(a, "idle")
    /\ UNCHANGED <<mtime, hi, lo, since>>

\* A CLIC that has the timer takes the same steps: __metal_clic0_mtime_get and
\* __metal_driver_sifive_clic0_mtimecmp_set (sifive_clic0.c).
GetStep(a) == ReadHi(a) \/ ReadLo(a) \/ Recheck(a)
SetStep(a) == MaskHigh(a) \/ WriteLow(a) \/ WriteHigh(a)

Next ==
    \/ Tick \/ Interrupt \/ BeginRead \/ EndRead \/ Rearm
    \/ \E a \in Actors : GetStep(a) \/ SetStep(a)
    \/ \E t \in Times : BeginSet(t)

IsrStep == GetStep("isr") \/ Rearm \/ SetStep("isr")

\* What has begun goes on.  An interrupt that is pending again and again is
\* taken: the hart looks before every instruction, so that a thread that sets
\* one past deadline after the other does not keep it out for ever.
Fairness == SF_vars(Interrupt) /\ WF_vars(IsrStep) /\ WF_vars(SetStep("thread"))

Spec == Init /\ [][Next]_vars /\ Fairness

-----------------------------------------------------------------------------

Words == 0 .. Top

TypeOK ==
    /\ mtime \in Times
    /\ cmp \in [hi : Words, lo : Words]
    /\ pc \in [Actors -> {"idle", "hi", "lo", "again", "read", "rearm",
                          "mask", "low", "high"}]
    /\ hi \in [Actors -> Words] /\ lo \in [Actors -> Words]
    /\ since \in [Actors -> Times]
    /\ value \in [Actors -> Deadlines]
    /\ deadline \in Deadlines \cup {Join(Top, Top)}

Writing(a) == pc[a] \in {"mask", "low", "high"}

\* The time a read returns is one the counter had while the read ran, although
\* the counter rolls over its low word between the accesses and the timer
\* handler runs in the middle of them.
ReadIsCurrent ==
    \A a \in Actors : pc[a] \in {"read", "rearm"} =>
        since[a] <= Join(hi[a], lo[a]) /\ Join(hi[a], lo[a]) <= mtime

\* "Need to be careful about sequencing to avoid triggering spurious
\* interrupts" (riscv_clint0.c): the interrupt is pending only if the time
\* last set, or a time that is being set, has come.
NoSpuriousInterrupt ==
    Pending => \/ mtime >= deadline
               \/ \E a \in Actors : Writing(a) /\ mtime >= value[a]

\* What was set last is what the register holds once no write is under way.
CompareIsDeadline ==
    (\A a \in Actors : ~Writing(a)) => Join(cmp.hi, cmp.lo) = deadline

\* A thread half-way through a write of mtimecmp, its high word masked, is not
\* interrupted by the timer: no update of the handler is overwritten by half.
HandlerFindsWholeCompare ==
    [][Interrupt => pc["thread"] \notin {"low", "high"}]_vars

\* No deadline is missed: when it has come, the handler runs, or somebody has
\* set a later one.
DeadlineIsHonoured ==
    mtime >= deadline ~> (pc["isr"] # "idle" \/ mtime < deadline)
=============================================================================
