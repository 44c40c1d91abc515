-------------------------------- MODULE Heap --------------------------------
(***************************************************************************)
(* The break of the C library's heap, gloss/sys_sbrk.c, with the scrubbing *)
(* of what is handed out, src/scrub.S.  Addresses are bytes; End stands    *)
(* for the first byte past the heap, which is somebody else's.             *)
(***************************************************************************)
EXTENDS Integers

CONSTANTS Start, End,   \* metal_segment_heap_target_start and _end
          Incs,         \* the increments that programs ask for
          Brks          \* TRUE: programs also move the break with _brk

HeapAssumption ==
    /\ Start \in Nat /\ End \in Nat /\ Start <= End
    /\ Incs \subseteq Int
    /\ Brks \in BOOLEAN

VARIABLES brk,   \* __brk
          mem,   \* what a byte holds: what it did at reset, 0, or data
          own    \* the bytes that the program has been given and not given back

vars == <<brk, mem, own>>

Bytes == Start .. End

Init ==
    /\ brk = Start
    /\ mem = [a \in Bytes |-> IF a = End THEN "data" ELSE "raw"]
    /\ own = {}

\* metal_mem_scrub tests the size after a store: at least one byte is cleared.
Scrubbed(a, size) == a .. a + (IF size > 0 THEN size ELSE 1) - 1

\* "Don't move the break past the end of the heap"; it does not reach it either.
Fits(incr) == Start # End /\ brk + incr < End

\* Programs give back no more than lies between the heap's start and the break.
MayAsk(incr) == brk + incr >= Start

\* What a program has when the break has moved from where it was to b.
Given(b) == {a \in Bytes : a < b /\ (a \in own \/ a >= brk)}

\* _sbrk, when it returns the old break; so it does when memory is given back
\* after a call that failed, though the break is not the program's then ...
Sbrk(incr) ==
    /\ MayAsk(incr) /\ Fits(incr)
    /\ brk' = brk + incr
    /\ mem' = [a \in Bytes |-> IF a \in Scrubbed(brk, incr) THEN "zero"
                                                            ELSE mem[a]]
    /\ own' = Given(brk + incr)

\* ... and when it returns -1: the break has moved to the end all the same.
SbrkFails(incr) ==
    /\ MayAsk(incr) /\ ~Fits(incr)
    /\ brk' = End
    /\ UNCHANGED <<mem, own>>

\* _brk checks nothing; a program gives back with it what it has.
Brk(a) ==
    /\ Brks /\ (a = Start \/ a - 1 \in own)
    /\ brk' = a /\ own' = {b \in own : b < a}
    /\ UNCHANGED mem

\* The program uses its memory.
Write(a) ==
    /\ a \in own
    /\ mem' = [mem EXCEPT ![a] = "data"]
    /\ UNCHANGED <<brk, own>>

Next ==
    \/ \E incr \in Incs : Sbrk(incr) \/ SbrkFails(incr)
    \/ \E a \in Bytes : Brk(a) \/ Write(a)

Spec == Init /\ [][Next]_vars

-----------------------------------------------------------------------------

TypeOK ==
    /\ brk \in Bytes
    /\ mem \in [Bytes -> {"raw", "zero", "data"}]
    /\ own \subseteq Bytes

\* "Don't move the break past the end of the heap" (sys_sbrk.c): whatever calls
\* fail or give back in between, what the program has lies before the break,
\* so that it is not handed out again, and before the end of the heap.
StaysInTheHeap == \A a \in own : a < brk /\ a < End

\* "Scrub out allocated memory to avoid spurious ECC errors" (sys_sbrk.c): the
\* program has nothing that was not cleared or written since reset.
NothingRaw == \A a \in own : mem[a] # "raw"

\* Memory that the program keeps is not scrubbed again: neither by a call that
\* hands out more, nor by one that takes back, which scrubs all the same, nor by
\* one that fails.  New memory is 0, also where the program has had it before
\* and given it back.  The byte past the heap is left alone by all calls but one
\* that gives back while the break is at the end, where a failed call has left
\* it: that one scrubs a byte at the old break.
MemoryIsKept ==
    [][/\ \A a \in own \cap own' : mem[a] = "data" => mem'[a] = "data"
       /\ \A a \in own' \ own : mem'[a] = "zero"
       /\ mem'[End] # mem[End] => brk = End /\ brk' < End]_vars

=============================================================================
