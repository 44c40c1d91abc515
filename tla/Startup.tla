------------------------------- MODULE Startup ------------------------------
(***************************************************************************)
(* From _start to the program and back, on every hart: the constructors    *)
(* and destructors of src/init.c, run by the boot hart from                *)
(* src/gloss/crt0.S, and what crt0.S does to each hart before and after    *)
(* the barrier, of which StartBarrier says what HartSync implements.       *)
(***************************************************************************)
EXTENDS Naturals, Sequences

CONSTANTS Harts, BootHart,
          Ctors, Dtors,  \* how many there are, in the order of the linker
          Weak           \* may the application replace metal_init_run?

StartupAssumption ==
    /\ BootHart \in Harts /\ {Ctors, Dtors} \subseteq Nat
    /\ Weak \in BOOLEAN

VARIABLES pc,          \* where each hart is
          init, fini,  \* init_done and fini_done, and how far the walk has come
          run,         \* metal_init_run calls metal_init; it is a weak symbol
          constructed, destructed,   \* what has been called, in order
          prefetcher,  \* the harts whose prefetcher is set up
          mie,         \* the harts with an interrupt enabled
          ready, arrived, released  \* StartBarrier

barrier == <<ready, arrived, released>>
walks == <<init, fini, constructed, destructed>>
vars == <<pc, walks, run, prefetcher, mie, barrier>>

Barrier == INSTANCE StartBarrier

Walk == [done : BOOLEAN, next : Nat]

Init ==
    /\ pc = [h \in Harts |-> IF h = BootHart THEN "image" ELSE "sync"]
    /\ init = [done |-> FALSE, next |-> 1]
    /\ fini = [done |-> FALSE, next |-> 1]
    /\ run \in IF Weak THEN BOOLEAN ELSE {TRUE}
    /\ constructed = <<>> /\ destructed = <<>>
    /\ prefetcher = {} /\ mie \in SUBSET Harts
    /\ Barrier!Init

Goto(h, l) == pc' = [pc EXCEPT ![h] = l]

-----------------------------------------------------------------------------
(* metal_init and metal_fini, and who calls them. *)

\* A form it must not take: the flag is set when all have run.
FlagAtTheEnd(walk, last) == [walk EXCEPT !.done = last = 0]

\* The test and the set of the flag; the walk starts at the first.
Begun(walk, last) == [walk EXCEPT !.done = TRUE]

\* The boot hart, with the image copied, calls metal_init_run ...
InitRun(h) ==
    /\ pc[h] = "image"
    /\ Goto(h, IF run THEN "init" ELSE "ready")
    /\ UNCHANGED <<walks, run, prefetcher, mie, barrier>>

\* ... which calls metal_init, as a program may that has replaced it, or that
\* does not know.  The prefetcher is set up by name, before the constructors.
MetalInit(h) ==
    /\ pc[h] \in {"init", "main init"}
    /\ init' = Begun(init, Ctors)
    /\ prefetcher' = IF init.done THEN prefetcher ELSE prefetcher \cup {h}
    /\ Goto(h, IF init.done THEN (IF pc[h] = "init" THEN "ready" ELSE "main")
               ELSE (IF pc[h] = "init" THEN "ctors" ELSE "main ctors"))
    /\ UNCHANGED <<fini, constructed, destructed, run, mie, barrier>>

\* A constructor runs; it may enable an interrupt.
Ctor(h) ==
    /\ pc[h] \in {"ctors", "main ctors"}
    /\ init.next <= Ctors
    /\ constructed' = Append(constructed, init.next)
    /\ init' = [init EXCEPT !.next = @ + 1]
    /\ mie' \in {mie, mie \cup {h}}
    /\ UNCHANGED <<pc, fini, destructed, run, prefetcher, barrier>>

\* It may call metal_init, which finds the flag and returns.
CtorCallsInit(h) ==
    /\ pc[h] \in {"ctors", "main ctors"}
    /\ 1 < init.next /\ init.next <= Ctors
    /\ init' = IF init.done THEN init ELSE [init EXCEPT !.next = 1]
    /\ UNCHANGED <<pc, fini, constructed, destructed, run, prefetcher, mie,
                   barrier>>

CtorsEnd(h) ==
    /\ pc[h] \in {"ctors", "main ctors"}
    /\ init.next = Ctors + 1
    /\ Goto(h, IF pc[h] = "ctors" THEN "ready" ELSE "main")
    /\ UNCHANGED <<walks, run, prefetcher, mie, barrier>>

-----------------------------------------------------------------------------
(* crt0.S, from _skip_init to the program. *)

Ready(h) ==
    /\ pc[h] = "ready"
    /\ Barrier!FinishInit
    /\ Goto(h, "sync")
    /\ UNCHANGED <<walks, run, prefetcher, mie>>

Arrive(h) ==
    /\ pc[h] = "sync"
    /\ Barrier!Arrive(h)
    /\ Goto(h, "wait")
    /\ UNCHANGED <<walks, run, prefetcher, mie>>

Leave(h) ==
    /\ pc[h] = "wait"
    /\ Barrier!Release(h)
    /\ Goto(h, "clear")
    /\ UNCHANGED <<walks, run, prefetcher, mie>>

\* What constructors enabled goes too.
ClearInterrupts(h) ==
    /\ pc[h] = "clear"
    /\ mie' = mie \ {h}
    /\ Goto(h, "secondary")
    /\ UNCHANGED <<walks, run, prefetcher, barrier>>

\* A form it must not take: only the boot hart's is set up.
OnTheBootHart(h) == IF h = BootHart THEN {h} ELSE {}

OnTheHart(h) == {h}

\* metal_secondary_init, on every hart, and secondary_main: the boot hart calls
\* main, the others wait for interrupts.
SecondaryInit(h) ==
    /\ pc[h] = "secondary"
    /\ prefetcher' = prefetcher \cup OnTheHart(h)
    /\ Goto(h, IF h = BootHart THEN "main" ELSE "wfi")
    /\ UNCHANGED <<walks, run, mie, barrier>>

-----------------------------------------------------------------------------
(* main, which may call metal_init or metal_fini itself, and exit. *)

CallInit(h) ==
    /\ pc[h] = "main"
    /\ Goto(h, "main init")
    /\ UNCHANGED <<walks, run, prefetcher, mie, barrier>>

CallFini(h) ==
    /\ pc[h] = "main"
    /\ \E next \in {"main fini", "fini"} : Goto(h, next)
    /\ UNCHANGED <<walks, run, prefetcher, mie, barrier>>

MetalFini(h) ==
    /\ pc[h] \in {"main fini", "fini"}
    /\ fini' = Begun(fini, Dtors)
    /\ Goto(h, IF fini.done THEN (IF pc[h] = "fini" THEN "exit" ELSE "main")
               ELSE (IF pc[h] = "fini" THEN "dtors" ELSE "main dtors"))
    /\ UNCHANGED <<init, constructed, destructed, run, prefetcher, mie, barrier>>

Dtor(h) ==
    /\ pc[h] \in {"dtors", "main dtors"}
    /\ fini.next <= Dtors
    /\ destructed' = Append(destructed, fini.next)
    /\ fini' = [fini EXCEPT !.next = @ + 1]
    /\ UNCHANGED <<pc, init, constructed, run, prefetcher, mie, barrier>>

DtorsEnd(h) ==
    /\ pc[h] \in {"dtors", "main dtors"}
    /\ fini.next = Dtors + 1
    /\ Goto(h, IF pc[h] = "dtors" THEN "exit" ELSE "main")
    /\ UNCHANGED <<walks, run, prefetcher, mie, barrier>>

Next == \E h \in Harts :
    \/ InitRun(h) \/ MetalInit(h) \/ Ctor(h) \/ CtorCallsInit(h) \/ CtorsEnd(h)
    \/ Ready(h) \/ Arrive(h) \/ Leave(h) \/ ClearInterrupts(h)
    \/ SecondaryInit(h)
    \/ CallInit(h) \/ CallFini(h) \/ MetalFini(h) \/ Dtor(h) \/ DtorsEnd(h)

Spec == Init /\ [][Next]_vars

-----------------------------------------------------------------------------

Pcs == {"image", "init", "ctors", "ready", "sync", "wait", "clear", "secondary",
        "wfi", "main", "main init", "main ctors", "main fini", "main dtors",
        "fini", "dtors", "exit"}

TypeOK ==
    /\ pc \in [Harts -> Pcs] /\ {init, fini} \subseteq Walk /\ run \in BOOLEAN
    /\ {prefetcher, mie, arrived, released} \subseteq SUBSET Harts
    /\ ready \in BOOLEAN

\* Each constructor and destructor runs at most once and in the order that the
\* linker gave them, though metal_init and metal_fini are called from several
\* places, from within a constructor too.
EachRunsOnce ==
    /\ \A i \in DOMAIN constructed : constructed[i] = i
    /\ \A i \in DOMAIN destructed : destructed[i] = i

Program == {"wfi", "main", "main init", "main ctors", "main fini",
            "main dtors", "fini", "dtors", "exit"}

\* When a hart comes to its program its prefetcher is set up; unless the
\* application has replaced metal_init_run, the constructors have run, on
\* whichever hart it is, and no interrupt is enabled, be it by a constructor.
ProgramFindsAllSetUp ==
    \A h \in Harts : pc[h] \in Program =>
        /\ h \in prefetcher
        /\ run => Len(constructed) = Ctors /\ h \notin mie

\* When the program is over all destructors have run.
DestructorsRun ==
    \A h \in Harts : pc[h] = "exit" => Len(destructed) = Dtors

=============================================================================
