------------------------------ MODULE HartSync ------------------------------
(***************************************************************************)
(* Start-up of a machine with several harts: _start of gloss/crt0.S, the   *)
(* barrier of src/synchronize_harts.c and the inter-processor interrupts   *)
(* the program sends once it runs.  The barrier and the interrupts share   *)
(* the MSIP registers.  One action is one access to memory or to a CSR     *)
(* that another hart, or the interrupt logic of the same one, can observe. *)
(***************************************************************************)
EXTENDS Integers

CONSTANTS N,          \* __METAL_DT_MAX_HARTS
          BootHart,   \* __metal_boot_hart
          Senders,    \* the harts whose program sends interrupts to others
          WeakStores  \* TRUE: a store to memory may become visible after a
                      \* later store to a device, as RVWMO allows

ASSUME HartSyncAssumption ==
    /\ N \in Nat /\ N > 1
    /\ BootHart \in 0 .. N-1
    /\ Senders \subseteq 0 .. N-1
    /\ WeakStores \in BOOLEAN

VARIABLES pc,       \* where each hart is
          msip,     \* the software-interrupt register of each hart
          i,        \* the loop counter of hart 0
          init,     \* how many phases of the image's initialisation have run
          visible,  \* the phases whose stores every hart can see
          gie,      \* mstatus.MIE of each hart
          sie       \* mie.MSIE of each hart

vars == <<pc, msip, i, init, visible, gie, sie>>

Harts == 0 .. N-1

\* 1 .data, 2 ITIM, 3 LIM, 4 .bss, 5 libc constructors, 6 Metal constructors.
LastPhase == 6
Phases == 1 .. LastPhase

Init ==
    /\ pc = [h \in Harts |-> "start"]
    /\ msip = [h \in Harts |-> 0]
    /\ i = 1
    /\ init = 0
    /\ visible = {}
    /\ gie = [h \in Harts |-> FALSE]
    /\ sie = [h \in Harts |-> FALSE]

Goto(h, l) == pc' = [pc EXCEPT ![h] = l]

BarrierEntry(h) == IF h = 0 THEN "await" ELSE "announce"

-----------------------------------------------------------------------------
(* Steps the code does not take, each one mistake away from the step of    *)
(* the same shape below: what the properties are there to notice.          *)

LoopOneTooFar(l) ==
    /\ i' = IF i = N THEN 1 ELSE i + 1
    /\ pc' = IF i = N THEN [pc EXCEPT ![0] = l] ELSE pc

\* Hart 0 steps its loop over the other harts and goes on to l after the last.
StepLoop(l) ==
    /\ i' = IF i = N-1 THEN 1 ELSE i + 1
    /\ pc' = IF i = N-1 THEN [pc EXCEPT ![0] = l] ELSE pc

AllHartsSkipDisable(h) ==
    /\ pc[h] = "disable"
    /\ Goto(h, BarrierEntry(h))
    /\ UNCHANGED <<msip, i, init, visible, gie, sie>>

AwaitOneHart ==
    /\ pc[0] = "await" /\ msip[i] # 0
    /\ i' = 1 /\ Goto(0, "clear")
    /\ UNCHANGED <<msip, init, visible, gie, sie>>

ClearAllButLast ==
    /\ pc[0] = "clear"
    /\ msip' = IF i = N-1 THEN msip ELSE [msip EXCEPT ![i] = 0]
    /\ StepLoop("setup")
    /\ UNCHANGED <<init, visible, gie, sie>>

SetupKeepsMie(h) ==
    /\ pc[h] = "setup"
    /\ Goto(h, "main")
    /\ UNCHANGED <<msip, i, init, visible, gie, sie>>

BootHartAnnouncesFirst(h) ==
    /\ pc[h] = "start"
    /\ Goto(h, "disable")
    /\ UNCHANGED <<msip, i, init, visible, gie, sie>>

-----------------------------------------------------------------------------
(* _start up to the barrier. *)

SelectBootHart(h) ==
    /\ pc[h] = "start"
    /\ Goto(h, IF h = BootHart THEN "init" ELSE "disable")
    /\ UNCHANGED <<msip, i, init, visible, gie, sie>>

\* One phase of the initialisation.  A Metal constructor, the last phase, may
\* leave software interrupts enabled.
InitPhase(h) ==
    /\ pc[h] = "init"
    /\ init' = init + 1
    /\ visible' = IF WeakStores THEN visible ELSE visible \cup {init'}
    /\ \E on \in BOOLEAN :
          /\ on => init' = LastPhase
          /\ gie' = [gie EXCEPT ![h] = on]
          /\ sie' = [sie EXCEPT ![h] = on]
    /\ Goto(h, IF init' = LastPhase THEN "disable" ELSE "init")
    /\ UNCHANGED <<msip, i>>

\* The store buffer of the boot hart writes one phase back.
Drain(p) ==
    /\ p \in (1 .. init) \ visible
    /\ visible' = visible \cup {p}
    /\ UNCHANGED <<pc, msip, i, init, gie, sie>>

-----------------------------------------------------------------------------
(* __metal_synchronize_harts. *)

\* csrc mstatus, MIE.
DisableInterrupts(h) ==
    /\ pc[h] = "disable"
    /\ gie' = [gie EXCEPT ![h] = FALSE]
    /\ Goto(h, BarrierEntry(h))
    /\ UNCHANGED <<msip, i, init, visible, sie>>

AwaitHart ==
    /\ pc[0] = "await"
    /\ msip[i] # 0
    /\ StepLoop("clear")
    /\ UNCHANGED <<msip, init, visible, gie, sie>>

ClearHart ==
    /\ pc[0] = "clear"
    /\ msip' = [msip EXCEPT ![i] = 0]
    /\ StepLoop("setup")
    /\ UNCHANGED <<init, visible, gie, sie>>

Announce(h) ==
    /\ pc[h] = "announce"
    /\ msip' = [msip EXCEPT ![h] = 1]
    /\ Goto(h, "fence")
    /\ UNCHANGED <<i, init, visible, gie, sie>>

\* fence w,rw: the stores of the hart are visible before it goes on.
Fence(h) ==
    /\ pc[h] = "fence"
    /\ h = BootHart => visible = Phases
    /\ Goto(h, "spin")
    /\ UNCHANGED <<msip, i, init, visible, gie, sie>>

LeaveSpin(h) ==
    /\ pc[h] = "spin"
    /\ msip[h] # 1
    /\ Goto(h, "setup")
    /\ UNCHANGED <<msip, i, init, visible, gie, sie>>

-----------------------------------------------------------------------------
(* _start after the barrier, and the program. *)

\* "Disable and clear all interrupt sources"; MSIP is not cleared by csrc mip.
Setup(h) ==
    /\ pc[h] = "setup"
    /\ sie' = [sie EXCEPT ![h] = FALSE]
    /\ Goto(h, "main")
    /\ UNCHANGED <<msip, i, init, visible, gie>>

\* metal_cpu_software_set_ipi by the program of a hart, and the answer to it.
SendIpi(h, to) ==
    /\ h \in Senders
    /\ pc[h] = "main"
    /\ msip' = [msip EXCEPT ![to] = 1]
    /\ UNCHANGED <<pc, i, init, visible, gie, sie>>

AnswerIpi(h) ==
    /\ pc[h] = "main"
    /\ msip[h] = 1
    /\ msip' = [msip EXCEPT ![h] = 0]
    /\ UNCHANGED <<pc, i, init, visible, gie, sie>>

\* Every hart runs its program, the secondary ones in the wfi loop.
Running ==
    /\ \A h \in Harts : pc[h] = "main"
    /\ UNCHANGED vars

StartStep(h) ==
    \/ SelectBootHart(h) \/ InitPhase(h)
    \/ DisableInterrupts(h) \/ Announce(h) \/ Fence(h) \/ LeaveSpin(h)
    \/ h = 0 /\ (AwaitHart \/ ClearHart)
    \/ Setup(h)

Next ==
    \/ \E h \in Harts : StartStep(h) \/ AnswerIpi(h)
    \/ \E h, to \in Harts : SendIpi(h, to)
    \/ \E p \in Phases : Drain(p)
    \/ Running

\* A hart that can take a step takes one, and a store buffer drains.
Fairness ==
    /\ \A h \in Harts : WF_vars(StartStep(h))
    /\ \A p \in Phases : WF_vars(Drain(p))

SafeSpec == Init /\ [][Next]_vars

Spec == SafeSpec /\ Fairness

-----------------------------------------------------------------------------

Labels == {"start", "init", "disable", "await", "clear", "announce", "fence",
           "spin", "setup", "main"}

TypeOK ==
    /\ pc \in [Harts -> Labels]
    /\ msip \in [Harts -> {0, 1}]
    /\ i \in 1 .. N-1
    /\ init \in 0 .. LastPhase
    /\ visible \subseteq 1 .. init
    /\ gie \in [Harts -> BOOLEAN]
    /\ sie \in [Harts -> BOOLEAN]

\* A hart has come to the barrier, and has left it.
Arrived(h) == pc[h] \notin {"start", "init", "disable", "announce"}
Released(h) == pc[h] \in {"setup", "main"}

\* "Synchronize harts so that secondary harts wait until hart 0 finishes
\* initializing" (crt0.S): a hart leaves the barrier only after the boot hart
\* has run every phase and after every other hart has come to it, whichever
\* hart boots and whatever the harts that left already do to the MSIPs.
NoEarlyStart ==
    \A h \in Harts : Released(h) =>
        init = LastPhase /\ \A g \in Harts : Arrived(g)

\* Harts wait "for hart 0 to finish copying the datat section, zeroing the BSS,
\* and running the libc contstructors" (synchronize_harts.c:14): a hart that
\* leaves the barrier sees all the stores that another made to initialise the
\* image.  With weak stores it need not: the hart that releases the others stores
\* to their MSIPs with no fence before, and the only fence is behind the MSIP
\* store of the others.
ImageVisible ==
    \A h \in Harts \ {BootHart} : Released(h) => visible = Phases

\* "Disable machine interrupts as a precaution" (synchronize_harts.c): the
\* MSIP a hart raises to announce itself is never taken as an interrupt,
\* although a constructor on the boot hart may have enabled it.  (It would
\* go to early_trap_vector or end in metal_shutdown.)
NoTrapInStartUp ==
    \A h \in Harts : pc[h] # "main" => ~(gie[h] /\ sie[h] /\ msip[h] = 1)

\* A program starts with interrupts off and, unless another program has sent
\* one, with no software interrupt left over from the barrier.
QuietStart ==
    \A h \in Harts : pc[h] = "main" =>
        ~gie[h] /\ ~sie[h] /\ (Senders = {} => msip[h] = 0)

\* Every hart reaches its program ("Wait for hart 0 to clear the MSIP bit",
\* synchronize_harts.c: hart 0 clears it, and the hart goes on).
EveryHartStarts == \A h \in Harts : <>(pc[h] = "main")

\* The barrier implements the abstract one, its liveness included.
Barrier == INSTANCE StartBarrier WITH
    ready <- init = LastPhase,
    arrived <- {h \in Harts : Arrived(h)},
    released <- {h \in Harts : Released(h)}

BarrierSpec == Barrier!Spec
BarrierSafeSpec == Barrier!SafeSpec
=============================================================================
