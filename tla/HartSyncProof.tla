---------------------------- MODULE HartSyncProof ----------------------------
(***************************************************************************)
(* Proofs about HartSync for every number of harts, every boot hart, every *)
(* set of senders and both store orders.  The inductive invariant says     *)
(* how far hart 0 must have come for another hart to be where it is: an    *)
(* MSIP is raised only by a hart that came to the barrier, so hart 0 counts*)
(* arrivals, and an MSIP is lowered only once hart 0 has counted them all. *)
(***************************************************************************)
EXTENDS HartSync, TLAPS

BootInv ==
    /\ pc[BootHart] \in {"start", "init"} => init < LastPhase
    /\ pc[BootHart] \notin {"start", "init"} => init = LastPhase
    /\ \A h \in Harts : pc[h] = "init" => h = BootHart

SideInv ==
    \A h \in Harts :
        /\ pc[h] \in {"await", "clear"} => h = 0
        /\ pc[h] \in {"announce", "fence", "spin"} => h # 0

MsipInv == \A h \in Harts : msip[h] = 1 => Arrived(h)

Counted == pc[0] \in {"clear", "setup", "main"}

CountInv ==
    /\ pc[0] \in {"start", "init", "disable"} => i = 1
    /\ pc[0] = "await" => \A g \in 1 .. i-1 : Arrived(g)
    /\ Counted => \A g \in Harts : Arrived(g)

LowerInv ==
    \A h \in Harts :
        /\ pc[h] \in {"fence", "spin"} /\ msip[h] # 1 => Counted
        /\ Released(h) => Counted

QuietInv ==
    /\ \A h \in Harts : gie[h] => pc[h] \in {"init", "disable"}
    /\ \A h \in Harts : sie[h] => pc[h] # "main"
    /\ Senders = {} => msip[0] = 0
    /\ Senders = {} => \A h \in Harts : Released(h) => msip[h] = 0

SyncInv == BootInv /\ SideInv /\ MsipInv /\ CountInv /\ LowerInv

IInv == TypeOK /\ SyncInv /\ QuietInv

-----------------------------------------------------------------------------

LEMMA InitInv == Init => IInv
BY HartSyncAssumption, SMT
   DEF Init, IInv, TypeOK, SyncInv, BootInv, SideInv, MsipInv, CountInv, Counted,
       LowerInv, QuietInv, Arrived, Released, Harts, Labels, LastPhase

\* No step leaves the types.
LEMMA TypeStep == IInv /\ [Next]_vars => TypeOK'
<1> SUFFICES ASSUME IInv, [Next]_vars PROVE TypeOK'
    OBVIOUS
<1> USE HartSyncAssumption DEF TypeOK, Goto, Harts, Labels, LastPhase
<1>t. TypeOK
    BY DEF IInv
<1>1. ASSUME NEW h \in Harts, SelectBootHart(h) PROVE TypeOK'
    BY <1>1, <1>t DEF SelectBootHart
<1>2. ASSUME NEW h \in Harts, InitPhase(h) PROVE TypeOK'
    <2>1. init < LastPhase
        BY <1>2 DEF InitPhase, IInv, SyncInv, BootInv
    <2>2. /\ init' \in 1 .. LastPhase /\ init' = init + 1
          /\ visible' = visible \/ visible' = visible \cup {init'}
        BY <1>2, <1>t, <2>1 DEF InitPhase
    <2>3. visible' \subseteq 1 .. init'
        <3>1. visible \subseteq 1 .. init /\ init \in Nat
            BY <1>t
        <3>2. \A p \in visible' : p \in visible \/ p = init'
            BY <2>2
        <3>3. init' = init + 1
            BY <2>2
        <3>4. ASSUME NEW p \in visible' PROVE p \in 1 .. init'
            <4>1. CASE p = init'
                BY <4>1, <3>1, <3>3
            <4>2. CASE p \in visible
                BY <4>2, <3>1, <3>3
            <4> QED
                BY <4>1, <4>2, <3>2
        <3> QED
            BY <3>4
    <2>4. PICK on \in BOOLEAN : /\ gie' = [gie EXCEPT ![h] = on]
                                /\ sie' = [sie EXCEPT ![h] = on]
        BY <1>2, Zenon DEF InitPhase
    <2>5. gie' \in [Harts -> BOOLEAN] /\ sie' \in [Harts -> BOOLEAN]
        BY <2>4, <1>t
    <2>6. pc' \in [Harts -> Labels] /\ UNCHANGED <<msip, i>>
        BY <1>2, <1>t DEF InitPhase
    <2> QED
        BY <1>t, <2>2, <2>3, <2>5, <2>6
<1>3. ASSUME NEW h \in Harts, DisableInterrupts(h) PROVE TypeOK'
    BY <1>3, <1>t DEF DisableInterrupts, BarrierEntry
<1>4. ASSUME NEW h \in Harts, Announce(h) PROVE TypeOK'
    BY <1>4, <1>t DEF Announce
<1>5. ASSUME NEW h \in Harts, Fence(h) PROVE TypeOK'
    BY <1>5, <1>t DEF Fence
<1>6. ASSUME NEW h \in Harts, LeaveSpin(h) PROVE TypeOK'
    BY <1>6, <1>t DEF LeaveSpin
<1>7. CASE AwaitHart
    BY <1>7, <1>t DEF AwaitHart, StepLoop
<1>8. CASE ClearHart
    BY <1>8, <1>t DEF ClearHart, StepLoop
<1>9. ASSUME NEW h \in Harts, Setup(h) PROVE TypeOK'
    BY <1>9, <1>t DEF Setup
<1>10. ASSUME NEW h \in Harts, AnswerIpi(h) PROVE TypeOK'
    BY <1>10, <1>t DEF AnswerIpi
<1>11. ASSUME NEW h \in Harts, NEW to \in Harts, SendIpi(h, to) PROVE TypeOK'
    BY <1>11, <1>t DEF SendIpi
<1>12. ASSUME NEW p \in Phases, Drain(p) PROVE TypeOK'
    BY <1>12, <1>t DEF Drain
<1>13. CASE UNCHANGED vars
    BY <1>13, <1>t DEF vars
<1> QED
    BY <1>1, <1>2, <1>3, <1>4, <1>5, <1>6, <1>7, <1>8, <1>9, <1>10, <1>11, <1>12,
       <1>13 DEF Next, StartStep, Running

-----------------------------------------------------------------------------

\* Where a step moves a hart to, and what it leaves alone.
LEMMA BootStep == IInv /\ [Next]_vars => BootInv'
<1> SUFFICES ASSUME IInv, [Next]_vars PROVE BootInv'
    OBVIOUS
<1> USE HartSyncAssumption DEF BootInv, Goto, Harts, LastPhase
<1>t. TypeOK /\ BootInv /\ SideInv
    BY DEF IInv, SyncInv
<1>1. ASSUME NEW h \in Harts, SelectBootHart(h) PROVE BootInv'
    BY <1>1, <1>t DEF SelectBootHart, TypeOK
<1>2. ASSUME NEW h \in Harts, InitPhase(h) PROVE BootInv'
    BY <1>2, <1>t DEF InitPhase, TypeOK
<1>3. ASSUME NEW h \in Harts, DisableInterrupts(h) PROVE BootInv'
    BY <1>3, <1>t DEF DisableInterrupts, BarrierEntry, TypeOK
<1>4. ASSUME NEW h \in Harts,
             Announce(h) \/ Fence(h) \/ LeaveSpin(h) \/ Setup(h)
      PROVE  BootInv'
    BY <1>4, <1>t DEF Announce, Fence, LeaveSpin, Setup, TypeOK
<1>5. CASE AwaitHart \/ ClearHart
    BY <1>5, <1>t DEF AwaitHart, ClearHart, StepLoop, TypeOK
<1>6. ASSUME NEW h \in Harts, AnswerIpi(h) PROVE BootInv'
    BY <1>6, <1>t DEF AnswerIpi
<1>7. ASSUME NEW h \in Harts, NEW to \in Harts, SendIpi(h, to) PROVE BootInv'
    BY <1>7, <1>t DEF SendIpi
<1>8. ASSUME NEW p \in Phases, Drain(p) PROVE BootInv'
    BY <1>8, <1>t DEF Drain
<1>9. CASE UNCHANGED vars
    BY <1>9, <1>t DEF vars
<1> QED
    BY <1>1, <1>2, <1>3, <1>4, <1>5, <1>6, <1>7, <1>8, <1>9
       DEF Next, StartStep, Running

LEMMA SideStep == IInv /\ [Next]_vars => SideInv'
<1> SUFFICES ASSUME IInv, [Next]_vars PROVE SideInv'
    OBVIOUS
<1> USE HartSyncAssumption DEF SideInv, Goto, Harts, TypeOK
<1>t. TypeOK /\ SideInv
    BY DEF IInv, SyncInv
<1>1. ASSUME NEW h \in Harts, SelectBootHart(h) \/ InitPhase(h) PROVE SideInv'
    BY <1>1, <1>t DEF SelectBootHart, InitPhase
<1>2. ASSUME NEW h \in Harts, DisableInterrupts(h) PROVE SideInv'
    BY <1>2, <1>t DEF DisableInterrupts, BarrierEntry
<1>3. ASSUME NEW h \in Harts,
             Announce(h) \/ Fence(h) \/ LeaveSpin(h) \/ Setup(h)
      PROVE  SideInv'
    BY <1>3, <1>t DEF Announce, Fence, LeaveSpin, Setup
<1>4. CASE AwaitHart \/ ClearHart
    BY <1>4, <1>t DEF AwaitHart, ClearHart, StepLoop
<1>5. CASE UNCHANGED pc
    BY <1>5, <1>t
<1> QED
    BY <1>1, <1>2, <1>3, <1>4, <1>5
       DEF Next, StartStep, Running, AnswerIpi, SendIpi, Drain, vars

\* An MSIP is raised by its own hart at the barrier, or by a program, and no
\* program runs before hart 0 has counted every hart.
LEMMA MsipStep == IInv /\ [Next]_vars => MsipInv'
<1> SUFFICES ASSUME IInv, [Next]_vars PROVE MsipInv'
    OBVIOUS
<1> USE HartSyncAssumption DEF MsipInv, Goto, Harts, TypeOK, Arrived
<1>t. TypeOK /\ MsipInv /\ SideInv /\ CountInv /\ LowerInv
    BY DEF IInv, SyncInv
<1>1. ASSUME NEW h \in Harts, SelectBootHart(h) \/ InitPhase(h) PROVE MsipInv'
    BY <1>1, <1>t DEF SelectBootHart, InitPhase
<1>2. ASSUME NEW h \in Harts, DisableInterrupts(h) PROVE MsipInv'
    BY <1>2, <1>t DEF DisableInterrupts, BarrierEntry
<1>3. ASSUME NEW h \in Harts, Announce(h) PROVE MsipInv'
    BY <1>3, <1>t DEF Announce
<1>4. ASSUME NEW h \in Harts, Fence(h) \/ LeaveSpin(h) \/ Setup(h)
      PROVE  MsipInv'
    BY <1>4, <1>t DEF Fence, LeaveSpin, Setup
<1>5. CASE AwaitHart
    BY <1>5, <1>t DEF AwaitHart, StepLoop
<1>6. CASE ClearHart
    BY <1>6, <1>t DEF ClearHart, StepLoop
<1>7. ASSUME NEW h \in Harts, AnswerIpi(h) PROVE MsipInv'
    BY <1>7, <1>t DEF AnswerIpi
<1>8. ASSUME NEW h \in Harts, NEW to \in Harts, SendIpi(h, to) PROVE MsipInv'
    <2>1. \A g \in Harts : Arrived(g)
        BY <1>8, <1>t DEF SendIpi, LowerInv, CountInv, Counted, Released
    <2> QED
        BY <1>8, <1>t, <2>1 DEF SendIpi
<1>9. CASE UNCHANGED <<pc, msip>>
    BY <1>9, <1>t
<1> QED
    BY <1>1, <1>2, <1>3, <1>4, <1>5, <1>6, <1>7, <1>8, <1>9
       DEF Next, StartStep, Running, Drain, vars

\* A hart that came to the barrier does not come back.
LEMMA ArrivalIsFinal ==
    ASSUME IInv, [Next]_vars, NEW h \in Harts, Arrived(h)
    PROVE  Arrived(h)'
<1> USE HartSyncAssumption DEF Goto, Harts, TypeOK, Arrived
<1>t. TypeOK
    BY DEF IInv
<1>1. ASSUME NEW g \in Harts,
             \/ SelectBootHart(g) \/ InitPhase(g) \/ DisableInterrupts(g)
             \/ Announce(g) \/ Fence(g) \/ LeaveSpin(g) \/ Setup(g)
      PROVE  Arrived(h)'
    BY <1>1, <1>t DEF SelectBootHart, InitPhase, DisableInterrupts, Announce,
                      Fence, LeaveSpin, Setup
<1>2. CASE AwaitHart \/ ClearHart
    BY <1>2, <1>t DEF AwaitHart, ClearHart, StepLoop
<1>3. CASE UNCHANGED pc
    BY <1>3
<1> QED
    BY <1>1, <1>2, <1>3
       DEF Next, StartStep, Running, AnswerIpi, SendIpi, Drain, vars

LEMMA CountStep == IInv /\ [Next]_vars => CountInv'
<1> SUFFICES ASSUME IInv, [Next]_vars PROVE CountInv'
    OBVIOUS
<1> USE HartSyncAssumption DEF Harts
<1>t. TypeOK /\ SideInv /\ MsipInv /\ CountInv
    BY DEF IInv, SyncInv
<1>a. \A g \in Harts : Arrived(g) => Arrived(g)'
    BY ArrivalIsFinal
<1>1. CASE AwaitHart
    <2>1. i \in Harts /\ Arrived(i) /\ Arrived(0) /\ pc[0] = "await"
        BY <1>1, <1>t DEF AwaitHart, MsipInv, TypeOK, Arrived
    <2>2. \A g \in 1 .. i : Arrived(g)
        BY <2>1, <1>t DEF CountInv, TypeOK
    <2>3. CASE i = N-1
        <3>1. \A g \in Harts : Arrived(g)
            BY <2>1, <2>2, <2>3, HartSyncAssumption
        <3>2. pc'[0] = "clear"
            BY <1>1, <1>t, <2>3, HartSyncAssumption DEF AwaitHart, StepLoop, TypeOK
        <3> QED
            BY <3>1, <3>2, <1>a DEF CountInv
    <2>4. CASE i # N-1
        <3>1. i' = i + 1 /\ pc' = pc
            BY <1>1, <2>4 DEF AwaitHart, StepLoop
        <3>2. i \in 1 .. N-1 /\ N \in Nat
            BY <1>t, HartSyncAssumption DEF TypeOK
        <3>3. \A g \in 1 .. i'-1 : g \in 1 .. i /\ g \in Harts
            BY <3>1, <3>2
        <3>4. ~Counted' /\ pc'[0] = "await"
            BY <3>1, <2>1 DEF Counted
        <3> QED
            BY <3>3, <3>4, <2>2, <1>a DEF CountInv
    <2> QED
        BY <2>3, <2>4
<1>2. CASE ClearHart
    <2>1. pc[0] = "clear" /\ pc'[0] \in {"clear", "setup"}
        BY <1>2, <1>t, HartSyncAssumption DEF ClearHart, StepLoop, TypeOK
    <2> QED
        BY <2>1, <1>t, <1>a DEF CountInv, Counted
<1>3. ASSUME NEW h \in Harts,
             \/ SelectBootHart(h) \/ InitPhase(h) \/ Announce(h) \/ Fence(h)
             \/ LeaveSpin(h) \/ Setup(h)
      PROVE  CountInv'
    <2>1. /\ pc'[0] = "await" => pc[0] = "await"
          /\ pc'[0] \in {"start", "init", "disable"} =>
                pc[0] \in {"start", "init", "disable"}
          /\ Counted' => Counted
          /\ UNCHANGED i
        BY <1>3, <1>t, HartSyncAssumption
           DEF SelectBootHart, InitPhase, Announce, Fence, LeaveSpin, Setup, Goto,
               SideInv, TypeOK, Counted
    <2>2. \A g \in 1 .. i-1 : g \in Harts
        BY <1>t, HartSyncAssumption DEF TypeOK
    <2>3. pc'[0] \in {"start", "init", "disable"} => i' = 1
        BY <2>1, <1>t DEF CountInv
    <2> QED
        BY <2>1, <2>2, <2>3, <1>t, <1>a DEF CountInv
<1>4. ASSUME NEW h \in Harts, DisableInterrupts(h) PROVE CountInv'
    <2>1. CASE h = 0
        BY <2>1, <1>4, <1>t, HartSyncAssumption
           DEF DisableInterrupts, BarrierEntry, Goto, TypeOK, CountInv, Counted, IInv
    <2>2. CASE h # 0
        <3>1. pc'[0] = pc[0] /\ UNCHANGED i
            BY <2>2, <1>4, <1>t, HartSyncAssumption
               DEF DisableInterrupts, Goto, TypeOK
        <3>2. \A g \in 1 .. i-1 : g \in Harts
            BY <1>t, HartSyncAssumption DEF TypeOK
        <3> QED
            BY <3>1, <3>2, <1>t, <1>a DEF CountInv, Counted
    <2> QED
        BY <2>1, <2>2
<1>5. CASE UNCHANGED <<pc, i>>
    BY <1>5, <1>t DEF CountInv, Counted, Arrived
<1> QED
    BY <1>1, <1>2, <1>3, <1>4, <1>5
       DEF Next, StartStep, Running, AnswerIpi, SendIpi, Drain, vars

\* Hart 0 does not forget that it has counted every hart.
LEMMA CountedIsFinal ==
    ASSUME IInv, [Next]_vars, Counted
    PROVE  Counted'
<1> USE HartSyncAssumption DEF Goto, Harts, TypeOK, Counted
<1>t. TypeOK
    BY DEF IInv
<1>1. ASSUME NEW g \in Harts,
             \/ SelectBootHart(g) \/ InitPhase(g) \/ DisableInterrupts(g)
             \/ Announce(g) \/ Fence(g) \/ LeaveSpin(g) \/ Setup(g)
      PROVE  Counted'
    BY <1>1, <1>t DEF SelectBootHart, InitPhase, DisableInterrupts, Announce,
                      Fence, LeaveSpin, Setup
<1>2. CASE AwaitHart \/ ClearHart
    BY <1>2, <1>t DEF AwaitHart, ClearHart, StepLoop
<1>3. CASE UNCHANGED pc
    BY <1>3
<1> QED
    BY <1>1, <1>2, <1>3
       DEF Next, StartStep, Running, AnswerIpi, SendIpi, Drain, vars

LEMMA LowerStep == IInv /\ [Next]_vars => LowerInv'
<1> SUFFICES ASSUME IInv, [Next]_vars PROVE LowerInv'
    OBVIOUS
<1> USE HartSyncAssumption DEF Goto, Harts, TypeOK, Released
<1>t. TypeOK /\ SideInv /\ LowerInv
    BY DEF IInv, SyncInv
<1>c. Counted => Counted'
    BY CountedIsFinal
<1>1. ASSUME NEW h \in Harts,
             \/ SelectBootHart(h) \/ InitPhase(h) \/ DisableInterrupts(h)
             \/ Announce(h) \/ Fence(h) \/ LeaveSpin(h) \/ Setup(h)
      PROVE  LowerInv'
    BY <1>1, <1>t, <1>c
       DEF SelectBootHart, InitPhase, DisableInterrupts, BarrierEntry, Announce,
           Fence, LeaveSpin, Setup, LowerInv
<1>2. CASE AwaitHart
    BY <1>2, <1>t, <1>c DEF AwaitHart, StepLoop, LowerInv, Counted
<1>3. CASE ClearHart
    <2>1. Counted
        BY <1>3 DEF ClearHart, Counted
    <2> QED
        BY <2>1, <1>c DEF LowerInv
<1>4. ASSUME NEW h \in Harts, AnswerIpi(h) PROVE LowerInv'
    <2>1. Counted
        BY <1>4, <1>t DEF AnswerIpi, LowerInv
    <2> QED
        BY <2>1, <1>c DEF LowerInv
<1>5. ASSUME NEW h \in Harts, NEW to \in Harts, SendIpi(h, to) PROVE LowerInv'
    <2>1. Counted
        BY <1>5, <1>t DEF SendIpi, LowerInv
    <2> QED
        BY <2>1, <1>c DEF LowerInv
<1>6. CASE UNCHANGED <<pc, msip>>
    BY <1>6, <1>t DEF LowerInv, Counted
<1> QED
    BY <1>1, <1>2, <1>3, <1>4, <1>5, <1>6 DEF Next, StartStep, Running, Drain, vars

LEMMA QuietStep == IInv /\ [Next]_vars => QuietInv'
<1> SUFFICES ASSUME IInv, [Next]_vars PROVE QuietInv'
    OBVIOUS
<1> USE HartSyncAssumption DEF Goto, Harts, TypeOK, Released, QuietInv
<1>t. TypeOK /\ QuietInv /\ SideInv /\ BootInv
    BY DEF IInv, SyncInv
<1>1. ASSUME NEW h \in Harts, SelectBootHart(h) PROVE QuietInv'
    BY <1>1, <1>t DEF SelectBootHart
<1>2. ASSUME NEW h \in Harts, InitPhase(h) PROVE QuietInv'
    <2>1. PICK on \in BOOLEAN : /\ gie' = [gie EXCEPT ![h] = on]
                                /\ sie' = [sie EXCEPT ![h] = on]
        BY <1>2, Zenon DEF InitPhase
    <2>2. /\ pc[h] = "init" /\ UNCHANGED msip
          /\ pc' = [pc EXCEPT ![h] = pc'[h]] /\ pc'[h] \in {"init", "disable"}
        BY <1>2, <1>t DEF InitPhase
    <2> QED
        BY <2>1, <2>2, <1>t
<1>3. ASSUME NEW h \in Harts, DisableInterrupts(h) PROVE QuietInv'
    BY <1>3, <1>t DEF DisableInterrupts, BarrierEntry
<1>4. ASSUME NEW h \in Harts, Announce(h) PROVE QuietInv'
    BY <1>4, <1>t DEF Announce, SideInv
<1>5. ASSUME NEW h \in Harts, Fence(h) \/ LeaveSpin(h) \/ Setup(h)
      PROVE  QuietInv'
    BY <1>5, <1>t DEF Fence, LeaveSpin, Setup
<1>6. CASE AwaitHart
    BY <1>6, <1>t DEF AwaitHart, StepLoop
<1>7. CASE ClearHart
    BY <1>7, <1>t DEF ClearHart, StepLoop
<1>8. ASSUME NEW h \in Harts, AnswerIpi(h) PROVE QuietInv'
    BY <1>8, <1>t DEF AnswerIpi
<1>9. ASSUME NEW h \in Harts, NEW to \in Harts, SendIpi(h, to) PROVE QuietInv'
    BY <1>9, <1>t DEF SendIpi
<1>10. CASE UNCHANGED <<pc, msip, gie, sie>>
    BY <1>10, <1>t
<1> QED
    BY <1>1, <1>2, <1>3, <1>4, <1>5, <1>6, <1>7, <1>8, <1>9, <1>10
       DEF Next, StartStep, Running, Drain, vars

-----------------------------------------------------------------------------

LEMMA Inductive == SafeSpec => []IInv
<1>1. IInv /\ [Next]_vars => IInv'
    BY TypeStep, BootStep, SideStep, MsipStep, CountStep, LowerStep, QuietStep
    DEF IInv, SyncInv
<1> QED
    BY InitInv, <1>1, PTL DEF SafeSpec

\* Start-up keeps its types (all of gloss/crt0.S and synchronize_harts.c).
THEOREM TypeCorrect == SafeSpec => []TypeOK
<1>1. IInv => TypeOK
    BY DEF IInv
<1> QED
    BY Inductive, <1>1, PTL

\* No hart leaves the barrier before the boot hart has run every phase of
\* the initialisation and every hart has come to the barrier: for any number
\* of harts, any boot hart, any senders of interrupts, either store order.
THEOREM StartUpSafe == SafeSpec => []NoEarlyStart
<1>1. IInv => NoEarlyStart
    <2> SUFFICES ASSUME IInv, NEW h \in Harts, Released(h)
                 PROVE  init = LastPhase /\ \A g \in Harts : Arrived(g)
        BY DEF NoEarlyStart
    <2>1. \A g \in Harts : Arrived(g)
        BY DEF IInv, SyncInv, LowerInv, CountInv
    <2>2. Arrived(BootHart)
        BY <2>1, HartSyncAssumption DEF Harts
    <2> QED
        BY <2>1, <2>2 DEF Arrived, IInv, SyncInv, BootInv
<1> QED
    BY Inductive, <1>1, PTL

\* The MSIP a hart raises to announce itself is never taken as an interrupt.
THEOREM StartUpTakesNoTrap == SafeSpec => []NoTrapInStartUp
<1>1. IInv => NoTrapInStartUp
    BY DEF IInv, SyncInv, MsipInv, Arrived, QuietInv, NoTrapInStartUp
<1> QED
    BY Inductive, <1>1, PTL

\* A program starts with interrupts off and none left over from the barrier.
THEOREM ProgramStartsQuiet == SafeSpec => []QuietStart
<1>1. IInv => QuietStart
    BY DEF IInv, QuietInv, QuietStart, Released
<1> QED
    BY Inductive, <1>1, PTL

-----------------------------------------------------------------------------

\* Every step of the code is a step of the abstract barrier or leaves it
\* alone: the last phase is FinishInit, a hart that goes on to "await" or past
\* "announce" arrives, one that goes on to "setup" is released.
LEMMA BarrierStep == IInv /\ NoEarlyStart /\ [Next]_vars =>
                        [Barrier!Next]_Barrier!barrierVars
<1> DEFINE Came == {h \in Harts : Arrived(h)}
           Left == {h \in Harts : Released(h)}
<1> SUFFICES ASSUME IInv, NoEarlyStart, [Next]_vars
             PROVE  \/ Barrier!Next
                    \/ /\ UNCHANGED (init = LastPhase)
                       /\ UNCHANGED Came /\ UNCHANGED Left
    BY DEF Barrier!barrierVars
<1> USE HartSyncAssumption DEF Goto, Harts, TypeOK, Arrived, Released
<1>t. TypeOK /\ BootInv /\ SideInv /\ CountInv /\ LowerInv
    BY DEF IInv, SyncInv
<1>1. ASSUME NEW h \in Harts, SelectBootHart(h) \/ Fence(h) \/ Setup(h)
      PROVE  UNCHANGED init /\ UNCHANGED Came /\ UNCHANGED Left
    BY <1>1, <1>t DEF SelectBootHart, Fence, Setup
<1>2. ASSUME NEW h \in Harts, InitPhase(h)
      PROVE  \/ Barrier!FinishInit
             \/ UNCHANGED (init = LastPhase) /\ UNCHANGED Came /\ UNCHANGED Left
    <2>1. UNCHANGED Came /\ UNCHANGED Left
        BY <1>2, <1>t DEF InitPhase
    <2>2. init # LastPhase
        BY <1>2, <1>t DEF InitPhase, BootInv, LastPhase
    <2> QED
        BY <2>1, <2>2 DEF Barrier!FinishInit
<1>3. ASSUME NEW h \in Harts, DisableInterrupts(h)
      PROVE  \/ Barrier!Arrive(h)
             \/ UNCHANGED init /\ UNCHANGED Came /\ UNCHANGED Left
    <2>1. /\ UNCHANGED init /\ UNCHANGED Left
          /\ h = BootHart => init = LastPhase
        BY <1>3, <1>t DEF DisableInterrupts, BarrierEntry, BootInv
    <2>2. CASE h = 0
        <3>1. h \notin Came /\ Came' = Came \cup {h}
            BY <2>2, <1>3, <1>t DEF DisableInterrupts, BarrierEntry
        <3> QED
            BY <3>1, <2>1 DEF Barrier!Arrive
    <2>3. CASE h # 0
        BY <2>1, <2>3, <1>3, <1>t DEF DisableInterrupts, BarrierEntry
    <2> QED
        BY <2>2, <2>3
<1>4. ASSUME NEW h \in Harts, Announce(h) PROVE Barrier!Arrive(h)
    <2>1. /\ UNCHANGED init /\ UNCHANGED Left
          /\ h = BootHart => init = LastPhase
        BY <1>4, <1>t DEF Announce, BootInv
    <2>2. h \notin Came /\ Came' = Came \cup {h}
        BY <1>4, <1>t DEF Announce
    <2> QED
        BY <2>1, <2>2 DEF Barrier!Arrive
<1>5. ASSUME NEW h \in Harts, LeaveSpin(h) PROVE Barrier!Release(h)
    <2>1. UNCHANGED init /\ UNCHANGED Came
        BY <1>5, <1>t DEF LeaveSpin
    <2>2. h \notin Left /\ Left' = Left \cup {h}
        BY <1>5, <1>t DEF LeaveSpin
    <2>3. Came = Harts
        BY <1>5, <1>t DEF LeaveSpin, LowerInv, CountInv
    <2> QED
        BY <2>1, <2>2, <2>3 DEF Barrier!Release
<1>6. CASE AwaitHart
    BY <1>6, <1>t DEF AwaitHart, StepLoop
<1>7. CASE ClearHart
    <2>1. Came = Harts /\ UNCHANGED init /\ UNCHANGED Came
        BY <1>7, <1>t DEF ClearHart, StepLoop, CountInv, Counted
    <2>2. CASE i = N-1
        <3>1. 0 \notin Left /\ Left' = Left \cup {0}
            BY <2>2, <1>7, <1>t DEF ClearHart, StepLoop
        <3>2. Barrier!Release(0)
            BY <3>1, <2>1 DEF Barrier!Release
        <3> QED
            BY <3>2 DEF Barrier!Next
    <2>3. CASE i # N-1
        BY <2>1, <2>3, <1>7 DEF ClearHart, StepLoop
    <2> QED
        BY <2>2, <2>3
<1>8. CASE UNCHANGED <<pc, init>>
    BY <1>8
<1> QED
    BY <1>1, <1>2, <1>3, <1>4, <1>5, <1>6, <1>7, <1>8
       DEF Next, StartStep, Running, AnswerIpi, SendIpi, Drain, vars, Barrier!Next

\* The start-up code implements the abstract barrier, its safety part.
THEOREM ImplementsBarrier == SafeSpec => BarrierSafeSpec
<1>1. Init => Barrier!Init
    BY HartSyncAssumption
       DEF Init, Barrier!Init, Arrived, Released, Harts, LastPhase
<1>2. SafeSpec => [](IInv /\ NoEarlyStart)
    BY Inductive, StartUpSafe, PTL
<1> QED
    BY <1>1, <1>2, BarrierStep, PTL DEF SafeSpec, BarrierSafeSpec, Barrier!SafeSpec
=============================================================================
