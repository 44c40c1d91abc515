--------------------------- MODULE MetalLockProof ---------------------------
(***************************************************************************)
(* Proofs about MetalLock for any harts, any number of rounds and any      *)
(* backoff, whether handlers are masked or not.                            *)
(***************************************************************************)
EXTENDS MetalLock, TLAPS

\* Nobody has called the lock before metal_lock_init has cleared it.
StartInv ==
    /\ \A c \in Contexts : pc[c] = "init" => c = Thread(InitHart)
    /\ pc[Thread(InitHart)] = "init" =>
          \A c \in Contexts : pc[c] \in {"init", "wait"}

HeldInv == \A c \in Contexts : Holds(c) => state = 1

\* The copy a context is about to write back is still current.
DataInv ==
    /\ data = updates
    /\ \A c \in Contexts : pc[c] = "write" => tmp[c] = data

IInv == TypeOK /\ StartInv /\ HeldInv /\ MutualExclusion /\ DataInv

-----------------------------------------------------------------------------

LEMMA ThreadIsContext == Thread(InitHart) \in Contexts
BY MetalLockAssumption DEF Thread, Contexts

LEMMA InitInv == Init => IInv
<1> SUFFICES ASSUME Init PROVE IInv
    OBVIOUS
<1>1. TypeOK
    BY MetalLockAssumption DEF Init, TypeOK, Labels
<1>2. \A c \in Contexts : pc[c] = "wait" \/ (pc[c] = "init" /\ c = Thread(InitHart))
    BY DEF Init
<1> QED
    BY <1>1, <1>2 DEF Init, IInv, StartInv, HeldInv, MutualExclusion, DataInv, Holds

LEMMA StepInv == IInv /\ [Next]_vars => IInv'
<1> SUFFICES ASSUME IInv, [Next]_vars PROVE IInv'
    OBVIOUS
<1> USE MetalLockAssumption DEF Goto, Labels
<1>t. TypeOK /\ StartInv /\ HeldInv /\ MutualExclusion /\ DataInv
    BY DEF IInv
<1>1. CASE LockInit
    <2>1. /\ \A c \in Contexts : pc'[c] = "idle"
          /\ state' = 0 /\ UNCHANGED <<masked, backoff, left, data, tmp, updates>>
          /\ pc' \in [Contexts -> Labels]
        BY <1>1 DEF LockInit
    <2> QED
        BY <2>1, <1>t, ThreadIsContext
           DEF IInv, TypeOK, StartInv, HeldInv, MutualExclusion, DataInv, Holds
<1>2. ASSUME NEW c \in Contexts, Call(c), UNCHANGED masked PROVE IInv'
    <2>1. TypeOK'
        BY <1>2, <1>t DEF Call, TypeOK
    <2> QED
        BY <2>1, <1>2, <1>t, ThreadIsContext
           DEF Call, IInv, TypeOK, StartInv, HeldInv, MutualExclusion, DataInv, Holds
<1>3. ASSUME NEW c \in Contexts, Swap(c), UNCHANGED masked PROVE IInv'
    <2>1. TypeOK'
        BY <1>3, <1>t DEF Swap, TypeOK
    <2>2. HeldInv' /\ MutualExclusion'
        BY <1>3, <1>t DEF Swap, TypeOK, HeldInv, MutualExclusion, Holds
    <2>3. StartInv' /\ DataInv'
        BY <1>3, <1>t, ThreadIsContext DEF Swap, TypeOK, StartInv, DataInv
    <2> QED
        BY <2>1, <2>2, <2>3 DEF IInv
<1>4. ASSUME NEW c \in Contexts, Delay(c), UNCHANGED masked PROVE IInv'
    <2>1. TypeOK'
        BY <1>4, <1>t DEF Delay, TypeOK
    <2>2. StartInv' /\ HeldInv' /\ MutualExclusion' /\ DataInv'
        BY <1>4, <1>t, ThreadIsContext
           DEF Delay, TypeOK, StartInv, HeldInv, MutualExclusion, DataInv, Holds
    <2> QED
        BY <2>1, <2>2 DEF IInv
<1>5. ASSUME NEW c \in Contexts, Read(c), UNCHANGED masked PROVE IInv'
    <2>1. TypeOK'
        BY <1>5, <1>t DEF Read, TypeOK
    <2>2. StartInv' /\ HeldInv' /\ MutualExclusion' /\ DataInv'
        BY <1>5, <1>t, ThreadIsContext
           DEF Read, TypeOK, StartInv, HeldInv, MutualExclusion, DataInv, Holds
    <2> QED
        BY <2>1, <2>2 DEF IInv
<1>6. ASSUME NEW c \in Contexts, Write(c), UNCHANGED masked PROVE IInv'
    <2>1. TypeOK'
        BY <1>6, <1>t DEF Write, TypeOK
    <2>2. StartInv' /\ HeldInv' /\ MutualExclusion'
        BY <1>6, <1>t, ThreadIsContext
           DEF Write, TypeOK, StartInv, HeldInv, MutualExclusion, Holds
    <2>3. \A d \in Contexts : pc'[d] # "write"
        BY <1>6, <1>t DEF Write, TypeOK, MutualExclusion, Holds
    <2>4. data' = updates'
        BY <1>6, <1>t DEF Write, DataInv
    <2> QED
        BY <2>1, <2>2, <2>3, <2>4 DEF IInv, DataInv
<1>7. ASSUME NEW c \in Contexts, Give(c), UNCHANGED masked PROVE IInv'
    <2>1. TypeOK'
        BY <1>7, <1>t DEF Give, TypeOK
    <2>2. \A d \in Contexts : ~Holds(d)'
        BY <1>7, <1>t DEF Give, TypeOK, MutualExclusion, Holds
    <2>3. StartInv' /\ DataInv'
        BY <1>7, <1>t, ThreadIsContext DEF Give, TypeOK, StartInv, DataInv
    <2> QED
        BY <2>1, <2>2, <2>3 DEF IInv, HeldInv, MutualExclusion
<1>8. CASE UNCHANGED vars
    BY <1>8, <1>t
       DEF vars, IInv, TypeOK, StartInv, HeldInv, MutualExclusion, DataInv, Holds
<1> QED
    BY <1>1, <1>2, <1>3, <1>4, <1>5, <1>6, <1>7, <1>8 DEF Next, Step, Finished

LEMMA Inductive == SafeSpec => []IInv
BY InitInv, StepInv, PTL DEF SafeSpec

\* The lock keeps its types: in particular the backoff never overflows.
THEOREM TypeCorrect == SafeSpec => []TypeOK
<1>1. IInv => TypeOK
    BY DEF IInv
<1> QED
    BY Inductive, <1>1, PTL

\* At most one context, thread or handler, of any number of harts is between
\* metal_lock_take and metal_lock_give.
THEOREM Exclusive == SafeSpec => []MutualExclusion
<1>1. IInv => MutualExclusion
    BY DEF IInv
<1> QED
    BY Inductive, <1>1, PTL

\* No update of the word the lock protects is lost.
THEOREM UpdatesKept == SafeSpec => []NoLostUpdate
<1>1. IInv => NoLostUpdate
    BY DEF IInv, DataInv, NoLostUpdate
<1> QED
    BY Inductive, <1>1, PTL

-----------------------------------------------------------------------------

Holder == IF \E c \in Contexts : Holds(c)
            THEN CHOOSE c \in Contexts : Holds(c)
            ELSE Nobody

LEMMA HolderIsUnique ==
    ASSUME MutualExclusion, NEW c \in Contexts, Holds(c)
    PROVE  Holder = c
BY DEF Holder, MutualExclusion

\* A swap that finds 0 is Acquire, a give is Release, all else stutters.
LEMMA MutexStep == IInv /\ IInv' /\ [Next]_vars => [Abstract!Next]_Holder
<1> SUFFICES ASSUME IInv, IInv', [Next]_vars
             PROVE  Abstract!Next \/ Holder' = Holder
    OBVIOUS
<1> USE DEF Goto
<1>t. TypeOK /\ HeldInv /\ MutualExclusion /\ MutualExclusion' /\ StartInv
    BY DEF IInv
<1>1. ASSUME \A c \in Contexts : Holds(c)' <=> Holds(c) PROVE Holder' = Holder
    BY <1>1 DEF Holder
<1>2. CASE LockInit
    <2>1. \A c \in Contexts : ~Holds(c) /\ ~Holds(c)'
        BY <1>2, <1>t DEF LockInit, StartInv, Holds
    <2> QED
        BY <1>1, <2>1
<1>3. ASSUME NEW c \in Contexts, Call(c) \/ Delay(c) \/ Read(c) \/ Write(c)
      PROVE  Holder' = Holder
    <2>1. \A d \in Contexts : Holds(d)' <=> Holds(d)
        BY <1>3, <1>t DEF Call, Delay, Read, Write, Holds, TypeOK
    <2> QED
        BY <1>1, <2>1
<1>4. ASSUME NEW c \in Contexts, Swap(c) PROVE Abstract!Next \/ Holder' = Holder
    <2>1. CASE state = 0
        <3>1. \A d \in Contexts : ~Holds(d)
            BY <2>1, <1>t DEF HeldInv
        <3>2. Holder = Nobody
            BY <3>1 DEF Holder
        <3>3. Holds(c)'
            BY <2>1, <1>4, <1>t DEF Swap, Holds, TypeOK
        <3>4. Holder' = c
            BY <3>3, <1>t DEF Holder, MutualExclusion
        <3> QED
            BY <3>2, <3>4 DEF Abstract!Next, Abstract!Acquire, Holder
    <2>2. CASE state # 0
        <3>1. \A d \in Contexts : Holds(d)' <=> Holds(d)
            BY <2>2, <1>4, <1>t DEF Swap, Holds, TypeOK
        <3> QED
            BY <1>1, <3>1
    <2> QED
        BY <2>1, <2>2
<1>5. ASSUME NEW c \in Contexts, Give(c) PROVE Abstract!Next
    <2>1. Holds(c)
        BY <1>5 DEF Give, Holds
    <2>2. Holder = c
        BY <2>1, <1>t, HolderIsUnique
    <2>3. \A d \in Contexts : ~Holds(d)'
        BY <1>5, <1>t DEF Give, TypeOK, MutualExclusion, Holds
    <2>4. Holder' = Nobody
        BY <2>3 DEF Holder
    <2> QED
        BY <2>2, <2>4 DEF Abstract!Next, Abstract!Release, Holder
<1>6. CASE UNCHANGED vars
    BY <1>6, <1>1 DEF vars, Holds
<1> QED
    BY <1>2, <1>3, <1>4, <1>5, <1>6 DEF Next, Step, Finished

\* metal/lock.h implements the abstract mutual exclusion.
THEOREM ImplementsMutex == SafeSpec => IsMutex
<1>1. Init => Abstract!Init
    BY DEF Init, Abstract!Init, Holds
<1>2. [Abstract!Next]_Holder <=> [Abstract!Next]_(IF \E c \in Contexts : Holds(c)
                THEN CHOOSE c \in Contexts : Holds(c)
                ELSE Nobody)
    BY DEF Holder
<1> QED
    BY <1>1, <1>2, Inductive, MutexStep, PTL DEF SafeSpec, IsMutex, Abstract!Spec
=============================================================================
