----------------------------- MODULE MetalLock -----------------------------
(***************************************************************************)
(* The spin lock of metal/lock.h, used as the API means it to be used: one *)
(* hart initialises it, then every hart, in its thread and in its interrupt*)
(* handler, takes it, changes a shared word, and gives it back.  A handler *)
(* preempts the thread of its own hart until it has finished.              *)
(***************************************************************************)
EXTENDS Integers

CONSTANTS Harts,        \* the harts that share the lock
          InitHart,     \* the hart that calls metal_lock_init
          Rounds,       \* how often each context takes the lock (a bound)
          MaxBackoff,   \* METAL_LOCK_BACKOFF_CYCLES * METAL_MAX_CORES
          Nobody        \* the holder of a lock that is free

ASSUME MetalLockAssumption ==
    /\ InitHart \in Harts
    /\ Rounds \in Nat
    /\ MaxBackoff \in Nat \ {0}
    /\ Nobody \notin Harts \X {"thread", "isr"}

VARIABLES masked,    \* whether the threads of this program mask interrupts
                     \* while they take, hold and give the lock
          state,     \* _state of the lock
          pc,        \* where each context is
          backoff,   \* the local of metal_lock_take
          left,      \* the rounds each context still wants
          data,      \* the word the lock protects
          tmp,       \* the copy of data a context is updating
          updates    \* how many updates of data have been made

vars == <<masked, state, pc, backoff, left, data, tmp, updates>>

Thread(h) == <<h, "thread">>
Isr(h) == <<h, "isr">>
Contexts == Harts \X {"thread", "isr"}

Init ==
    /\ masked \in BOOLEAN
    /\ state = 0
    /\ pc = [c \in Contexts |-> IF c = Thread(InitHart) THEN "init" ELSE "wait"]
    /\ backoff = [c \in Contexts |-> 1]
    /\ left = [c \in Contexts |-> Rounds]
    /\ data = 0
    /\ tmp = [c \in Contexts |-> 0]
    /\ updates = 0

Goto(c, l) == pc' = [pc EXCEPT ![c] = l]

\* The thread of a hart does not run while the hart's handler does.
Runs(c) == c[2] = "isr" \/ pc[Isr(c[1])] \in {"wait", "idle"}

\* A handler starts unless its thread has masked it.
MayStart(c) ==
    c[2] = "isr" /\ masked => pc[Thread(c[1])] \in {"wait", "idle"}

-----------------------------------------------------------------------------
(* Steps the code does not take, for the properties to notice. *)

SwapIgnoresOld(c) ==
    /\ pc[c] = "swap"
    /\ state' = 1 /\ Goto(c, "read")
    /\ UNCHANGED <<backoff, left, data, tmp, updates>>

SwapDoubles(c) ==
    /\ pc[c] = "swap"
    /\ state' = 1
    /\ Goto(c, IF state = 0 THEN "read" ELSE "swap")
    /\ backoff' = [backoff EXCEPT ![c] = 2 * @]
    /\ UNCHANGED <<left, data, tmp, updates>>

GiveKeepsState(c) ==
    /\ pc[c] = "give"
    /\ Goto(c, "idle")
    /\ UNCHANGED <<state, backoff, left, data, tmp, updates>>

-----------------------------------------------------------------------------

\* metal_lock_init, on memory that supports atomics.
LockInit ==
    /\ pc[Thread(InitHart)] = "init"
    /\ state' = 0
    /\ pc' = [c \in Contexts |-> "idle"]
    /\ UNCHANGED <<masked, backoff, left, data, tmp, updates>>

\* metal_lock_take: a call starts with the smallest backoff.
Call(c) ==
    /\ pc[c] = "idle"
    /\ left[c] > 0
    /\ MayStart(c)
    /\ left' = [left EXCEPT ![c] = @ - 1]
    /\ backoff' = [backoff EXCEPT ![c] = 1]
    /\ Goto(c, "swap")
    /\ UNCHANGED <<state, data, tmp, updates>>

\* amoswap.w.aq of 1: the lock is taken if it was 0.
Swap(c) ==
    /\ pc[c] = "swap"
    /\ state' = 1
    /\ Goto(c, IF state = 0 THEN "read" ELSE "delay")
    /\ UNCHANGED <<backoff, left, data, tmp, updates>>

\* The delay loop, after which the backoff doubles up to its maximum.
Delay(c) ==
    /\ pc[c] = "delay"
    /\ backoff' = [backoff EXCEPT ![c] = IF @ < MaxBackoff THEN 2 * @ ELSE @]
    /\ Goto(c, "swap")
    /\ UNCHANGED <<state, left, data, tmp, updates>>

\* The caller's critical section: it reads the shared word and writes it back.
Read(c) ==
    /\ pc[c] = "read"
    /\ tmp' = [tmp EXCEPT ![c] = data]
    /\ Goto(c, "write")
    /\ UNCHANGED <<state, backoff, left, data, updates>>

Write(c) ==
    /\ pc[c] = "write"
    /\ data' = tmp[c] + 1
    /\ updates' = updates + 1
    /\ Goto(c, "give")
    /\ UNCHANGED <<state, backoff, left, tmp>>

\* metal_lock_give: amoswap.w.rl of 0, by whoever calls it.
Give(c) ==
    /\ pc[c] = "give"
    /\ state' = 0
    /\ Goto(c, "idle")
    /\ UNCHANGED <<backoff, left, data, tmp, updates>>

Step(c) ==
    /\ Runs(c)
    /\ Call(c) \/ Swap(c) \/ Delay(c) \/ Read(c) \/ Write(c) \/ Give(c)
    /\ UNCHANGED masked

\* Nobody wants the lock any more.
Finished ==
    /\ \A c \in Contexts : pc[c] = "idle" /\ left[c] = 0
    /\ UNCHANGED vars

Next == LockInit \/ (\E c \in Contexts : Step(c)) \/ Finished

\* A hart that runs takes its next instruction.
Fairness == WF_vars(LockInit) /\ \A c \in Contexts : WF_vars(Step(c))

SafeSpec == Init /\ [][Next]_vars

Spec == SafeSpec /\ Fairness

-----------------------------------------------------------------------------

Labels == {"init", "wait", "idle", "swap", "delay", "read", "write", "give"}

\* The backoff of a waiting context stays below twice its maximum, however
\* long it waits: the int never overflows.
TypeOK ==
    /\ masked \in BOOLEAN
    /\ state \in {0, 1}
    /\ pc \in [Contexts -> Labels]
    /\ backoff \in [Contexts -> 1 .. 2 * MaxBackoff - 1]
    /\ left \in [Contexts -> 0 .. Rounds]
    /\ data \in Nat
    /\ tmp \in [Contexts -> Nat]
    /\ updates \in Nat

Holds(c) == pc[c] \in {"read", "write", "give"}

\* At most one context is between metal_lock_take and metal_lock_give, also
\* when a handler preempts a thread of the same hart that waits or holds.
MutualExclusion ==
    \A c, d \in Contexts : Holds(c) /\ Holds(d) => c = d

\* What the lock is for: no update of the word it protects is lost.
NoLostUpdate == data = updates

\* If handlers are masked, nobody waits for ever on a lock that comes free:
\* everyone gets through the rounds it wants.  (Without masking a handler may
\* spin on the lock its own thread holds.)
EveryoneFinishes == masked => <>(\A c \in Contexts : pc[c] = "idle" /\ left[c] = 0)

\* The lock implements the abstract mutual exclusion.
Abstract == INSTANCE Mutex WITH
    holder <- IF \E c \in Contexts : Holds(c)
                THEN CHOOSE c \in Contexts : Holds(c)
                ELSE Nobody

IsMutex == Abstract!Spec
=============================================================================
