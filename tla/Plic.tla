-------------------------------- MODULE Plic --------------------------------
(***************************************************************************)
(* The platform interrupt controller and src/drivers/riscv_plic0.c.        *)
(* Devices raise level interrupts; the gateway of a source forwards one    *)
(* request and forwards no other until that one is completed.  On every    *)
(* hart there is a thread that calls the driver, and the driver's handler, *)
(* which interrupts the thread: it claims a source, runs the registered    *)
(* function and completes.  One action is one access to a register or to a *)
(* table of the driver.                                                    *)
(***************************************************************************)
EXTENDS Integers, FiniteSets, FiniteSetsExt

CONSTANTS Harts,         \* the hart ids
          Contexts,      \* the PLIC contexts, 0 ..
          Context,       \* __metal_driver_sifive_plic0_context_ids
          NumInterrupts, \* ids from 0, which is no source, to NumInterrupts-1
          WordBits,      \* the ids that share a word of enable bits (32)
          MaxPriority,   \* __metal_driver_sifive_plic0_max_priority
          Priorities,    \* what the program passes to set_priority
          Thresholds,    \* what the program passes to set_threshold
          Registrars,    \* the harts whose thread registers and sets priority
          Defaults,      \* TRUE: the program registers NULL handlers as well
          Masks,         \* the bitmasks passed to the affinity calls
          IsrCalls,      \* TRUE: an interrupt handler enables and disables too
          Raises         \* the interrupts of one device (a bound)

Sources == 1 .. NumInterrupts - 1

PlicAssumption ==
    /\ Harts \subseteq Contexts /\ Contexts \subseteq Nat
    /\ IsFiniteSet(Contexts)
    /\ Context \in [Harts -> Contexts]
    /\ \A h, g \in Harts : Context[h] = Context[g] => h = g
    /\ NumInterrupts \in Nat \ {0} /\ WordBits \in Nat \ {0}
    /\ MaxPriority \in Nat
    /\ Priorities \subseteq Nat /\ Thresholds \subseteq Nat
    /\ Registrars \subseteq Harts
    /\ Masks \subseteq SUBSET Contexts
    /\ {Defaults, IsrCalls} \subseteq BOOLEAN
    /\ Raises \in Nat

Actors == Harts \X {"thread", "isr"}
Hart(a) == a[1]

VARIABLES line,       \* the devices that ask for service
          raises,     \* how often a device has asked
          pending,    \* the requests at the controller
          closed,     \* the gateways that wait for a completion
          enabled,    \* the enable bits of a context
          asked,      \* the enable bits its callers have asked for
          priority,   \* the priority of a source
          threshold,  \* the threshold of a context
          table,      \* metal_exint_table: NULL, the program's or the default
          data,       \* exint_data: NULL or what goes with the program's
          call,       \* the driver call an actor is in
          irq,        \* the invocation of __metal_plic0_handler on a hart
          off         \* metal_shutdown has been called

hardware == <<line, raises, pending, closed>>
registers == <<enabled, asked, priority, threshold>>
tables == <<table, data>>
vars == <<hardware, registers, tables, call, irq, off>>

NoCall == [pc |-> "idle", id |-> 0, on |-> FALSE, own |-> FALSE,
           todo |-> {}, word |-> {}]
NoIrq == [pc |-> "idle", idx |-> 0, fn |-> "null", arg |-> "null"]

\* After __metal_driver_riscv_plic0_init: all is disabled, with priority and
\* threshold 0 and no function; the handler is registered on every hart.
Init ==
    /\ line = {}
    /\ raises = [s \in Sources |-> 0]
    /\ pending = {}
    /\ closed = {}
    /\ enabled = [c \in Contexts |-> {}]
    /\ asked = [c \in Contexts |-> {}]
    /\ priority = [s \in Sources |-> 0]
    /\ threshold = [c \in Contexts |-> 0]
    /\ table = [s \in Sources |-> "null"]
    /\ data = [s \in Sources |-> "null"]
    /\ call = [a \in Actors |-> NoCall]
    /\ irq = [h \in Harts |-> NoIrq]
    /\ off = FALSE

-----------------------------------------------------------------------------
(* The devices and the controller. *)

Raise(s) ==
    /\ ~off
    /\ s \notin line /\ raises[s] < Raises
    /\ line' = line \cup {s}
    /\ raises' = [raises EXCEPT ![s] = @ + 1]
    /\ UNCHANGED <<pending, closed, registers, tables, call, irq, off>>

Forward(s) ==
    /\ ~off
    /\ s \in line \ closed
    /\ pending' = pending \cup {s}
    /\ closed' = closed \cup {s}
    /\ UNCHANGED <<line, raises, registers, tables, call, irq, off>>

\* The external interrupt of context c is pending.
Notifies(c) ==
    \E s \in pending \cap enabled[c] : priority[s] > threshold[c]

\* What a claim by context c returns: the request of highest priority, of
\* those the one with the least id, or 0.
Best(c) ==
    LET ready == {s \in pending \cap enabled[c] : priority[s] > 0}
        first == {s \in ready : \A t \in ready : priority[t] <= priority[s]}
    IN  IF ready = {} THEN 0 ELSE Min(first)

-----------------------------------------------------------------------------
(* __metal_plic0_handler. *)

\* The hart traps to the handler.
Trap(h) ==
    /\ ~off
    /\ irq[h].pc = "idle" /\ Notifies(Context[h])
    /\ irq' = [irq EXCEPT ![h].pc = "claim"]
    /\ UNCHANGED <<hardware, registers, tables, call, off>>

\* A form the claim must not take: the source is completed at once.
ClaimAndComplete(h) ==
    /\ ~off
    /\ irq[h].pc = "claim"
    /\ irq' = [irq EXCEPT ![h].pc = "look", ![h].idx = Best(Context[h])]
    /\ pending' = pending \ {Best(Context[h])}
    /\ closed' = closed \ {Best(Context[h])}
    /\ UNCHANGED <<line, raises, registers, tables, call, off>>

Claim(h) ==
    /\ ~off
    /\ irq[h].pc = "claim"
    /\ irq' = [irq EXCEPT ![h].pc = "look", ![h].idx = Best(Context[h])]
    /\ pending' = pending \ {Best(Context[h])}
    /\ UNCHANGED <<line, raises, closed, registers, tables, call, off>>

\* Is there a function for the source?  Nothing is ever registered for id 0.
Look(h) ==
    /\ ~off
    /\ irq[h].pc = "look"
    /\ IF irq[h].idx \in Sources /\ table[irq[h].idx] # "null"
         THEN irq' = [irq EXCEPT ![h].pc = "enter", ![h].fn = table[irq[h].idx]]
         ELSE irq' = [irq EXCEPT ![h].pc = "complete"]
    /\ UNCHANGED <<hardware, registers, tables, call, off>>

\* Its data is loaded and it is called; the default one shuts down.
Enter(h) ==
    /\ ~off
    /\ irq[h].pc = "enter"
    /\ irq' = [irq EXCEPT ![h].pc = "run", ![h].arg = data[irq[h].idx]]
    /\ off' = (irq[h].fn = "default")
    /\ UNCHANGED <<hardware, registers, tables, call>>

\* The function has served its device and returns.
Serve(h) ==
    /\ ~off
    /\ irq[h].pc = "run" /\ call[<<h, "isr">>].pc = "idle"
    /\ line' = line \ {irq[h].idx}
    /\ irq' = [irq EXCEPT ![h].pc = "complete"]
    /\ UNCHANGED <<raises, pending, closed, registers, tables, call, off>>

\* A form it must not take: the handler returns without the completion.
ForgetComplete(h) ==
    /\ ~off
    /\ irq[h].pc = "complete"
    /\ irq' = [irq EXCEPT ![h] = NoIrq]
    /\ UNCHANGED <<hardware, registers, tables, call, off>>

\* The controller ignores a completion by a context that does not have the
\* source enabled, and one of id 0.
Complete(h) ==
    /\ ~off
    /\ irq[h].pc = "complete"
    /\ closed' = closed \ ({irq[h].idx} \cap enabled[Context[h]])
    /\ irq' = [irq EXCEPT ![h] = NoIrq]
    /\ UNCHANGED <<line, raises, pending, registers, tables, call, off>>

-----------------------------------------------------------------------------
(* The calls of the driver.  A thread does not run while its hart is in the  *)
(* handler; a function calls from inside of the handler.                     *)

Runs(a) ==
    /\ ~off
    /\ IF a[2] = "thread" THEN irq[Hart(a)].pc = "idle"
                          ELSE irq[Hart(a)].pc = "run"

MayCall(a) == Runs(a) /\ call[a].pc = "idle" /\ (a[2] = "isr" => IsrCalls)

\* What is asked for once a call for contexts cs has returned.
Put(cs, id, on) ==
    [c \in Contexts |-> IF c \notin cs THEN asked[c]
                        ELSE IF on THEN asked[c] \cup {id}
                        ELSE asked[c] \ {id}]

\* The program registers a source first and then, on whatever hart, enables
\* it; it does not register it again.
Registered(s) ==
    /\ table[s] # "null"
    /\ \A a \in Actors : call[a].pc \in {"function", "data"} => call[a].id # s

MayEnable(id) == id \in Sources => Registered(id)

\* A form they must not take: the id is compared with > .
BeginEnableTooFar(a, id, on) ==
    /\ MayCall(a) /\ MayEnable(id) /\ id <= NumInterrupts
    /\ call' = [call EXCEPT ![a] = [pc |-> "read", id |-> id, on |-> on,
                                    own |-> TRUE, todo |-> {Hart(a)},
                                    word |-> {}]]
    /\ UNCHANGED <<hardware, registers, tables, irq, off>>

\* __metal_driver_riscv_plic0_{enable,disable}: the caller's own context is
\* meant, and the context of number myhart_id is what is changed.
BeginEnable(a, id, on) ==
    /\ MayCall(a) /\ MayEnable(id) /\ id < NumInterrupts
    /\ call' = [call EXCEPT ![a] = [pc |-> "read", id |-> id, on |-> on,
                                    own |-> TRUE, todo |-> {Hart(a)},
                                    word |-> {}]]
    /\ UNCHANGED <<hardware, registers, tables, irq, off>>

\* __metal_driver_riscv_plic0_affinity_{enable,disable}: context 0 is skipped.
BeginAffinity(a, mask, id, on) ==
    /\ MayCall(a) /\ MayEnable(id) /\ id < NumInterrupts
    /\ call' = [call EXCEPT ![a] =
                   IF mask \subseteq {0} THEN NoCall
                   ELSE [pc |-> "read", id |-> id, on |-> on,
                         own |-> FALSE, todo |-> mask \ {0}, word |-> {}]]
    /\ asked' = Put(mask \cap {0}, id, on)
    /\ UNCHANGED <<hardware, enabled, priority, threshold, tables, irq, off>>

\* The ids in the word of enable bits that id is in.
Word(id) == {s \in Sources : s \div WordBits = id \div WordBits}

\* __metal_plic0_enable reads the word and writes it back, changed.
ReadWord(a) ==
    /\ Runs(a) /\ call[a].pc = "read"
    /\ call' = [call EXCEPT
                  ![a].pc = "write",
                  ![a].word = enabled[Min(call[a].todo)] \cap Word(call[a].id)]
    /\ UNCHANGED <<hardware, registers, tables, irq, off>>

WriteBits(a, bits) ==
    LET k == call[a]
        c == Min(k.todo)
    IN  /\ Runs(a) /\ k.pc = "write"
        /\ enabled' = [enabled EXCEPT ![c] = (@ \ Word(k.id)) \cup bits]
        /\ call' = [call EXCEPT ![a] =
                       IF k.todo = {c} THEN NoCall
                       ELSE [k EXCEPT !.pc = "read", !.todo = @ \ {c},
                                      !.word = {}]]
        /\ asked' = Put({IF k.own THEN Context[Hart(a)] ELSE c}, k.id, k.on)
        /\ UNCHANGED <<hardware, priority, threshold, tables, irq, off>>

\* A form it must not take: the bit alone is written.
WriteOneBit(a) == WriteBits(a, IF call[a].on THEN {call[a].id} ELSE {})

WriteWord(a) ==
    WriteBits(a, IF call[a].on THEN call[a].word \cup {call[a].id}
                               ELSE call[a].word \ {call[a].id})

\* __metal_driver_riscv_plic0_set_priority does nothing and returns -1 when
\* the priority is not below the largest.
Prioritised(s, p) ==
    IF p < MaxPriority THEN [priority EXCEPT ![s] = p] ELSE priority

\* __metal_driver_riscv_plic0_register, with a function or NULL, sets the
\* priority first, then the function, then its data.
BeginRegister(h, s, isr) ==
    /\ s < NumInterrupts
    /\ MayCall(<<h, "thread">>) /\ table[s] = "null"
    /\ call' = [call EXCEPT ![<<h, "thread">>] =
                   [NoCall EXCEPT !.pc = "function", !.id = s, !.on = isr]]
    /\ priority' = Prioritised(s, IF isr THEN 2 ELSE 1)
    /\ UNCHANGED <<hardware, enabled, asked, threshold, tables, irq, off>>

RegisterFunction(h) ==
    LET k == call[<<h, "thread">>] IN
    /\ Runs(<<h, "thread">>) /\ k.pc = "function"
    /\ table' = [table EXCEPT ![k.id] = IF k.on THEN "program" ELSE "default"]
    /\ call' = [call EXCEPT ![<<h, "thread">>] =
                   IF k.on THEN [k EXCEPT !.pc = "data"] ELSE NoCall]
    /\ UNCHANGED <<hardware, registers, data, irq, off>>

\* A form it must not take: the other field, sub_int, is set.
RegisterOtherField(h) ==
    /\ Runs(<<h, "thread">>) /\ call[<<h, "thread">>].pc = "data"
    /\ call' = [call EXCEPT ![<<h, "thread">>] = NoCall]
    /\ UNCHANGED <<hardware, registers, tables, irq, off>>

RegisterData(h) ==
    /\ Runs(<<h, "thread">>) /\ call[<<h, "thread">>].pc = "data"
    /\ data' = [data EXCEPT ![call[<<h, "thread">>].id] = "program"]
    /\ call' = [call EXCEPT ![<<h, "thread">>] = NoCall]
    /\ UNCHANGED <<hardware, registers, table, irq, off>>

\* The program sets the priority of a source it has registered.
SetPriority(h, s, p) ==
    /\ MayCall(<<h, "thread">>) /\ table[s] # "null"
    /\ priority' = Prioritised(s, p)
    /\ UNCHANGED <<hardware, enabled, asked, threshold, tables, call, irq, off>>

\* __metal_driver_riscv_plic0_set_threshold.
SetThreshold(h, t) ==
    /\ MayCall(<<h, "thread">>)
    /\ threshold' = [threshold EXCEPT ![h] = t]
    /\ UNCHANGED <<hardware, enabled, asked, priority, tables, call, irq, off>>

\* __metal_driver_riscv_plic0_affinity_set_threshold, for one context.
AffinitySetThreshold(h, c, t) ==
    /\ MayCall(<<h, "thread">>) /\ c # 0
    /\ threshold' = [threshold EXCEPT ![c] = t]
    /\ UNCHANGED <<hardware, enabled, asked, priority, tables, call, irq, off>>

HandlerStep(h) ==
    Trap(h) \/ Claim(h) \/ Look(h) \/ Enter(h) \/ Serve(h) \/ Complete(h)

\* The ids a program may pass: one past the last is refused.
Ids == Sources \cup {NumInterrupts}

Next ==
    \/ \E s \in Sources : Raise(s) \/ Forward(s)
    \/ \E h \in Harts : HandlerStep(h) \/ RegisterFunction(h) \/ RegisterData(h)
    \/ \E a \in Actors :
          \/ ReadWord(a) \/ WriteWord(a)
          \/ \E id \in Ids, on \in BOOLEAN :
                \/ BeginEnable(a, id, on)
                \/ \E mask \in Masks : BeginAffinity(a, mask, id, on)
    \/ \E h \in Registrars, s \in Ids :
          \/ BeginRegister(h, s, TRUE)
          \/ Defaults /\ BeginRegister(h, s, FALSE)
    \/ \E h \in Registrars, s \in Sources :
          \E p \in Priorities : SetPriority(h, s, p)
    \/ \E h \in Harts, t \in Thresholds :
          \/ SetThreshold(h, t)
          \/ \E c \in UNION Masks : AffinitySetThreshold(h, c, t)

\* Hardware forwards a request, a hart takes an interrupt that stays pending,
\* and the handler, the functions and the calls they make run on.  A thread
\* need not call, but a call it has begun it ends.
Fairness ==
    /\ \A s \in Sources : WF_vars(Forward(s))
    /\ \A h \in Harts : WF_vars(HandlerStep(h))
    /\ \A a \in Actors : WF_vars(ReadWord(a) \/ WriteWord(a))

Spec == Init /\ [][Next]_vars /\ Fairness

-----------------------------------------------------------------------------

Served(s) == {h \in Harts : irq[h].pc # "idle" /\ irq[h].idx = s}

TypeOK ==
    /\ line \subseteq Sources /\ closed \subseteq Sources
    /\ pending \subseteq closed
    /\ raises \in [Sources -> 0 .. Raises]
    /\ enabled \in [Contexts -> SUBSET Sources]
    /\ asked \in [Contexts -> SUBSET Sources]
    /\ priority \in [Sources -> {0, 1, 2} \cup Priorities]
    /\ threshold \in [Contexts -> {0} \cup Thresholds]
    /\ table \in [Sources -> {"null", "program", "default"}]
    /\ data \in [Sources -> {"null", "program"}]
    /\ call \in [Actors -> [pc : {"idle", "read", "write", "function", "data"},
                            id : {0} \cup Sources, on : BOOLEAN, own : BOOLEAN,
                            todo : SUBSET Contexts, word : SUBSET Sources]]
    /\ irq \in [Harts -> [pc : {"idle", "claim", "look", "enter", "run",
                                "complete"},
                          idx : {0} \cup Sources,
                          fn : {"null", "program", "default"},
                          arg : {"null", "program"}]]
    /\ off \in BOOLEAN

\* The harts that have a source enabled all trap for it; one of them gets it.
\* It is served by no two harts at once, and not requested again meanwhile.
OneHartServes ==
    \A s \in Sources :
        Cardinality(Served(s)) <= IF s \in pending THEN 0 ELSE 1

\* No source is lost: one that waits for its completion is pending, or some
\* hart that will complete it is in the handler for it.
NoSourceIsLost == \A s \in closed : s \in pending \/ Served(s) # {}

\* "Enable an interrupt ... @return 0 upon success" and "The result of each
\* hart context. 0 upon success at relevant bit" (metal/interrupt.h): when no
\* call is under way every context has enabled what its callers asked for.
EnabledAsAsked ==
    (\A a \in Actors : call[a].pc \notin {"read", "write"}) => enabled = asked

\* "@param priv_data Private data for the interrupt handler": the program's
\* function is called with the data that was registered with it.
HandlerGetsItsData ==
    \A h \in Harts : irq[h].pc = "run" /\ irq[h].fn = "program"
                        => irq[h].arg = "program"

\* A source is to be delivered to hart h.
Deliverable(h, s) ==
    /\ s \in line /\ s \in asked[Context[h]]
    /\ priority[s] > threshold[Context[h]]

\* "Enable an interrupt": a device that asks for service on a hart that has
\* enabled it is served, unless the hart or the priorities turn against it.
EnabledIsServed ==
    \A h \in Harts, s \in Sources :
        Deliverable(h, s) ~> (off \/ ~Deliverable(h, s))
=============================================================================
