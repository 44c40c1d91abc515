-------------------------------- MODULE Clic --------------------------------
(***************************************************************************)
(* The CLIC of src/drivers/sifive_clic0.c as one hart uses it: two ways of *)
(* delivering an interrupt (through the controller's handler, or by a jump *)
(* through the vector table), chosen by the mode of the hart, by NVBIT and *)
(* by a bit of the interrupt's control byte, which also holds its level    *)
(* and its priority.                                                       *)
(* A byte is the set of the positions of its bits that are 1.              *)
(***************************************************************************)
EXTENDS Naturals, FiniteSetsExt

CONSTANTS Subs,      \* the sub-interrupts
          IntBits,   \* num_intbits: how many bits of a control byte exist
          MaxLevels, \* max_levels of the device tree
          Levels,    \* the bytes a program asks for as level or priority
          MaxCalls   \* bound: the calls of the program after the init

ClicAssumption ==
    /\ "sw" \notin Subs
    /\ IntBits \in 2 .. 8 /\ {MaxLevels, MaxCalls} \subseteq Nat
    /\ Levels \subseteq SUBSET (0 .. 7)

\* "sw", a line of the CPU controller, stands for those below 12.
Ids == Subs \cup {"sw"}
None == [fn |-> "null", data |-> "null"]
NoTrap == [id |-> "none", fn |-> "none", data |-> "none"]

VARIABLES ready,   \* init_done
          mode,    \* the mode bits of mtvec
          nv,      \* CLICCFG.NVBIT
          nl,      \* CLICCFG.NLBITS
          ctl,     \* CLICINTCTL
          ie,      \* the interrupts that CLICINTIE enables
          ip,      \* those that CLICINTIP says are pending
          plain,   \* metal_exint_table, for "sw" the CPU controller's table
          vector,  \* metal_mtvt_table
          trap,    \* the handler that runs
          asked,   \* the table that a handler was last accepted into
          switched,   \* the interrupts told another way of delivery since then
          wanted,  \* the level that was last asked for, a byte
          calls    \* how many calls the program made

config == <<mode, nv, nl>>
tables == <<plain, vector, asked, switched>>
vars == <<ready, config, ctl, ie, ip, tables, trap, wanted, calls>>

-----------------------------------------------------------------------------
(* The control byte.  NMBITS is 0: the harts have machine mode only. *)

Below(n) == {b \in 0 .. 7 : b < n}
From(n) == (0 .. 7) \ Below(n)

\* Bits that do not exist read as 1.
Stored(byte) == (byte \cap From(8 - IntBits)) \cup Below(8 - IntBits)
VectorBit == 8 - IntBits

\* mask of __metal_clic0_interrupt_set_level: the NLBITS topmost bits.
LevelMask == From(IF nl > 8 THEN 0 ELSE 8 - nl)

SetLevel(byte, level) == (byte \ LevelMask) \cup (level \cap LevelMask)

\* A form it must not take: the level is not masked out.
SetPriorityOverLevel(byte, priority) ==
    LET mask == From(8 - IntBits) IN
    (byte \ mask) \cup (priority \cap mask)

\* The bits between the level and those that do not exist.
SetPriority(byte, priority) ==
    LET mask == From(8 - IntBits) \ LevelMask IN
    IF nl <= IntBits THEN (byte \ mask) \cup (priority \cap mask) ELSE byte

\* How many bits the getters take for the level.
LevelBits == IF nl >= IntBits THEN IntBits ELSE nl

GetLevel(id) ==
    IF LevelBits = 0 THEN 0 .. 7
    ELSE (ctl[id] \cap From(8 - LevelBits)) \cup Below(8 - LevelBits)

IsVectored(id) == VectorBit \in ctl[id]

\* __metal_clic0_configure_get_vector_mode.
VectorMode ==
    CASE mode = "clic" /\ nv -> "selective_vector"
      [] mode = "clic" /\ ~nv -> "selective_nonvector"
      [] OTHER -> mode

-----------------------------------------------------------------------------

Init ==
    /\ ready = FALSE
    /\ mode = "early" /\ nv = FALSE /\ nl = 0
    /\ ctl \in [Ids -> {Stored({}), Stored(0 .. 7)}]
    /\ ie = {} /\ ip = {}
    /\ plain = [id \in Ids |-> None]
    /\ vector = [id \in Ids |-> None]
    /\ trap = NoTrap
    /\ asked = [id \in Ids |-> "nothing"] /\ switched = {}
    /\ wanted = [id \in Ids |-> {}]
    /\ calls = 0

\* __metal_clic0_configuration: NVBIT, and the four bits of NLBITS.
Configuration(nvbit, nlbits) == nv' = nvbit /\ nl' = nlbits % 16

\* A form it must not take: more level bits than a byte has.
AllLevels == MaxLevels

\* max_levels of the device tree is taken for a number of bits.
InitialBits == Min({MaxLevels, 8})

\* __metal_driver_sifive_clic0_init.  The level of all is a number of NLBITS
\* ones, of which set_level keeps those that reach the topmost bits; the CPU
\* controller's default takes the software interrupt.
InitClic ==
    LET bits == InitialBits IN
    /\ ~ready
    /\ ready' = TRUE
    /\ mode' = "clic" /\ Configuration(FALSE, bits)
    /\ ctl' = [id \in Ids |-> Stored((ctl[id] \cap Below(8 - bits))
                                  \cup (Below(bits) \cap From(8 - bits)))]
    /\ wanted' = [id \in Ids |-> Below(bits)]
    /\ ie' = {}
    /\ plain' = [plain EXCEPT !["sw"] = [fn |-> "default", data |-> "null"]]
    /\ asked' = [asked EXCEPT !["sw"] = "plain"]
    /\ UNCHANGED <<ip, vector, switched, trap, calls>>

Call ==
    /\ ready /\ trap = NoTrap
    /\ calls < MaxCalls
    /\ calls' = calls + 1

\* A call that chooses how interrupts are delivered; the tables stay.
Switch(ids) == switched' = switched \cup ids /\ UNCHANGED <<plain, vector, asked>>

\* interrupt_set_vector_mode: the three modes of a CLIC, all others refused.
SetVectorMode(m) ==
    /\ Call
    /\ Configuration(m # "selective_nonvector", nl)
    /\ mode' = IF m = "hardware_vector" THEN "hardware_vector" ELSE "clic"
    /\ Switch(Ids)
    /\ UNCHANGED <<ready, ctl, ie, ip, trap, wanted>>

\* interrupt_set_threshold: the number of level bits.
SetThreshold(n) ==
    /\ Call
    /\ Configuration(nv, n)
    /\ wanted' = ctl
    /\ UNCHANGED <<ready, mode, ctl, ie, ip, tables, trap>>

\* interrupt_vector_enable is refused in the modes that do not vector,
\* interrupt_vector_disable is not.
SetVectored(id, on) ==
    /\ Call
    /\ on => VectorMode \in {"selective_vector", "hardware_vector"}
    /\ ctl' = [ctl EXCEPT ![id] =
                  Stored(IF on THEN @ \cup {VectorBit} ELSE @ \ {VectorBit})]
    /\ Switch({id})
    /\ UNCHANGED <<ready, config, ie, ip, trap, wanted>>

\* A priority reaches down to the bit that vectors: while that bit counts, a
\* priority or level chooses the way of delivery as well.
SetPriorityOf(id, priority) ==
    /\ Call
    /\ ctl' = [ctl EXCEPT ![id] = Stored(SetPriority(@, priority))]
    /\ Switch(IF nv THEN {id} ELSE {})
    /\ UNCHANGED <<ready, config, ie, ip, trap, wanted>>

\* "level and priority are encoded together".
SetPreemptiveLevel(id, level) ==
    /\ Call
    /\ ctl' = [ctl EXCEPT ![id] =
                  Stored(SetPriority(SetLevel(@, level), level))]
    /\ wanted' = [wanted EXCEPT ![id] = level]
    /\ Switch(IF nv THEN {id} ELSE {})
    /\ UNCHANGED <<ready, config, ie, ip, trap>>

\* A form it must not take: the bit of the interrupt is not looked at.
MayBePlainInSelective(id) == VectorMode # "hardware_vector"

MayBePlain(id) ==
    /\ VectorMode # "hardware_vector"
    /\ ~(VectorMode = "selective_vector" /\ IsVectored(id))

\* interrupt_register; NULL leaves a handler that shuts down.
Register(id, isr) ==
    /\ Call /\ MayBePlain(id)
    /\ plain' = [plain EXCEPT ![id] =
                    IF isr THEN [fn |-> "user", data |-> "user"]
                           ELSE [@ EXCEPT !.fn = "default"]]
    /\ asked' = [asked EXCEPT ![id] = "plain"] /\ switched' = switched \ {id}
    /\ UNCHANGED <<ready, config, ctl, ie, ip, vector, trap, wanted>>

\* interrupt_vector_register.
RegisterVector(id, isr) ==
    /\ Call
    /\ \/ VectorMode = "hardware_vector"
       \/ (VectorMode = "selective_vector" /\ IsVectored(id))
    /\ vector' = [vector EXCEPT ![id] =
                     [fn |-> IF isr THEN "user" ELSE "default_vector",
                      data |-> "none"]]
    /\ asked' = [asked EXCEPT ![id] = "vector"] /\ switched' = switched \ {id}
    /\ UNCHANGED <<ready, config, ctl, ie, ip, plain, trap, wanted>>

\* interrupt_enable and interrupt_disable, also without a handler.
Enable(id) ==
    /\ Call
    /\ ie' = ie \cup {id}
    /\ UNCHANGED <<ready, config, ctl, ip, tables, trap, wanted>>

Disable(id) ==
    /\ Call /\ id \in ie
    /\ ie' = ie \ {id}
    /\ UNCHANGED <<ready, config, ctl, ip, tables, trap, wanted>>

\* interrupt_set and interrupt_clear, or the device.
SetPending(id, on) ==
    /\ ready /\ trap = NoTrap
    /\ ip' = IF on THEN ip \cup {id} ELSE ip \ {id}
    /\ UNCHANGED <<ready, config, ctl, ie, tables, trap, wanted, calls>>

-----------------------------------------------------------------------------

\* A form it must not take: all come through the controller's handler.
HandlerOnePath(id) == plain[id]

\* The hart jumps through the vector table.
Jumps(id) == mode = "hardware_vector" \/ (nv /\ IsVectored(id))

\* The handler that an interrupt ends in: the entry that the hart jumps to, or
\* __metal_exception_handler looks in the CPU controller's table ("sw") or calls
\* __metal_clic0_handler, the first entry of the vector table.
Handler(id) ==
    IF Jumps(id) THEN vector[id] ELSE plain[id]

Interrupt(id) ==
    /\ id \in ie \cap ip /\ trap = NoTrap
    /\ trap' = [id |-> id, fn |-> Handler(id).fn, data |-> Handler(id).data]
    /\ UNCHANGED <<ready, config, ctl, ie, ip, tables, wanted, calls>>

\* The program's handler serves its device; __metal_clic0_handler ignores an
\* interrupt without one.  The defaults do not return, nor does a jump to none.
Return ==
    /\ \/ trap.fn = "user"
       \/ trap.fn = "null" /\ trap.id \in Subs /\ ~Jumps(trap.id)
    /\ ip' = IF trap.fn = "user" THEN ip \ {trap.id} ELSE ip
    /\ trap' = NoTrap
    /\ UNCHANGED <<ready, config, ctl, ie, tables, wanted, calls>>

Next ==
    \/ InitClic \/ Return
    \/ \E m \in {"selective_nonvector", "selective_vector", "hardware_vector"} :
          SetVectorMode(m)
    \/ \E n \in 0 .. IntBits : SetThreshold(n)
    \/ \E id \in Ids :
          \/ Enable(id) \/ Disable(id) \/ Interrupt(id)
          \/ \E on \in BOOLEAN : SetVectored(id, on) \/ SetPending(id, on)
          \/ \E level \in Levels :
                SetPriorityOf(id, level) \/ SetPreemptiveLevel(id, level)
          \/ \E isr \in BOOLEAN : Register(id, isr) \/ RegisterVector(id, isr)

Spec == Init /\ [][Next]_vars

-----------------------------------------------------------------------------

TypeOK ==
    /\ {ready, nv} \subseteq BOOLEAN
    /\ mode \in {"early", "clic", "hardware_vector"}
    /\ nl \in 0 .. 15
    /\ ctl \in [Ids -> SUBSET (0 .. 7)]
    /\ {ie, ip} \subseteq SUBSET Ids
    /\ plain \in [Ids -> [fn : {"null", "default", "user"},
                          data : {"null", "user"}]]
    /\ vector \in [Ids -> [fn : {"null", "default_vector", "user"},
                           data : {"null", "none"}]]
    /\ trap \in [id : Ids \cup {"none"},
                 fn : {"none", "null", "default", "default_vector", "user"},
                 data : {"none", "null", "user"}]
    /\ asked \in [Ids -> {"nothing", "plain", "vector"}] /\ switched \subseteq Ids
    /\ wanted \in [Ids -> SUBSET (0 .. 7)]
    /\ calls \in 0 .. MaxCalls

\* "Register an interrupt handler", "Register an interrupt vector handler"
\* (metal/interrupt.h): whichever of the two was accepted last for an
\* interrupt is where the interrupt goes as long as no call tells the controller
\* to deliver it another way, whatever other interrupts, levels and priorities
\* are set up in between; and again, without a call, once it is back to the way
\* that it had.  The two calls test the mode that the hart and the controller
\* deliver by.
AcceptedHandlerRuns ==
    trap # NoTrap /\ asked[trap.id] # "nothing" =>
        LET way == IF Jumps(trap.id) THEN "vector" ELSE "plain"
            e == IF asked[trap.id] = "plain" THEN plain[trap.id]
                 ELSE vector[trap.id]
        IN trap.id \notin switched \/ way = asked[trap.id] =>
              trap.fn = e.fn /\ trap.data = e.data /\ trap.fn # "null"

\* Level, priority and the vector bit share a byte that every setter reads,
\* changes and writes back: as long as the level leaves a bit to the others,
\* interrupt_get_preemptive_level returns the level that was last set, with
\* ones below.
LevelIsKept ==
    \A id \in Ids : ready /\ nl < IntBits =>
        GetLevel(id) = (wanted[id] \cap LevelMask) \cup Below(8 - nl)

=============================================================================
