------------------------------ MODULE Dispatch ------------------------------
(***************************************************************************)
(* How an interrupt or an exception reaches the function that was          *)
(* registered for it: the CPU controllers of src/drivers/riscv_cpu.c, one  *)
(* for each hart, and the controllers that register with them as children: *)
(* CLINT, PLIC, local and global external interrupts.                      *)
(* The controllers are objects in memory that every hart can change; mtvec *)
(* and mie belong to the hart that executes, whichever controller it was   *)
(* handed.                                                                 *)
(***************************************************************************)
EXTENDS Naturals, FiniteSets, FiniteSetsExt

CONSTANTS Harts,     \* the harts, a set of numbers
          Main,      \* the hart whose program initialises the controllers
          Careful,   \* TRUE: every hart has initialised its own CPU controller
                     \* before Main initialises the others
          Rewrites,  \* TRUE: some programs bring a trap vector of their own
          Children,  \* the controllers below the CPU controllers
          Modes,     \* TRUE: programs change the vector mode
          MaxCalls,  \* bound: the calls programs make once the controllers
                     \* they need are initialised
          MaxPending \* bound: the interrupts pending on a hart at a time

DispatchAssumption ==
    /\ Harts \subseteq Nat /\ IsFiniteSet(Harts)
    /\ Main \in Harts
    /\ {Careful, Rewrites, Modes} \subseteq BOOLEAN
    /\ Children \subseteq {"clint", "plic", "local", "global"}
    /\ {MaxCalls, MaxPending} \subseteq Nat

\* METAL_INTERRUPT_ID_SW, _TMR, _EXT and _LC0, which stands for the local ones.
Lines == {"sw", "tmr", "ext", "lc"}
\* "beu" has an entry of its own, and "other" is not the number of anything.
Ids == Lines \cup {"beu", "other"}
Codes == {"break", "fault"}

VARIABLES done,     \* init_done of a hart's CPU controller
          ready,    \* the harts whose own metal_interrupt_init has returned
          table,    \* its metal_int_table
          beu,      \* its metal_int_beu
          except,   \* its metal_exception_table
          mtvec,    \* where a hart goes when it traps
          mie,      \* the interrupts a hart has enabled
          gie,      \* mstatus.MIE
          up,       \* the children whose init_done is set
          work,     \* the init a hart is in the middle of
          pending,  \* the interrupts that are pending on a hart
          trap,     \* what a hart's trap has come to
          asked,    \* what was last registered for a line of a hart
          calls     \* how many calls were made

tables == <<done, ready, table, beu, except>>
csrs == <<mtvec, mie, gie>>
vars == <<tables, csrs, up, work, pending, trap, asked, calls>>

Empty == [fn |-> "null", sub |-> "null", data |-> "null"]
Idle == [op |-> "idle", on |-> Main, next |-> "idle", todo |-> {}]
NoTrap == [fn |-> "none", data |-> "none", id |-> "none"]

Init ==
    /\ done = [h \in Harts |-> FALSE]
    /\ ready = {}
    /\ table = [h \in Harts |-> [id \in Lines |-> Empty]]
    /\ beu = [h \in Harts |-> Empty]
    /\ except = [h \in Harts |-> [c \in Codes |-> "null"]]
    /\ mtvec \in [Harts -> IF Rewrites THEN {"early", "own"} ELSE {"early"}]
    /\ mie = [h \in Harts |-> {}]
    /\ gie = [h \in Harts |-> FALSE]
    /\ up = {}
    /\ work = [h \in Harts |-> Idle]
    /\ pending = [h \in Harts |-> {}]
    /\ trap = [h \in Harts |-> NoTrap]
    /\ asked = [h \in Harts |-> [id \in Lines \cup {"beu"} |-> "nothing"]]
    /\ calls = 0

Free(h) == work[h].op = "idle" /\ trap[h] = NoTrap

\* A hart that has initialised its controller makes one more call.
Calls(h) ==
    /\ h \in ready /\ Free(h)
    /\ calls < MaxCalls
    /\ calls' = calls + 1

-----------------------------------------------------------------------------
(* Registration: what it leaves in an entry. *)

\* A form it must not take: no case for the lines after the first two.
DefaultOfFirstLines(id) ==
    CASE id = "sw" -> "sw_default" [] id = "tmr" -> "tmr_default"
      [] OTHER -> "unset"

\* The function of an entry that NULL was registered for.
DefaultOf(id) ==
    CASE id = "sw" -> "sw_default" [] id = "tmr" -> "tmr_default"
      [] id = "beu" -> "beu_default" [] OTHER -> "default"

\* A form it must not take: the handler's data replaces the child controller.
EntryForgetsChild(e, id, isr, who) ==
    IF isr THEN [fn |-> who, sub |-> who, data |-> who]
           ELSE [e EXCEPT !.fn = DefaultOf(id), !.sub = who]

\* A handler comes with its data; NULL, with the controller that registers.
Entry(e, id, isr, who) ==
    IF isr THEN [e EXCEPT !.fn = who, !.data = who]
    ELSE IF id = "beu" THEN [e EXCEPT !.fn = DefaultOf(id), !.data = who]
    ELSE [e EXCEPT !.fn = DefaultOf(id), !.sub = who]

\* A form it must not take: the bus error is registered in any mode.
RegistrableInAnyMode(h, id) == id # "other"

\* The mode bits of mtvec are read and written on the hart that calls.
VectorMode(h) == mtvec[h]
SetVector(h, mode) == mtvec' = [mtvec EXCEPT ![h] = mode]

\* "Only allow registration of the bus error unit interrupt if interrupt
\* vectoring if off".
Registrable(h, id) ==
    /\ id # "other"
    /\ id = "beu" => VectorMode(h) # "vector"

\* interrupt_register of the controller of hart on, called by hart h.
Register(h, on, id, isr, who) ==
    /\ table' = IF id \in Lines /\ Registrable(h, id)
                  THEN [table EXCEPT ![on][id] = Entry(@, id, isr, who)]
                  ELSE table
    /\ beu' = IF id = "beu" /\ Registrable(h, id)
                THEN [beu EXCEPT ![on] = Entry(@, id, isr, who)]
                ELSE beu
    /\ asked' = IF id # "other" /\ Registrable(h, id)
                  THEN [asked EXCEPT ![on][id] =
                           IF isr THEN who ELSE DefaultOf(id)]
                  ELSE asked

-----------------------------------------------------------------------------
(* Initialisation. *)

\* metal_interrupt_init of the hart's own CPU controller.
InitCpu(h) ==
    /\ Free(h) /\ h \notin ready
    /\ work' = IF done[h] THEN work
               ELSE [work EXCEPT ![h] = [Idle EXCEPT !.op = "clear", !.on = h]]
    /\ ready' = IF done[h] THEN ready \cup {h} ELSE ready
    /\ UNCHANGED <<done, table, beu, except, csrs, up, pending, trap, asked, calls>>

\* The rest of it, once init_done was found to be 0.  The entries are cleared;
\* the trap vector of the calling hart is set, if it has not one of its own.
ClearTables(h) ==
    LET w == work[h] IN
    /\ w.op = "clear"
    /\ table' = [table EXCEPT ![w.on] = [id \in Lines |-> Empty]]
    /\ except' = [except EXCEPT ![w.on] = [c \in Codes |-> "default"]]
    /\ IF mtvec[h] = "early" THEN SetVector(h, "direct") ELSE UNCHANGED mtvec
    /\ done' = [done EXCEPT ![w.on] = TRUE]
    /\ ready' = IF w.next = "idle" THEN ready \cup {h} ELSE ready
    /\ work' = [work EXCEPT ![h].op = w.next]
    /\ UNCHANGED <<beu, mie, gie, up, pending, trap, asked, calls>>

\* Children are initialised once, by Main.
MayInit(h, child) ==
    /\ h = Main /\ Free(h)
    /\ Main \in ready
    /\ Careful => Harts \subseteq ready
    /\ child \in Children \ up

Begin(h, op) ==
    /\ work' = [work EXCEPT ![h] = [Idle EXCEPT !.op = op, !.todo = Harts]]
    /\ UNCHANGED <<tables, csrs, up, pending, trap, asked, calls>>

InitClint(h) == MayInit(h, "clint") /\ Begin(h, "clint")
InitPlic(h) == MayInit(h, "plic") /\ Begin(h, "parent")

\* A loop over the parents goes on with the next one, or ends.
NextParent(h, op, child) ==
    LET left == work[h].todo \ {Min(work[h].todo)} IN
    /\ work' = [work EXCEPT ![h] = IF left = {} THEN Idle
                                   ELSE [@ EXCEPT !.op = op, !.todo = left]]
    /\ up' = IF left = {} THEN up \cup {child} ELSE up

\* The CLINT registers its two lines with the CPU controller of one hart.
ClintParent(h) ==
    LET on == Min(work[h].todo) IN
    /\ work[h].op = "clint"
    /\ table' = [table EXCEPT
                   ![on]["sw"] = Entry(@, "sw", FALSE, "clint"),
                   ![on]["tmr"] = Entry(@, "tmr", FALSE, "clint")]
    /\ asked' = [asked EXCEPT ![on]["sw"] = "sw_default",
                              ![on]["tmr"] = "tmr_default"]
    /\ NextParent(h, "clint", "clint")
    /\ UNCHANGED <<done, ready, beu, except, csrs, pending, trap, calls>>

\* The PLIC initialises the CPU controller of each hart ...
PlicParent(h) ==
    LET on == Min(work[h].todo) IN
    /\ work[h].op = "parent"
    /\ work' = [work EXCEPT ![h] =
                   IF done[on] THEN [@ EXCEPT !.op = "attach"]
                   ELSE [@ EXCEPT !.op = "clear", !.on = on, !.next = "attach"]]
    /\ UNCHANGED <<tables, csrs, up, pending, trap, asked, calls>>

\* ... registers NULL and then its handler there, and enables the line, which
\* is a bit of mie on the hart that calls.
PlicAttach(h) ==
    LET on == Min(work[h].todo) IN
    /\ work[h].op = "attach"
    /\ table' = [table EXCEPT ![on]["ext"] =
                    Entry(Entry(@, "ext", FALSE, "plic"), "ext", TRUE, "plic")]
    /\ asked' = [asked EXCEPT ![on]["ext"] = "plic"]
    /\ mie' = [mie EXCEPT ![h] = @ \cup {"ext"}]
    /\ NextParent(h, "parent", "plic")
    /\ UNCHANGED <<done, ready, beu, except, mtvec, gie, pending, trap, calls>>

\* The local external interrupts register with the controller of Main.
InitLocal(h) ==
    /\ MayInit(h, "local")
    /\ Register(h, Main, "lc", FALSE, "local")
    /\ up' = up \cup {"local"}
    /\ UNCHANGED <<done, ready, except, csrs, work, pending, trap, calls>>

\* The global ones initialise it too, which has nothing left to do.
InitGlobal(h) ==
    /\ MayInit(h, "global")
    /\ Register(h, Main, "lc", FALSE, "global")
    /\ up' = up \cup {"global"}
    /\ UNCHANGED <<done, ready, except, csrs, work, pending, trap, calls>>

-----------------------------------------------------------------------------
(* The calls of a program, for its own hart. *)

\* The controllers that register, enable and disable for their parent, the CPU
\* controller: the CLINT, for the lines that are its own and the caller's, ...
ByClint(id) == id \in {"sw", "tmr"} /\ "clint" \in up

\* ... and the external interrupts, for any id but 0.
ByLocal(h, id) == id = "lc" /\ h = Main /\ "local" \in up
ByGlobal(h, id) == id = "lc" /\ h = Main /\ "global" \in up

\* The rest goes to the CPU controller itself.
ByCpu(h, id) == id \in {"ext", "beu", "other"} \/ (id = "lc" /\ h # Main)

ReadyFor(h, id) ==
    Calls(h) /\ (ByClint(id) \/ ByLocal(h, id) \/ ByGlobal(h, id) \/ ByCpu(h, id))

\* metal_interrupt_register_handler, through the CPU controller or the child
\* that passes it on: the CLINT does so in direct and vector mode only, for
\* the caller's lines.  The program keeps the line disabled meanwhile, and
\* leaves the default handlers of the CLINT's lines to the CLINT: NULL would
\* put the program's data where the CLINT is.
RegisterHandler(h, id, isr) ==
    /\ ReadyFor(h, id) /\ id # "ext" /\ id \notin mie[h]
    /\ id = "beu" => ~gie[h]
    /\ id \in {"sw", "tmr"} => isr
    /\ Register(h, h, id, isr, "user")
    /\ UNCHANGED <<done, ready, except, csrs, up, work, pending, trap>>

\* The functions that set and clear a bit of mie.
WithBit(bits, id, on) == IF on THEN bits \cup {id} ELSE bits \ {id}

\* metal_interrupt_enable and _disable: id 0 is mstatus.MIE, "beu" is refused.
\* A hart turns its interrupts on after it has initialised its controller.
SetEnable(h, id, on) ==
    /\ ReadyFor(h, id)
    /\ id \in Lines \ {"ext"}
    /\ on => asked[h][id] # "nothing"
    /\ mie' = [mie EXCEPT ![h] = WithBit(@, id, on)]
    /\ UNCHANGED <<tables, mtvec, gie, up, work, pending, trap, asked>>

\* A hart other than Main waits until Main has set everything up.
SetGlobal(h, on) ==
    /\ Calls(h)
    /\ h # Main => Free(Main)
    /\ gie' = [gie EXCEPT ![h] = on]
    /\ UNCHANGED <<tables, mtvec, mie, up, work, pending, trap, asked>>

\* metal_interrupt_set_vector_mode, also through the CLINT: direct mode enters
\* __metal_exception_handler, vector mode __metal_vector_table.  A program
\* that vectors does not expect bus errors.
SetVectorMode(h, mode) ==
    /\ Modes /\ Calls(h)
    /\ mode = "vector" => asked[h]["beu"] = "nothing"
    /\ SetVector(h, mode)
    /\ UNCHANGED <<tables, mie, gie, up, work, pending, trap, asked>>

\* metal_cpu_exception_register: a code out of range is refused.
RegisterException(h, code) ==
    /\ Calls(h) /\ code \in Codes
    /\ except' = [except EXCEPT ![h][code] = "user_exception"]
    /\ UNCHANGED <<done, ready, table, beu, csrs, up, work, pending, trap, asked>>

\* metal_cpu_software_set_ipi goes through the child that registered "sw"
\* with the caller's controller; without one it fails.
SetIpi(h, to) ==
    /\ Calls(h) /\ table[h]["sw"].sub = "clint"
    /\ pending' = [pending EXCEPT ![to] = @ \cup {"sw"}]
    /\ UNCHANGED <<tables, csrs, up, work, trap, asked>>

-----------------------------------------------------------------------------
(* Traps. *)

\* A device raises a line; software interrupts come from SetIpi.
Raise(h, id) ==
    /\ id # "sw" /\ Cardinality(pending[h]) < MaxPending
    /\ id = "beu" => asked[h]["beu"] # "nothing"
    /\ pending' = [pending EXCEPT ![h] = @ \cup {id}]
    /\ UNCHANGED <<tables, csrs, up, work, trap, asked, calls>>

Call(e, id) == [fn |-> e.fn, data |-> e.data, id |-> id]
Stray(fn, id) == [fn |-> fn, data |-> "none", id |-> id]

\* A form it must not take: the bus error is looked up with the others.
ByExceptionHandlerOneTable(h, id) ==
    IF id \in Lines THEN Call(table[h][id], id)
                    ELSE Call(table[h]["lc"], id)

\* __metal_exception_handler, for an interrupt in direct mode.
ByExceptionHandler(h, id) ==
    IF id = "beu" THEN Call(beu[h], id) ELSE Call(table[h][id], id)

\* metal_software_interrupt_vector_handler and its like call what the entry of
\* their line holds.
WeakHandler(h, id) == Call(table[h][id], id)

\* __metal_vector_table: the bus error's number is past its end.
ByVectorTable(h, id) ==
    IF id \in Lines THEN WeakHandler(h, id) ELSE Stray("stray", id)

\* An interrupt is taken between two instructions of the program or of the
\* init that a hart is in.  The bus error has no bit in mie.
Interrupt(h, id) ==
    /\ gie[h] /\ trap[h] = NoTrap
    /\ id \in pending[h] \cap (mie[h] \cup {"beu"})
    /\ trap' = [trap EXCEPT ![h] =
                   CASE mtvec[h] = "direct" -> ByExceptionHandler(h, id)
                     [] mtvec[h] = "vector" -> ByVectorTable(h, id)
                     [] OTHER -> Stray(mtvec[h], id)]
    /\ gie' = [gie EXCEPT ![h] = FALSE]
    /\ UNCHANGED <<tables, mtvec, mie, up, work, pending, asked, calls>>

\* The exception handler in direct mode, the first entry of the table, which
\* shuts down, in vector mode.
Exception(h, code) ==
    /\ h \in ready /\ Free(h)
    /\ trap' = [trap EXCEPT ![h] =
                   CASE mtvec[h] = "direct" -> Stray(except[h][code], code)
                     [] mtvec[h] = "vector" -> Stray("default", code)
                     [] OTHER -> Stray(mtvec[h], code)]
    /\ UNCHANGED <<tables, csrs, up, work, pending, asked, calls>>

\* __metal_default_sw_handler calls the exception handler of mcause 3.
SoftwareDefault(h) ==
    /\ trap[h].fn = "sw_default"
    /\ trap' = [trap EXCEPT ![h].fn = except[h]["break"]]
    /\ UNCHANGED <<tables, csrs, up, work, pending, asked, calls>>

\* The default timer handler sets mtimecmp through the child that registered
\* the line; the program's functions and the PLIC's serve their device.
Serves(h) ==
    \/ trap[h].fn \in {"user", "user_exception", "plic", "own"}
    \/ trap[h].fn = "tmr_default" /\ table[h]["tmr"].sub = "clint"

\* mret.  A function that shuts down, NULL and early_trap_vector do not return.
Return(h) ==
    /\ Serves(h) \/ trap[h].fn \in {"tmr_default", "beu_default"}
    /\ pending' = [pending EXCEPT ![h] =
                      IF Serves(h) THEN @ \ {trap[h].id} ELSE @]
    /\ gie' = [gie EXCEPT ![h] = gie[h] \/ trap[h].id \in Ids]
    /\ trap' = [trap EXCEPT ![h] = NoTrap]
    /\ UNCHANGED <<tables, mtvec, mie, up, work, asked, calls>>

InitStep(h) ==
    ClearTables(h) \/ ClintParent(h) \/ PlicParent(h) \/ PlicAttach(h)

TrapStep(h) ==
    (\E id \in Ids : Interrupt(h, id)) \/ SoftwareDefault(h) \/ Return(h)

Next ==
    \E h \in Harts :
        \/ InitCpu(h) \/ InitClint(h) \/ InitPlic(h)
        \/ InitLocal(h) \/ InitGlobal(h)
        \/ InitStep(h) \/ TrapStep(h)
        \/ \E id \in Ids, isr \in BOOLEAN : RegisterHandler(h, id, isr)
        \/ \E id \in Lines, on \in BOOLEAN : SetEnable(h, id, on)
        \/ \E on \in BOOLEAN : SetGlobal(h, on)
        \/ \E mode \in {"direct", "vector"} : SetVectorMode(h, mode)
        \/ \E code \in Codes : RegisterException(h, code) \/ Exception(h, code)
        \/ \E to \in Harts : SetIpi(h, to)
        \/ \E id \in Lines \cup {"beu"} : Raise(h, id)

Spec == Init /\ [][Next]_vars

-----------------------------------------------------------------------------

Functions == {"null", "user", "plic", "sw_default", "tmr_default",
              "beu_default", "default", "user_exception"}
Entries == [fn : Functions, sub : {"null", "user"} \cup Children,
            data : {"null", "user"} \cup Children]

TypeOK ==
    /\ done \in [Harts -> BOOLEAN]
    /\ ready \subseteq Harts
    /\ table \in [Harts -> [Lines -> Entries]]
    /\ beu \in [Harts -> Entries]
    /\ except \in [Harts -> [Codes -> {"null", "default", "user_exception"}]]
    /\ mtvec \in [Harts -> {"early", "own", "direct", "vector"}]
    /\ mie \in [Harts -> SUBSET Lines]
    /\ gie \in [Harts -> BOOLEAN]
    /\ up \subseteq Children
    /\ work \in [Harts -> [op : {"idle", "clear", "clint", "parent", "attach"},
                           on : Harts, next : {"idle", "attach"},
                           todo : SUBSET Harts]]
    /\ pending \in [Harts -> SUBSET (Lines \cup {"beu"})]
    /\ trap \in [Harts -> [fn : Functions \cup {"none", "stray", "early", "own"},
                           data : {"none", "null", "user"} \cup Children,
                           id : Ids \cup Codes \cup {"none"}]]
    /\ asked \in [Harts -> [Lines \cup {"beu"} -> Functions \cup {"nothing"}]]

\* "Register an interrupt handler ... @return 0 upon success"
\* (metal/interrupt.h): an interrupt that a hart takes is answered by the
\* function that was registered for it last, with the data that came with it,
\* in either mode and whoever initialised a controller meanwhile.
LastRegisteredRuns ==
    \A h \in Harts : trap[h].id \in Ids /\ trap[h].fn \notin {"own", "early"} =>
        /\ trap[h].fn \in {asked[h][trap[h].id], except[h]["break"]}
        /\ trap[h].fn = "user" => trap[h].data = "user"
        /\ trap[h].fn = "plic" => trap[h].data = "plic"

\* "Set the real trap handler" (riscv_cpu.c): a hart whose CPU controller is
\* initialised does not trap to early_trap_vector, where it would spin, to an
\* entry that holds NULL, or past the vector table.
InitialisedHartsTrapWell ==
    \A h \in ready : trap[h].fn \notin {"early", "null", "stray"}

\* "To initialize the Freedom Metal exception handlers, initialize CPU
\* interrupts" (doc/sphinx/devguide/exceptions.rst): a hart whose own
\* metal_interrupt_init has returned does not trap to early_trap_vector.
InitSetsTrapVector ==
    \A h \in ready : mtvec[h] # "early"

\* The default timer handler, metal_cpu_set_mtimecmp and
\* metal_cpu_software_set_ipi find the CLINT in the entry of its line: whatever
\* is registered there, in whatever order, it stays.
ClintStaysReachable ==
    "clint" \in up => \A h \in Harts : table[h]["sw"].sub = "clint"
                                     /\ table[h]["tmr"].sub = "clint"

=============================================================================
