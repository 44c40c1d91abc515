---------------------------- MODULE MCInterrupts ----------------------------
(***************************************************************************)
(* The ways an interrupt comes to its handler, in one run: through the CPU *)
(* controller with its children (on one hart, and on two of which one      *)
(* initialises for both), through the PLIC (to two harts, and to one that  *)
(* uses every call), or through the CLIC.  A behaviour is about one of     *)
(* these systems, and the others stay as they are initially.               *)
(***************************************************************************)
EXTENDS Integers

CONSTANTS Subs, IntBits, MaxLevels, Levels, ClicCalls   \* of Clic

VARIABLES unit,   \* the part that this behaviour is about
          done, cpuReady, cpuTable, beu, except, mtvec, mie, gie, up, work,
          cpuPending, cpuTrap, cpuAsked, cpuCalls,   \* Dispatch
          line, raises, plicPending, closed, enabled, plicAsked, priority,
          threshold, plicTable, data, call, irq, off,   \* Plic
          clicReady, mode, nv, nl, ctl, ie, ip, plain, vector, clicTrap,
          clicAsked, switched, wanted, clicCalls   \* Clic

cpuVars == <<done, cpuReady, cpuTable, beu, except, mtvec, mie, gie, up, work,
             cpuPending, cpuTrap, cpuAsked, cpuCalls>>
plicVars == <<line, raises, plicPending, closed, enabled, plicAsked, priority,
              threshold, plicTable, data, call, irq, off>>
clicVars == <<clicReady, mode, nv, nl, ctl, ie, ip, plain, vector, clicTrap,
              clicAsked, switched, wanted, clicCalls>>
vars == <<unit, cpuVars, plicVars, clicVars>>

\* A single hart, every controller, and programs that change the vector mode or
\* bring a trap vector of their own.
One == INSTANCE DispatchProof WITH
    Harts <- {0}, Main <- 0, Careful <- TRUE, Rewrites <- TRUE, Modes <- TRUE,
    Children <- {"clint", "plic", "local", "global"}, MaxCalls <- 3,
    MaxPending <- 1, ready <- cpuReady, table <- cpuTable,
    pending <- cpuPending, trap <- cpuTrap, asked <- cpuAsked,
    calls <- cpuCalls

\* Two harts: hart 0 initialises CLINT and PLIC once both are ready for it.
Two == INSTANCE DispatchProof WITH
    Harts <- {0, 1}, Main <- 0, Careful <- TRUE, Rewrites <- FALSE,
    Modes <- FALSE, Children <- {"clint", "plic"}, MaxCalls <- 2,
    MaxPending <- 1, ready <- cpuReady, table <- cpuTable,
    pending <- cpuPending, trap <- cpuTrap, asked <- cpuAsked,
    calls <- cpuCalls

\* Two harts, each of which enables and disables for itself.
Shared == INSTANCE PlicProof WITH
    Harts <- {0, 1}, Contexts <- {0, 1}, Context <- [h \in {0, 1} |-> h],
    NumInterrupts <- 3, WordBits <- 32, MaxPriority <- 7, Priorities <- {},
    Thresholds <- {}, Registrars <- {0}, Defaults <- TRUE, Masks <- {},
    IsrCalls <- FALSE, Raises <- 1, pending <- plicPending,
    asked <- plicAsked, table <- plicTable

\* One hart, which also uses the affinity calls for itself and another context.
Alone == INSTANCE PlicProof WITH
    Harts <- {1}, Contexts <- {0, 1, 2}, Context <- [h \in {1} |-> h],
    NumInterrupts <- 3, WordBits <- 32, MaxPriority <- 7,
    Priorities <- {3, 7}, Thresholds <- {2}, Registrars <- {1},
    Defaults <- FALSE, Masks <- {{1, 2}}, IsrCalls <- FALSE, Raises <- 1,
    pending <- plicPending, asked <- plicAsked, table <- plicTable

\* A hart with a CLIC; the run gives it 8 levels.
Clic == INSTANCE Clic WITH
    MaxCalls <- ClicCalls, ready <- clicReady, trap <- clicTrap,
    asked <- clicAsked, calls <- clicCalls

ASSUME Instances ==
    /\ One!DispatchAssumption /\ Two!DispatchAssumption
    /\ Shared!PlicAssumption /\ Alone!PlicAssumption
    /\ Clic!ClicAssumption

Init ==
    /\ unit \in {"one", "two", "shared", "alone", "clic"}
    /\ IF unit = "two" THEN Two!Init ELSE One!Init
    /\ unit \notin {"one", "two"} => mtvec = [h \in {0} |-> "early"]
    /\ IF unit = "shared" THEN Shared!Init ELSE Alone!Init
    /\ Clic!Init
    /\ unit # "clic" => ctl = [id \in DOMAIN ctl |-> ctl["sw"]]
                       /\ ctl["sw"] = Clic!Stored({})

Next ==
    \/ unit = "one" /\ One!Next /\ UNCHANGED <<unit, plicVars, clicVars>>
    \/ unit = "two" /\ Two!Next /\ UNCHANGED <<unit, plicVars, clicVars>>
    \/ unit = "shared" /\ Shared!Next /\ UNCHANGED <<unit, cpuVars, clicVars>>
    \/ unit = "alone" /\ Alone!Next /\ UNCHANGED <<unit, cpuVars, clicVars>>
    \/ unit = "clic" /\ Clic!Next /\ UNCHANGED <<unit, cpuVars, plicVars>>

Spec == Init /\ [][Next]_vars

-----------------------------------------------------------------------------
(* What the modules say of each system; see there for the code it is about. *)

TypeOK ==
    /\ IF unit = "two" THEN Two!TypeOK ELSE One!TypeOK
    /\ IF unit = "shared" THEN Shared!TypeOK ELSE Alone!TypeOK
    /\ Clic!TypeOK

\* A source that both harts have enabled is served by one of them.
OneHartServes == unit = "shared" => Shared!OneHartServes

\* A source that waits for its completion is pending or in a handler.
NoSourceIsLost ==
    IF unit = "shared" THEN Shared!NoSourceIsLost ELSE Alone!NoSourceIsLost

\* When no call is under way a context has enabled what was asked of it, by
\* enable, disable, vector and affinity calls of its own hart and of others.
EnabledAsAsked ==
    IF unit = "shared" THEN Shared!EnabledAsAsked ELSE Alone!EnabledAsAsked

\* A program's PLIC handler is called with the data registered with it.
HandlerGetsItsData ==
    IF unit = "shared" THEN Shared!HandlerGetsItsData
                       ELSE Alone!HandlerGetsItsData

\* The function that was registered last, and accepted, for an interrupt is the
\* one that answers it: in the CPU controller in either mode, and in the CLIC,
\* as a plain or a vectored handler, as long as no call tells the controller to
\* deliver it the other way, and whenever it is back to the way that it had.
LastRegisteredRuns ==
    /\ IF unit = "two" THEN Two!LastRegisteredRuns ELSE One!LastRegisteredRuns
    /\ Clic!AcceptedHandlerRuns

\* A hart that has initialised its controller traps to a function.
InitialisedHartsTrapWell ==
    IF unit = "two" THEN Two!InitialisedHartsTrapWell
                    ELSE One!InitialisedHartsTrapWell

\* The CLINT stays in the entries of its lines, whatever is registered there.
ClintStaysReachable ==
    IF unit = "two" THEN Two!ClintStaysReachable ELSE One!ClintStaysReachable

\* A CLIC interrupt keeps the level that was set last, though priority and
\* vector bit share its byte.
LevelIsKept == Clic!LevelIsKept

=============================================================================
