------------------------------ MODULE BusError ------------------------------
(***************************************************************************)
(* The bus-error unit of a hart, src/drivers/sifive_buserror0.c: which     *)
(* events are recorded, which of the recorded ones interrupt the hart or   *)
(* the platform, and the clearing of recorded events, a read and a write   *)
(* of a register that the unit sets bits of.                               *)
(***************************************************************************)
EXTENDS Integers

CONSTANTS Events,   \* the events that the unit knows
          Masks     \* the sets of events that the program names in a call

BusErrorAssumption == Masks \subseteq SUBSET Events

VARIABLES enable, accrued, cause,   \* the registers
          platform, local,          \* the events that raise either interrupt
          op,                       \* the call that clears recorded events
          rc,                       \* what metal_buserror_set_event_enabled returned
          recorded, wants           \* what the program turned on, last

vars == <<enable, accrued, cause, platform, local, op, rc, recorded, wants>>

None == 0
NoOp == [pc |-> "idle", events |-> {}, seen |-> {}]

\* The constructor enables every event of every hart's unit.
Init ==
    /\ enable = Events
    /\ accrued = {} /\ cause = None
    /\ platform = {} /\ local = {}
    /\ op = NoOp /\ rc = {}
    /\ recorded = Events
    /\ wants = [line \in {"platform", "local"} |-> {}]

\* An event is recorded, and is the cause if none is latched.
Occurs(e) ==
    /\ e \in enable
    /\ accrued' = accrued \cup {e}
    /\ cause' = IF cause = None THEN e ELSE cause
    /\ UNCHANGED <<enable, platform, local, op, rc, recorded, wants>>

Change(mask, events, on) == IF on THEN mask \cup events ELSE mask \ events

\* metal_buserror_set_event_enabled returns 0, or what the register holds then
\* if that is none of the events: also when it was told to disable them.
SetEventEnabled(events, on) ==
    /\ op.pc = "idle" /\ events # {}
    /\ enable' = Change(enable, events, on)
    /\ rc' = IF events \cap enable' = {} THEN enable' ELSE {}
    /\ recorded' = Change(recorded, events, on)
    /\ UNCHANGED <<accrued, cause, platform, local, op, wants>>

\* A form it must not take: both interrupts are set.
BothLines(line) == {"platform", "local"}

LineOf(line) == {line}

\* metal_buserror_set_platform_interrupt and metal_buserror_set_local_interrupt.
SetInterrupt(line, events, on) ==
    /\ op.pc = "idle" /\ events # {}
    /\ platform' = IF "platform" \in LineOf(line)
                   THEN Change(platform, events, on) ELSE platform
    /\ local' = IF "local" \in LineOf(line)
                THEN Change(local, events, on) ELSE local
    /\ wants' = [wants EXCEPT ![line] = Change(@, events, on)]
    /\ UNCHANGED <<enable, accrued, cause, op, rc, recorded>>

\* metal_buserror_clear_cause: the next event is latched.
ClearCause ==
    /\ op.pc = "idle"
    /\ cause' = None
    /\ UNCHANGED <<enable, accrued, platform, local, op, rc, recorded, wants>>

\* metal_buserror_clear_event_accrued reads the register ...
BeginClear(events) ==
    /\ op.pc = "idle" /\ events # {}
    /\ op' = [pc |-> "write", events |-> events, seen |-> accrued]
    /\ UNCHANGED <<enable, accrued, cause, platform, local, rc, recorded, wants>>

\* A form it must not take: all that is recorded is cleared.
ClearedAll == {}

\* ... and writes it back without the events.
Kept == op.seen \ op.events

WriteClear ==
    /\ op.pc = "write"
    /\ accrued' = Kept
    /\ op' = NoOp
    /\ UNCHANGED <<enable, cause, platform, local, rc, recorded, wants>>

Next ==
    \/ \E e \in Events : Occurs(e)
    \/ \E events \in Masks :
          \/ BeginClear(events)
          \/ \E on \in BOOLEAN :
                \/ SetEventEnabled(events, on)
                \/ \E line \in {"platform", "local"} :
                      SetInterrupt(line, events, on)
    \/ ClearCause \/ WriteClear

Spec == Init /\ [][Next]_vars

-----------------------------------------------------------------------------

TypeOK ==
    /\ {enable, accrued, platform, local, rc, recorded} \subseteq SUBSET Events
    /\ cause \in Events \cup {None}
    /\ op.pc \in {"idle", "write"} /\ {op.events, op.seen} \subseteq SUBSET Events

\* Either interrupt is raised just for a recorded event that the program turned
\* it on for since it last turned it off, whatever it did with the other.
LinesAsAsked ==
    /\ enable = recorded
    /\ accrued \cap platform = accrued \cap wants["platform"]
    /\ accrued \cap local = accrued \cap wants["local"]

\* "Clear the given event from the accrued register" (sifive_buserror0.h): an
\* event that another call does not name stays recorded, unless it comes after
\* that call has read the register.
OtherEventsStay ==
    [][\A e \in Events :
          e \in accrued /\ e \notin accrued' =>
             e \in op.events \/ e \notin op.seen]_vars

=============================================================================
