------------------------------ MODULE Privilege -----------------------------
(***************************************************************************)
(* metal_privilege_drop_to_mode of src/privilege.c: it prepares mstatus    *)
(* and mepc, which a trap writes too, in steps, and ends with mret.        *)
(***************************************************************************)
EXTENDS Naturals

CONSTANTS Modes,   \* the modes below machine mode that the hart has
          Masked   \* programs call it with interrupts disabled

PrivilegeAssumption == Modes \subseteq {"S", "U"} /\ Masked \in BOOLEAN

VARIABLES mode,    \* the mode of the hart
          status,  \* mstatus
          mepc, pc,
          copy,    \* the local mstatus
          to,      \* the mode asked for
          mask     \* MIE when it was asked

vars == <<mode, status, mepc, pc, copy, to, mask>>

Status == [MIE : BOOLEAN, SIE : BOOLEAN, UIE : BOOLEAN, MPIE : BOOLEAN,
           SPIE : BOOLEAN, UPIE : BOOLEAN, MPP : {"M", "S", "U"}]

Reset == [MIE |-> FALSE, SIE |-> FALSE, UIE |-> FALSE, MPIE |-> FALSE,
          SPIE |-> FALSE, UPIE |-> FALSE, MPP |-> "U"]

Init ==
    /\ mode = "M" /\ status = Reset /\ copy = Reset
    /\ mepc = "main" /\ pc = "main" /\ to = "M" /\ mask = FALSE

-----------------------------------------------------------------------------
(* The program, in machine mode. *)

Enable(bit, on) ==
    /\ pc = "main"
    /\ status' = [status EXCEPT ![bit] = on]
    /\ UNCHANGED <<mode, mepc, pc, copy, to, mask>>

\* A form it must not take: the enables of before go on to be pending.
PreparedModeOnly(s, m) == [s EXCEPT !.MPP = m]

\* The local copy with the pending enables and the mode filled in.
Prepared(s, m) ==
    [s EXCEPT !.MPIE = s.MIE, !.SPIE = s.SIE, !.UPIE = s.UIE, !.MPP = m]

Drop(m) ==
    /\ pc = "main" /\ (Masked => ~status.MIE)
    /\ to' = m /\ mask' = status.MIE
    /\ copy' = Prepared(status, m)
    /\ pc' = "csrw mstatus"
    /\ UNCHANGED <<mode, status, mepc>>

WriteStatus ==
    /\ pc = "csrw mstatus"
    /\ status' = copy
    /\ pc' = "csrw mepc"
    /\ UNCHANGED <<mode, mepc, copy, to, mask>>

WriteEpc ==
    /\ pc = "csrw mepc"
    /\ mepc' = "entry"
    /\ pc' = "mret"
    /\ UNCHANGED <<mode, status, copy, to, mask>>

Lowest == IF "U" \in Modes THEN "U" ELSE "M"

\* What mret does, here and at the end of a handler.
Mret ==
    /\ pc \in {"mret", "handler"}
    /\ mode' = status.MPP
    /\ status' = [status EXCEPT !.MIE = status.MPIE, !.MPIE = TRUE,
                               !.MPP = Lowest]
    /\ pc' = mepc
    /\ UNCHANGED <<mepc, copy, to, mask>>

\* An interrupt for machine mode, which lower modes cannot mask.
Trap ==
    /\ pc # "handler" /\ (mode = "M" => status.MIE)
    /\ mepc' = pc
    /\ status' = [status EXCEPT !.MPIE = status.MIE, !.MIE = FALSE, !.MPP = mode]
    /\ mode' = "M" /\ pc' = "handler"
    /\ UNCHANGED <<copy, to, mask>>

Next ==
    \/ \E bit \in {"MIE", "SIE", "UIE"}, on \in BOOLEAN : Enable(bit, on)
    \/ \E m \in Modes \cup {"M"} : Drop(m)
    \/ WriteStatus \/ WriteEpc \/ Mret \/ Trap

Spec == Init /\ [][Next]_vars

-----------------------------------------------------------------------------

TypeOK ==
    /\ mode \in {"M", "S", "U"} /\ {status, copy} \subseteq Status
    /\ {mepc, pc} \subseteq {"main", "csrw mstatus", "csrw mepc", "mret",
                              "handler", "entry"}
    /\ to \in {"M", "S", "U"} /\ mask \in BOOLEAN

\* The entry point runs in the mode that was asked for, with the interrupts that
\* were enabled, also after a handler has returned to it, and no other code of
\* machine mode runs in a lower one.
EntersInTheMode ==
    /\ pc = "entry" => mode = to /\ status.MIE = mask
    /\ pc # "entry" => mode = "M"

=============================================================================
