-------------------------- MODULE SoftwareInterrupt --------------------------
(***************************************************************************)
(* Software interrupts between harts, and of a hart to itself: the         *)
(* commands of the CLINT (src/drivers/riscv_clint0.c), and those of a CLIC *)
(* (src/drivers/sifive_clic0.c), which keeps the line in two places.  The  *)
(* programs use them to say that there is mail: the sender puts it down    *)
(* and sets the interrupt, the handler clears it and then looks.           *)
(***************************************************************************)
EXTENDS Naturals

CONSTANTS Harts,
          Clic,     \* TRUE: of a CLIC, else of a CLINT
          MaxSent   \* bound: how often somebody sends

SoftwareInterruptAssumption ==
    /\ Clic \in BOOLEAN /\ MaxSent \in Nat
    /\ 0 \in Harts

Actors == Harts \X {"thread", "handler"}

VARIABLES msip,  \* the register of each hart, 0 or 1
          ip,    \* CLICINTIP of the first line, which a CLINT does not have
          call,  \* what each actor is doing
          mail,  \* what waits for a hart
          sent

vars == <<msip, ip, call, mail, sent>>

Idle == [pc |-> "idle", hart |-> 0, value |-> 0]

Init ==
    /\ msip = [h \in Harts |-> 0] /\ ip = 0
    /\ call = [a \in Actors |-> Idle]
    /\ mail = [h \in Harts |-> 0]
    /\ sent = 0

\* A thread does not run while its hart is in the handler.
Runs(a) == a[2] = "thread" => call[<<a[1], "handler">>].pc = "idle"

\* mip.MSIP, or the line of the CLIC.
Pending(h) == IF Clic THEN h = 0 /\ ip = 1 ELSE msip[h] = 1

\* A program sends: metal_cpu_software_set_ipi.  The line of a CLIC is hart 0's,
\* whatever hart is named; the CLIC is used by that hart alone.
Send(a, h) ==
    /\ Clic => a[1] = 0 /\ h = 0
    /\ Runs(a) /\ call[a].pc = "idle" /\ a[2] = "thread" /\ sent < MaxSent
    /\ mail' = [mail EXCEPT ![h] = @ + 1] /\ sent' = sent + 1
    /\ call' = [call EXCEPT ![a] = [pc |-> "msip", hart |-> h, value |-> 1]]
    /\ UNCHANGED <<msip, ip>>

\* interrupt_set of a CLINT: whatever line is named, that of the hart it is on.
SetInterrupt(a) == ~Clic /\ Send(a, a[1])

\* A hart takes the interrupt; its handler begins with
\* metal_cpu_software_clear_ipi.
Interrupt(h) ==
    /\ Pending(h) /\ call[<<h, "handler">>].pc = "idle"
    /\ call' = [call EXCEPT ![<<h, "handler">>] =
                               [pc |-> "msip", hart |-> h, value |-> 0]]
    /\ UNCHANGED <<msip, ip, mail, sent>>

After(a) == IF a[2] = "handler" THEN "look" ELSE "idle"

\* METAL_SOFTWARE_IPI_SET and _CLEAR: the register of the hart; a set of the
\* CLINT reads it back.
WriteMsip(a) ==
    /\ Runs(a) /\ call[a].pc = "msip"
    /\ msip' = [msip EXCEPT ![call[a].hart] = call[a].value]
    /\ call' = [call EXCEPT ![a].pc = IF Clic THEN "ip" ELSE After(a)]
    /\ UNCHANGED <<ip, mail, sent>>

\* A form it must not take: a set leaves the line.
LineStays(value) == 0

\* What a CLIC writes to the line, after the register.
LineOf(value) == value

WriteLine(a) ==
    /\ Runs(a) /\ call[a].pc = "ip"
    /\ ip' = LineOf(call[a].value)
    /\ call' = [call EXCEPT ![a].pc = After(a)]
    /\ UNCHANGED <<msip, mail, sent>>

\* The handler takes all that it finds.
Look(h) ==
    /\ call[<<h, "handler">>].pc = "look"
    /\ mail' = [mail EXCEPT ![h] = 0]
    /\ call' = [call EXCEPT ![<<h, "handler">>] = Idle]
    /\ UNCHANGED <<msip, ip, sent>>

\* METAL_SOFTWARE_MSIP_GET, the register.
Msip(h) == msip[h]

Next ==
    \/ \E h \in Harts : Interrupt(h) \/ Look(h)
    \/ \E a \in Actors : WriteMsip(a) \/ WriteLine(a) \/ SetInterrupt(a)
    \/ \E a \in Actors, h \in Harts : Send(a, h)

\* A hart that may take an interrupt does, and what has begun goes on.
Fairness ==
    /\ \A h \in Harts : WF_vars(Interrupt(h)) /\ WF_vars(Look(h))
    /\ \A a \in Actors : WF_vars(WriteMsip(a)) /\ WF_vars(WriteLine(a))

Spec == Init /\ [][Next]_vars /\ Fairness

-----------------------------------------------------------------------------

TypeOK ==
    /\ msip \in [Harts -> 0 .. 1] /\ ip \in 0 .. 1
    /\ call \in [Actors -> [pc : {"idle", "msip", "ip", "look"}, hart : Harts \cup {0},
                            value : 0 .. 1]]
    /\ mail \in [Harts -> 0 .. MaxSent] /\ sent \in 0 .. MaxSent

\* "Callers of this function assume it's blocking" (riscv_clint0.c): mail whose
\* set has returned is announced, or its reader is at work, though others clear
\* and set the same interrupt meanwhile; and when nobody is at it, an interrupt
\* that the register shows is pending.  Not the other way round: a CLIC whose
\* handler clears between the two writes of a set keeps the line alone.
NoIpiIsLost ==
    /\ \A h \in Harts : mail[h] > 0 =>
          \/ Pending(h) \/ call[<<h, "handler">>].pc # "idle"
          \/ \E a \in Actors : call[a].pc # "idle" /\ call[a].hart = h
    /\ (\A a \in Actors : call[a].pc = "idle") =>
          \A h \in Harts : Msip(h) = 1 => Pending(h)

\* All mail is read.
MailIsRead == \A h \in Harts : mail[h] > 0 ~> mail[h] = 0

=============================================================================
