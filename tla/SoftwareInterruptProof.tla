------------------------ MODULE SoftwareInterruptProof ------------------------
(***************************************************************************)
(* Proof that no interrupt between harts is lost, for any number of harts, *)
(* with a CLINT and with a CLIC.  What is needed beyond the promise is who *)
(* may be writing what: threads set, a hart's handler clears the hart's    *)
(* own, and on a CLIC, of which only hart 0 has the line, the register     *)
(* shows an interrupt only while the line does or is about to.             *)
(***************************************************************************)
EXTENDS SoftwareInterrupt, TLAPS

Thread0 == <<0, "thread">>
Handler(h) == <<h, "handler">>

\* Everything has its type, and there is no more mail than was sent.
Types ==
    /\ msip \in [Harts -> 0 .. 1] /\ ip \in 0 .. 1
    /\ call \in [Actors -> [pc : {"idle", "msip", "ip", "look"}, hart : Harts,
                            value : 0 .. 1]]
    /\ sent \in 0 .. MaxSent /\ mail \in [Harts -> 0 .. sent]

\* Threads set, handlers clear what is their own.
Writers ==
    \A a \in Actors : call[a].pc # "idle" =>
        /\ a[2] = "thread" => call[a].value = 1 /\ call[a].pc # "look"
        /\ a[2] = "handler" => call[a].value = 0 /\ call[a].hart = a[1]
        /\ call[a].pc = "ip" => Clic
        /\ Clic => a[1] = 0 /\ call[a].hart = 0

\* Mail is announced, or somebody is at it.
Announced ==
    \A h \in Harts : mail[h] > 0 =>
        \/ Pending(h) \/ call[Handler(h)].pc # "idle"
        \/ \E a \in Actors : call[a].pc # "idle" /\ call[a].hart = h

\* Where the register and the line of a CLIC may differ.
Line ==
    Clic =>
        /\ msip[0] = 1 => ip = 1 \/ call[Thread0].pc = "ip"
        /\ call[Handler(0)].pc \in {"ip", "look"} => msip[0] = 0
        /\ \A h \in Harts \ {0} : msip[h] = 0

IInv == Types /\ Writers /\ Announced /\ Line

-----------------------------------------------------------------------------

LEMMA Initially ==
    ASSUME SoftwareInterruptAssumption, Init
    PROVE  IInv
  BY SMT DEF SoftwareInterruptAssumption, Init, IInv, Types, Writers, Announced, Line,
         Actors, Idle, Pending, Thread0, Handler

\* A send puts the mail down with its set under way.
LEMMA SendStep ==
    ASSUME SoftwareInterruptAssumption, IInv, NEW a \in Actors, NEW h \in Harts, Send(a, h)
    PROVE  IInv'
  <1>. USE DEF SoftwareInterruptAssumption, Actors, Thread0, Handler
  <1>1. /\ call' = [call EXCEPT ![a] = [pc |-> "msip", hart |-> h, value |-> 1]]
        /\ call[a].pc = "idle" /\ a[2] = "thread" /\ UNCHANGED <<msip, ip>>
        /\ mail' = [mail EXCEPT ![h] = @ + 1] /\ sent' = sent + 1 /\ sent < MaxSent
        /\ Clic => a[1] = 0 /\ h = 0
    BY DEF Send
  <1>2. Types'
    BY <1>1 DEF IInv, Types
  <1>3. Writers'
    BY <1>1 DEF IInv, Types, Writers
  <1>4. Announced'
    <2>. SUFFICES ASSUME NEW g \in Harts, mail'[g] > 0
                  PROVE  \/ Pending(g)' \/ call'[Handler(g)].pc # "idle"
                         \/ \E b \in Actors : call'[b].pc # "idle" /\ call'[b].hart = g
      BY DEF Announced
    <2>1. CASE g = h
      BY <1>1, <2>1 DEF IInv, Types
    <2>2. CASE g # h
      BY <1>1, <2>2 DEF IInv, Types, Announced, Pending
    <2>. QED  BY <2>1, <2>2
  <1>5. Line'
    BY <1>1 DEF IInv, Types, Line
  <1>. QED  BY <1>2, <1>3, <1>4, <1>5 DEF IInv

\* A hart takes an interrupt: its handler is at work.
LEMMA InterruptStep ==
    ASSUME SoftwareInterruptAssumption, IInv, NEW h \in Harts, Interrupt(h)
    PROVE  IInv'
  <1>. USE DEF SoftwareInterruptAssumption, Actors, Thread0, Handler
  <1>1. /\ call' = [call EXCEPT ![<<h, "handler">>] =
                                   [pc |-> "msip", hart |-> h, value |-> 0]]
        /\ call[<<h, "handler">>].pc = "idle" /\ UNCHANGED <<msip, ip, mail, sent>>
        /\ Clic => h = 0
    BY DEF Interrupt, Pending
  <1>2. Types'
    BY <1>1 DEF IInv, Types
  <1>3. Writers'
    BY <1>1 DEF IInv, Types, Writers
  <1>4. Announced'
    BY <1>1 DEF IInv, Types, Announced, Pending
  <1>5. Line'
    BY <1>1 DEF IInv, Types, Line
  <1>. QED  BY <1>2, <1>3, <1>4, <1>5 DEF IInv

\* The register is written: a set of a CLINT is announced by it, a clear has the
\* handler still to look.
LEMMA WriteMsipStep ==
    ASSUME SoftwareInterruptAssumption, IInv, NEW a \in Actors, WriteMsip(a)
    PROVE  IInv'
  <1>. USE DEF SoftwareInterruptAssumption, Actors, Thread0, Handler
  <1>1. /\ msip' = [msip EXCEPT ![call[a].hart] = call[a].value]
        /\ call' = [call EXCEPT ![a].pc = IF Clic THEN "ip" ELSE After(a)]
        /\ call[a].pc = "msip" /\ Runs(a) /\ UNCHANGED <<ip, mail, sent>>
    BY DEF WriteMsip
  <1>2. /\ call[a].hart \in Harts /\ call[a].value \in 0 .. 1
        /\ a[2] = "thread" => call[a].value = 1 /\ After(a) = "idle"
        /\ a[2] = "handler" => call[a].value = 0 /\ call[a].hart = a[1] /\ After(a) = "look"
        /\ a[2] = "thread" \/ a[2] = "handler"
        /\ Clic => a[1] = 0 /\ call[a].hart = 0
    BY <1>1 DEF IInv, Types, Writers, After
  <1>3. Types'
    BY <1>1, <1>2 DEF IInv, Types
  <1>4. Writers'
    BY <1>1, <1>2 DEF IInv, Types, Writers
  <1>5. Announced'
    <2>. SUFFICES ASSUME NEW h \in Harts, mail'[h] > 0
                  PROVE  \/ Pending(h)' \/ call'[Handler(h)].pc # "idle"
                         \/ \E b \in Actors : call'[b].pc # "idle" /\ call'[b].hart = h
      BY DEF Announced
    <2>1. CASE Clic
      BY <1>1, <1>2, <2>1 DEF IInv, Types, Announced, Pending
    <2>2. CASE ~Clic /\ a[2] = "thread" /\ call[a].hart = h
      BY <1>1, <1>2, <2>2 DEF IInv, Types, Pending
    <2>3. CASE ~Clic /\ a[2] = "handler" /\ call[a].hart = h
      BY <1>1, <1>2, <2>3 DEF IInv, Types
    <2>4. CASE ~Clic /\ call[a].hart # h
      BY <1>1, <1>2, <2>4 DEF IInv, Types, Announced, Pending
    <2>. QED  BY <1>2, <2>1, <2>2, <2>3, <2>4
  <1>6. Line'
    <2>. SUFFICES ASSUME Clic PROVE Line'
      BY DEF Line
    <2>0. /\ a = Thread0 \/ a = Handler(0)
          /\ call' = [call EXCEPT ![a].pc = "ip"]
          /\ \A h \in Harts \ {0} : msip'[h] = 0
      BY <1>1, <1>2 DEF IInv, Types, Line
    <2>1. CASE a[2] = "thread"
      <3>0. a = Thread0
        BY <2>0, <2>1, "handler" # "thread"
      <3>1. call[Handler(0)].pc = "idle"
        BY <1>1, <2>1, <3>0 DEF Runs
      <3>3. Handler(0) # a /\ Handler(0) \in Actors
        BY <3>0
      <3>4. call'[Handler(0)].pc = "idle"
        BY <2>0, <3>1, <3>3 DEF IInv, Types
      <3>2. call'[Thread0].pc = "ip"
        BY <2>0, <3>0 DEF IInv, Types
      <3>. QED  BY <2>0, <3>2, <3>4 DEF Line
    <2>2. CASE a[2] = "handler"
      BY <1>1, <1>2, <2>2 DEF IInv, Types, Line
    <2>. QED  BY <1>2, <2>1, <2>2
  <1>. QED  BY <1>3, <1>4, <1>5, <1>6 DEF IInv

\* A CLIC's line is written after the register.
LEMMA WriteLineStep ==
    ASSUME SoftwareInterruptAssumption, IInv, NEW a \in Actors, WriteLine(a)
    PROVE  IInv'
  <1>. USE DEF SoftwareInterruptAssumption, Actors, Thread0, Handler
  <1>1. /\ ip' = call[a].value
        /\ call' = [call EXCEPT ![a].pc = After(a)]
        /\ call[a].pc = "ip" /\ UNCHANGED <<msip, mail, sent>>
    BY DEF WriteLine, LineOf
  <1>2. /\ Clic /\ a[1] = 0 /\ call[a].hart = 0 /\ call[a].value \in 0 .. 1
        /\ a[2] = "thread" => call[a].value = 1 /\ After(a) = "idle"
        /\ a[2] = "handler" => call[a].value = 0 /\ After(a) = "look"
        /\ a[2] = "thread" \/ a[2] = "handler"
        /\ a = Thread0 \/ a = Handler(0)
    BY <1>1 DEF IInv, Types, Writers, After
  <1>3. Types'
    BY <1>1, <1>2 DEF IInv, Types
  <1>4. Writers'
    BY <1>1, <1>2 DEF IInv, Types, Writers
  <1>5. Announced'
    <2>1. CASE a = Thread0
      BY <1>1, <1>2, <2>1 DEF IInv, Types, Writers, Announced, Pending
    <2>2. CASE a = Handler(0)
      BY <1>1, <1>2, <2>2 DEF IInv, Types, Writers, Announced, Pending
    <2>. QED  BY <1>2, <2>1, <2>2
  <1>6. Line'
    BY <1>1, <1>2 DEF IInv, Types, Line
  <1>. QED  BY <1>3, <1>4, <1>5, <1>6 DEF IInv

\* The handler takes all the mail of its hart.
LEMMA LookStep ==
    ASSUME SoftwareInterruptAssumption, IInv, NEW h \in Harts, Look(h)
    PROVE  IInv'
  <1>. USE DEF SoftwareInterruptAssumption, Actors, Thread0, Handler
  <1>1. /\ mail' = [mail EXCEPT ![h] = 0]
        /\ call' = [call EXCEPT ![<<h, "handler">>] = Idle]
        /\ call[<<h, "handler">>].pc = "look" /\ UNCHANGED <<msip, ip, sent>>
    BY DEF Look
  <1>2. Types'
    BY <1>1 DEF IInv, Types, Idle
  <1>3. Writers'
    BY <1>1 DEF IInv, Types, Writers, Idle
  <1>4. Announced'
    BY <1>1 DEF IInv, Types, Writers, Announced, Pending, Idle
  <1>5. Line'
    BY <1>1 DEF IInv, Types, Line, Idle
  <1>. QED  BY <1>2, <1>3, <1>4, <1>5 DEF IInv

LEMMA Step ==
    ASSUME SoftwareInterruptAssumption, IInv, [Next]_vars
    PROVE  IInv'
  <1>1. CASE UNCHANGED vars
    BY <1>1 DEF vars, IInv, Types, Writers, Announced, Line, Pending, Actors
  <1>2. ASSUME NEW a \in Actors, SetInterrupt(a) PROVE IInv'
    BY <1>2, SendStep DEF SetInterrupt, Actors
  <1>. QED
    BY <1>1, <1>2, SendStep, InterruptStep, WriteMsipStep, WriteLineStep, LookStep DEF Next

LEMMA Promise ==
    ASSUME SoftwareInterruptAssumption, IInv
    PROVE  NoIpiIsLost
  BY DEF SoftwareInterruptAssumption, IInv, Types, Announced, Line, NoIpiIsLost, Msip,
         Pending, Actors, Thread0, Handler

\* Mail whose set has returned is announced or its reader is at work, on any
\* number of harts that set and clear each other's interrupts, with the CLINT's
\* one register and with the register and the line of the CLIC.
THEOREM NothingIsLost ==
    ASSUME SoftwareInterruptAssumption
    PROVE  Spec => []NoIpiIsLost
  <1>1. Init => IInv
    BY Initially
  <1>2. IInv /\ [Next]_vars => IInv'
    BY Step
  <1>3. IInv => NoIpiIsLost
    BY Promise
  <1>. QED  BY <1>1, <1>2, <1>3, PTL DEF Spec

=============================================================================
