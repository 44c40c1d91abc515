------------------------------ MODULE PlicProof -----------------------------
(***************************************************************************)
(* Proofs about Plic for any number of harts, contexts and sources.  A     *)
(* source belongs to the one hart whose claim took its request, from then  *)
(* to the completion; what is enabled has been registered; and if each     *)
(* hart changes its own enable bits, nobody changes them under a call.     *)
(***************************************************************************)
EXTENDS Plic, FiniteSetTheorems, WellFoundedInduction, TLAPS

(* Numbers have a least one. *)
LEMMA LeastExists ==
    ASSUME NEW S \in SUBSET Nat, S # {}
    PROVE  \E x \in S : \A y \in S : x <= y
  <1>. DEFINE R == {ss \in Nat \X Nat : ss[1] < ss[2]}
  <1>1. IsWellFoundedOn(R, Nat)
    BY NatLessThanWellFounded DEF OpToRel
  <1>2. PICK x \in S : \A y \in S : ~(<<y, x>> \in R)
    <2>. HIDE DEF R
    <2>. QED  BY <1>1, WFMin
  <1>3. ASSUME NEW y \in S PROVE x <= y
    <2>1. y < x => <<y, x>> \in R
      <3>1. <<y, x>> \in Nat \X Nat /\ <<y, x>>[1] = y /\ <<y, x>>[2] = x
        OBVIOUS
      <3>. QED  BY <3>1
    <2>2. x \in Nat /\ y \in Nat
      OBVIOUS
    <2>. HIDE DEF R
    <2>. QED  BY <1>2, <2>1, <2>2
  <1>. QED  BY <1>3

LEMMA MinIsLeast ==
    ASSUME NEW S \in SUBSET Nat, S # {}
    PROVE  Min(S) \in S /\ \A y \in S : Min(S) <= y
  BY LeastExists DEF Min

LEMMA MinOfOne ==
    ASSUME NEW x \in Int
    PROVE  Min({x}) = x
  BY DEF Min

(* Priorities are less than the largest one, or the 0 of a source that was *)
(* never registered.                                                       *)
PrioritiesFit == \A s \in Sources : priority[s] \in 0 .. MaxPriority

(* A claim returns a request that the context has enabled, or 0. *)
LEMMA BestIsReady ==
    ASSUME PlicAssumption, TypeOK, PrioritiesFit, NEW c \in Contexts
    PROVE  Best(c) = 0 \/ Best(c) \in pending \cap enabled[c]
  <1>. DEFINE ready == {s \in pending \cap enabled[c] : priority[s] > 0}
              first == {s \in ready : \A t \in ready : priority[t] <= priority[s]}
              gaps == {MaxPriority - priority[s] : s \in ready}
  <1>1. ready \subseteq Sources /\ MaxPriority \in Nat
    BY DEF TypeOK, PlicAssumption
  <1>2. CASE ready = {}
    BY <1>2 DEF Best
  <1>3. CASE ready # {}
    <2>1. gaps \in SUBSET Nat /\ gaps # {}
      BY <1>1, <1>3 DEF PrioritiesFit
    <2>2. PICK g \in gaps : \A d \in gaps : g <= d
      <3>. HIDE DEF gaps
      <3>. QED  BY <2>1, LeastExists
    <2>3. PICK s \in ready : g = MaxPriority - priority[s]
      BY <2>2
    <2>4. \A t \in ready : priority[t] <= priority[s]
      <3>. SUFFICES ASSUME NEW t \in ready PROVE priority[t] <= priority[s]
        OBVIOUS
      <3>1. MaxPriority - priority[t] \in gaps
        OBVIOUS
      <3>2. g <= MaxPriority - priority[t]
        <4>. HIDE DEF gaps
        <4>. QED  BY <2>2, <3>1
      <3>3. priority[s] \in Int /\ priority[t] \in Int
        BY <1>1 DEF PrioritiesFit
      <3>. HIDE DEF gaps, ready
      <3>. QED  BY <1>1, <2>3, <3>2, <3>3
    <2>5. first \in SUBSET Nat /\ first # {}
      BY <1>1, <2>3, <2>4 DEF Sources
    <2>6. Min(first) \in first
      <3>. HIDE DEF first
      <3>. QED  BY <2>5, MinIsLeast
    <2>7. Best(c) = Min(first)
      BY <1>3 DEF Best
    <2>. QED  BY <2>6, <2>7
  <1>. QED  BY <1>2, <1>3

(* The records of the calls and of the handlers. *)
Calls == [pc : {"idle", "read", "write", "function", "data"},
          id : {0} \cup Sources, on : BOOLEAN, own : BOOLEAN,
          todo : SUBSET Contexts, word : SUBSET Sources]

Irqs == [pc : {"idle", "claim", "look", "enter", "run", "complete"},
         idx : {0} \cup Sources,
         fn : {"null", "program", "default"},
         arg : {"null", "program"}]

(* Outside of the handler, and before its claim, no source is at hand. *)
NothingClaimed ==
    \A h \in Harts : irq[h].pc \in {"idle", "claim"} => irq[h].idx = 0

(* A source that a hart has claimed has its gateway closed and no request,   *)
(* and no other hart has claimed it.                                         *)
SoleServer ==
    \A h \in Harts : irq[h].idx \in Sources =>
        /\ irq[h].idx \in closed /\ irq[h].idx \notin pending
        /\ \A g \in Harts : irq[g].idx = irq[h].idx => g = h

Enabling(a) == call[a].pc \in {"read", "write"}
Registering(a) == call[a].pc \in {"function", "data"}

(* Calls are about sources, those that enable about some context, and only  *)
(* threads register.                                                         *)
CallsAreForSources ==
    \A a \in Actors :
        /\ Enabling(a) \/ Registering(a) => call[a].id \in Sources
        /\ Enabling(a) => call[a].todo # {}
        /\ Registering(a) => a[2] = "thread"

(* What is enabled, or will be by a call, or is served, has been registered. *)
InUse(s) ==
    \/ \E c \in Contexts : s \in enabled[c]
    \/ \E a \in Actors : Enabling(a) /\ (call[a].id = s \/ s \in call[a].word)
    \/ \E h \in Harts : irq[h].idx = s

UsedAreRegistered == \A s \in Sources : InUse(s) => Registered(s)

(* A function of the program's has its data, or its registration goes on. *)
DataFollows ==
    \A s \in Sources : table[s] = "program" =>
        data[s] = "program" \/ \E a \in Actors : call[a].pc = "data" /\ call[a].id = s

(* The function that a hart is about to call is that of its source. *)
FunctionIsLoaded ==
    \A h \in Harts : irq[h].pc = "enter" =>
        irq[h].idx \in Sources /\ irq[h].fn = table[irq[h].idx]

IInv ==
    /\ TypeOK /\ PrioritiesFit /\ NothingClaimed /\ SoleServer
    /\ CallsAreForSources /\ UsedAreRegistered /\ DataFollows
    /\ FunctionIsLoaded /\ HandlerGetsItsData

(* Programs in which every hart enables and disables for itself, outside of  *)
(* its handlers, on a board whose contexts have the numbers of the harts.    *)
(* One that has the board to itself may use the affinity calls as well, but  *)
(* for context 0, which they skip.                                           *)
EachForItself ==
    /\ ~IsrCalls
    /\ \A h \in Harts : Context[h] = h
    /\ Masks # {} => /\ \A g, h \in Harts : g = h
                     /\ \A mask \in Masks : 0 \notin mask

(* Only the thread of a hart changes the hart's enable bits, a hart that     *)
(* changes those of other contexts is alone, and what a thread has read of   *)
(* them is what they are.                                                    *)
OwnBits ==
    \A a \in Actors : Enabling(a) =>
        /\ a[2] = "thread"
        /\ IF call[a].own THEN call[a].todo = {Hart(a)} ELSE Harts = {Hart(a)}
        /\ call[a].pc = "write" =>
              call[a].word = enabled[Min(call[a].todo)] \cap Word(call[a].id)

(* A source stays enabled for the hart that has claimed it. *)
ServedIsEnabled ==
    \A h \in Harts : irq[h].idx \in Sources => irq[h].idx \in enabled[Context[h]]

(* A gateway that waits has its request pending, or at a hart. *)
ClosedAreServed ==
    \A s \in closed : s \in pending \/ \E h \in Harts : irq[h].idx = s

OwnInv ==
    OwnBits /\ enabled = asked /\ ServedIsEnabled /\ ClosedAreServed

-----------------------------------------------------------------------------
(* One lemma per action, or per group of actions that disturb the same.     *)

LEMMA Initially ==
    ASSUME PlicAssumption, Init
    PROVE  IInv
  <1>. USE DEF Init, PlicAssumption
  <1>1. TypeOK
    <2>1. NoIrq \in Irqs
      BY DEF NoIrq, Irqs
    <2>2. NoCall \in Calls
      BY DEF NoCall, Calls
    <2>3. call \in [Actors -> Calls]
      BY <2>2
    <2>4. irq \in [Harts -> Irqs]
      BY <2>1
    <2>5. raises \in [Sources -> 0 .. Raises]
      OBVIOUS
    <2>. QED  BY <2>3, <2>4, <2>5 DEF TypeOK, Irqs, Calls
  <1>2. PrioritiesFit
    BY DEF PrioritiesFit
  <1>3. /\ NothingClaimed /\ SoleServer /\ FunctionIsLoaded
        /\ HandlerGetsItsData
    BY DEF NothingClaimed, SoleServer, FunctionIsLoaded, HandlerGetsItsData,
           NoIrq, Sources
  <1>4. CallsAreForSources /\ UsedAreRegistered /\ DataFollows
    BY DEF CallsAreForSources, UsedAreRegistered, DataFollows, InUse, Enabling,
           Registering, Registered, NoCall, NoIrq, Sources
  <1>. QED  BY <1>1, <1>2, <1>3, <1>4 DEF IInv

(* The devices ask, and their gateways forward. *)
LEMMA HardwareKeeps ==
    ASSUME PlicAssumption, IInv, NEW s \in Sources, Raise(s) \/ Forward(s)
    PROVE  IInv'
  <1>. USE DEF Raise, Forward, IInv, registers, tables
  <1>1. TypeOK'
    BY DEF TypeOK, PlicAssumption
  <1>2. PrioritiesFit' /\ NothingClaimed' /\ FunctionIsLoaded' /\ HandlerGetsItsData'
    BY DEF PrioritiesFit, NothingClaimed, FunctionIsLoaded, HandlerGetsItsData
  <1>3. SoleServer'
    BY DEF SoleServer
  <1>4. CallsAreForSources' /\ UsedAreRegistered' /\ DataFollows'
    BY DEF CallsAreForSources, UsedAreRegistered, DataFollows, InUse, Enabling,
           Registering, Registered
  <1>. QED  BY <1>1, <1>2, <1>3, <1>4

(* A step of the handler that claims and completes nothing. *)
LEMMA HandlerKeeps ==
    ASSUME PlicAssumption, IInv, NEW h \in Harts,
           Trap(h) \/ Look(h) \/ Enter(h) \/ Serve(h)
    PROVE  IInv'
  <1>. USE DEF IInv, hardware, registers, tables
  <1>1. /\ UNCHANGED <<closed, pending, raises, registers, tables, call>>
        /\ line' \subseteq line /\ off' \in BOOLEAN
        /\ irq' \in [Harts -> Irqs]
        /\ \A g \in Harts : irq'[g].idx = irq[g].idx
        /\ \A g \in Harts : irq'[g].pc = "idle" => irq[g].pc = "idle"
        /\ \A g \in Harts : irq'[g].pc = "claim" => irq[g].pc \in {"idle", "claim"}
    <2>. irq \in [Harts -> Irqs] /\ irq[h] \in Irqs /\ off \in BOOLEAN
      BY DEF TypeOK, Irqs
    <2>1. CASE Trap(h)
      <3>1. irq' = [irq EXCEPT ![h] = [irq[h] EXCEPT !.pc = "claim"]]
        BY <2>1 DEF Trap
      <3>2. [irq[h] EXCEPT !.pc = "claim"] \in Irqs
        BY DEF Irqs
      <3>. QED  BY <2>1, <3>1, <3>2 DEF Trap, Irqs
    <2>2. CASE Look(h)
      <3>1. CASE irq[h].idx \in Sources /\ table[irq[h].idx] # "null"
        <4>1. irq' = [irq EXCEPT ![h] = [irq[h] EXCEPT !.pc = "enter",
                                                      !.fn = table[irq[h].idx]]]
          BY <2>2, <3>1 DEF Look
        <4>2. table[irq[h].idx] \in {"null", "program", "default"}
          BY <3>1 DEF TypeOK
        <4>3. [irq[h] EXCEPT !.pc = "enter", !.fn = table[irq[h].idx]] \in Irqs
          BY <4>2 DEF Irqs
        <4>. QED  BY <2>2, <4>1, <4>3 DEF Look, Irqs
      <3>2. CASE ~(irq[h].idx \in Sources /\ table[irq[h].idx] # "null")
        <4>1. irq' = [irq EXCEPT ![h] = [irq[h] EXCEPT !.pc = "complete"]]
          BY <2>2, <3>2 DEF Look
        <4>2. [irq[h] EXCEPT !.pc = "complete"] \in Irqs
          BY DEF Irqs
        <4>. QED  BY <2>2, <4>1, <4>2 DEF Look, Irqs
      <3>. QED  BY <3>1, <3>2
    <2>3. CASE Enter(h)
      <3>1. irq' = [irq EXCEPT ![h] = [irq[h] EXCEPT !.pc = "run",
                                                    !.arg = data[irq[h].idx]]]
        BY <2>3 DEF Enter
      <3>2. data[irq[h].idx] \in {"null", "program"}
        BY <2>3 DEF Enter, TypeOK, FunctionIsLoaded
      <3>3. [irq[h] EXCEPT !.pc = "run", !.arg = data[irq[h].idx]] \in Irqs
        BY <3>2 DEF Irqs
      <3>. QED  BY <2>3, <3>1, <3>3 DEF Enter, Irqs
    <2>4. CASE Serve(h)
      <3>1. irq' = [irq EXCEPT ![h] = [irq[h] EXCEPT !.pc = "complete"]]
        BY <2>4 DEF Serve
      <3>2. [irq[h] EXCEPT !.pc = "complete"] \in Irqs
        BY DEF Irqs
      <3>. QED  BY <2>4, <3>1, <3>2 DEF Serve, Irqs
    <2>. QED  BY <2>1, <2>2, <2>3, <2>4
  <1>2. TypeOK'
    BY <1>1 DEF TypeOK, Irqs
  <1>3. PrioritiesFit' /\ NothingClaimed' /\ SoleServer'
    BY <1>1 DEF PrioritiesFit, NothingClaimed, SoleServer
  <1>4. CallsAreForSources' /\ UsedAreRegistered' /\ DataFollows'
    BY <1>1 DEF CallsAreForSources, UsedAreRegistered, DataFollows, InUse,
                Enabling, Registering, Registered
  <1>5. FunctionIsLoaded'
    <2>1. \A g \in Harts \ {h} : irq'[g] = irq[g]
      BY DEF Trap, Look, Enter, Serve, TypeOK
    <2>2. irq'[h].pc = "enter" => irq'[h].idx \in Sources /\ irq'[h].fn = table[irq'[h].idx]
      <3>1. CASE Look(h)
        BY <3>1 DEF Look, TypeOK
      <3>2. CASE ~Look(h)
        BY <3>2 DEF Trap, Enter, Serve, TypeOK
      <3>. QED  BY <3>1, <3>2
    <2>. QED  BY <1>1, <2>1, <2>2 DEF FunctionIsLoaded
  <1>6. HandlerGetsItsData'
    <2>1. CASE Enter(h)
      <3>1. irq[h].fn = "program" => data[irq[h].idx] = "program"
        <4>1. irq[h].idx \in Sources /\ irq[h].fn = table[irq[h].idx]
          BY <2>1 DEF Enter, FunctionIsLoaded
        <4>2. Registered(irq[h].idx)
          BY <4>1 DEF UsedAreRegistered, InUse
        <4>. QED  BY <4>1, <4>2 DEF Registered, DataFollows
      <3>2. /\ irq'[h].fn = irq[h].fn /\ irq'[h].arg = data[irq[h].idx]
            /\ \A g \in Harts \ {h} : irq'[g] = irq[g]
        BY <2>1 DEF Enter, TypeOK
      <3>. QED  BY <3>1, <3>2 DEF HandlerGetsItsData
    <2>2. CASE ~Enter(h)
      <3>1. irq'[h].pc # "run" /\ \A g \in Harts \ {h} : irq'[g] = irq[g]
        BY <2>2 DEF Trap, Look, Serve, TypeOK
      <3>. QED  BY <3>1 DEF HandlerGetsItsData
    <2>. QED  BY <2>1, <2>2
  <1>. QED  BY <1>1, <1>2, <1>3, <1>4, <1>5, <1>6

(* A claim takes the request of a source that nobody else has. *)
LEMMA ClaimKeeps ==
    ASSUME PlicAssumption, IInv, NEW h \in Harts, Claim(h)
    PROVE  IInv'
  <1>. DEFINE best == Best(Context[h])
  <1>1. Context[h] \in Contexts
    BY DEF PlicAssumption
  <1>2. best = 0 \/ best \in pending \cap enabled[Context[h]]
    BY <1>1, BestIsReady DEF IInv
  <1>3. /\ irq[h].pc = "claim" /\ pending' = pending \ {best}
        /\ irq' = [irq EXCEPT ![h].pc = "look", ![h].idx = best]
        /\ UNCHANGED <<line, raises, closed, registers, tables, call, off>>
    BY DEF Claim
  <1>. HIDE DEF best
  <1>. USE DEF IInv, registers, tables
  <1>4. best \in {0} \cup Sources
    BY <1>1, <1>2 DEF TypeOK
  <1>5. /\ irq'[h].pc = "look" /\ irq'[h].idx = best
        /\ \A g \in Harts \ {h} : irq'[g] = irq[g]
        /\ irq' \in [Harts -> Irqs]
    <2>1. irq \in [Harts -> Irqs] /\ irq[h] \in Irqs
      BY DEF TypeOK, Irqs
    <2>2. irq' = [irq EXCEPT ![h] = [irq[h] EXCEPT !.pc = "look", !.idx = best]]
      BY <1>3
    <2>3. [irq[h] EXCEPT !.pc = "look", !.idx = best] \in Irqs
      BY <1>4, <2>1 DEF Irqs
    <2>. QED  BY <2>1, <2>2, <2>3 DEF Irqs
  <1>6. TypeOK'
    BY <1>3, <1>5 DEF TypeOK, Irqs
  <1>7. PrioritiesFit' /\ NothingClaimed'
    BY <1>3, <1>5 DEF PrioritiesFit, NothingClaimed
  <1>8. SoleServer'
    BY <1>2, <1>3, <1>5 DEF SoleServer, TypeOK, Sources
  <1>9. CallsAreForSources' /\ DataFollows'
    BY <1>3 DEF CallsAreForSources, DataFollows, Enabling, Registering
  <1>10. UsedAreRegistered'
    BY <1>1, <1>2, <1>3, <1>5 DEF UsedAreRegistered, InUse, Enabling,
                                  Registered, Sources
  <1>11. FunctionIsLoaded' /\ HandlerGetsItsData'
    BY <1>3, <1>5 DEF FunctionIsLoaded, HandlerGetsItsData
  <1>. QED  BY <1>6, <1>7, <1>8, <1>9, <1>10, <1>11

LEMMA CompleteKeeps ==
    ASSUME PlicAssumption, IInv, NEW h \in Harts, Complete(h)
    PROVE  IInv'
  <1>. USE DEF IInv, Complete, NoIrq, registers, tables
  <1>1. /\ irq'[h] = NoIrq /\ \A g \in Harts \ {h} : irq'[g] = irq[g]
        /\ 0 \notin Sources /\ closed' \subseteq closed
        /\ closed \ {irq[h].idx} \subseteq closed'
    BY DEF TypeOK, Sources
  <1>2. pending' \subseteq closed'
    BY <1>1 DEF TypeOK, SoleServer
  <1>3. TypeOK'
    BY <1>1, <1>2 DEF TypeOK
  <1>4. PrioritiesFit' /\ NothingClaimed'
    BY <1>1 DEF PrioritiesFit, NothingClaimed
  <1>5. SoleServer'
    BY <1>1 DEF SoleServer
  <1>6. CallsAreForSources' /\ UsedAreRegistered' /\ DataFollows'
    BY <1>1 DEF CallsAreForSources, UsedAreRegistered, DataFollows, InUse,
                Enabling, Registering, Registered
  <1>7. FunctionIsLoaded' /\ HandlerGetsItsData'
    BY <1>1 DEF FunctionIsLoaded, HandlerGetsItsData
  <1>. QED  BY <1>3, <1>4, <1>5, <1>6, <1>7

(* A call of enable or disable, for the caller's context or for several. *)
LEMMA BeginKeeps ==
    ASSUME PlicAssumption, IInv, NEW a \in Actors, NEW id \in Ids,
           NEW on \in BOOLEAN,
           \/ BeginEnable(a, id, on)
           \/ \E mask \in Masks : BeginAffinity(a, mask, id, on)
    PROVE  IInv'
  <1>1. /\ id \in Sources /\ Registered(id) /\ call[a].pc = "idle"
        /\ UNCHANGED <<hardware, enabled, priority, threshold, tables, irq, off>>
        /\ asked' \in [Contexts -> SUBSET Sources]
        /\ \E k \in Calls :
              /\ call' = [call EXCEPT ![a] = k]
              /\ \/ k = NoCall
                 \/ k.pc = "read" /\ k.id = id /\ k.word = {} /\ k.todo # {}
    <2>1. id < NumInterrupts => id \in Sources
      BY DEF Ids, Sources, PlicAssumption
    <2>2. asked \in [Contexts -> SUBSET Sources]
      BY DEF IInv, TypeOK
    <2>3. CASE BeginEnable(a, id, on)
      <3>. DEFINE k == [pc |-> "read", id |-> id, on |-> on, own |-> TRUE,
                        todo |-> {Hart(a)}, word |-> {}]
      <3>1. Hart(a) \in Contexts
        BY DEF Actors, Hart, PlicAssumption
      <3>2. k \in Calls
        BY <2>1, <2>3, <3>1 DEF BeginEnable, Calls
      <3>. QED  BY <2>1, <2>2, <2>3, <3>2
                DEF BeginEnable, MayCall, MayEnable, registers, tables
    <2>4. CASE \E mask \in Masks : BeginAffinity(a, mask, id, on)
      <3>1. PICK mask \in Masks : BeginAffinity(a, mask, id, on)
        BY <2>4
      <3>. DEFINE k == IF mask \subseteq {0} THEN NoCall
                       ELSE [pc |-> "read", id |-> id, on |-> on, own |-> FALSE,
                             todo |-> mask \ {0}, word |-> {}]
      <3>2. mask \ {0} \in SUBSET Contexts
        BY DEF PlicAssumption
      <3>3. k \in Calls
        BY <2>1, <3>1, <3>2 DEF BeginAffinity, Calls, NoCall
      <3>4. k = NoCall \/ (k.pc = "read" /\ k.id = id /\ k.word = {} /\ k.todo # {})
        OBVIOUS
      <3>5. asked' \in [Contexts -> SUBSET Sources]
        BY <2>1, <2>2, <3>1 DEF BeginAffinity, Put
      <3>6. call' = [call EXCEPT ![a] = k]
        BY <3>1 DEF BeginAffinity
      <3>. HIDE DEF k
      <3>. QED  BY <2>1, <3>1, <3>3, <3>4, <3>5, <3>6
                DEF BeginAffinity, MayCall, MayEnable
    <2>. QED  BY <2>3, <2>4
  <1>2. PICK k \in Calls :
              /\ call' = [call EXCEPT ![a] = k]
              /\ \/ k = NoCall
                 \/ k.pc = "read" /\ k.id = id /\ k.word = {} /\ k.todo # {}
    BY <1>1
  <1>3. call \in [Actors -> Calls]
    BY DEF IInv, TypeOK, Calls
  <1>4. call'[a] = k /\ \A b \in Actors \ {a} : call'[b] = call[b]
    BY <1>2, <1>3
  <1>. USE DEF IInv, hardware, tables
  <1>5. TypeOK'
    <2>1. call' \in [Actors -> Calls]
      BY <1>2, <1>3
    <2>. QED  BY <1>1, <2>1 DEF TypeOK, Calls
  <1>6. /\ PrioritiesFit' /\ NothingClaimed' /\ SoleServer'
        /\ FunctionIsLoaded' /\ HandlerGetsItsData'
    BY <1>1 DEF PrioritiesFit, NothingClaimed, SoleServer, FunctionIsLoaded,
                HandlerGetsItsData
  <1>7. CallsAreForSources'
    BY <1>1, <1>2, <1>4 DEF CallsAreForSources, Enabling, Registering, NoCall
  <1>8. DataFollows'
    BY <1>1, <1>4 DEF DataFollows
  <1>9. UsedAreRegistered'
    <2>1. \A s \in Sources : Registered(s) => Registered(s)'
      BY <1>1, <1>2, <1>4 DEF Registered, NoCall
    <2>2. \A s \in Sources : InUse(s)' => InUse(s) \/ s = id
      BY <1>1, <1>2, <1>4 DEF InUse, Enabling, NoCall
    <2>. QED  BY <1>1, <2>1, <2>2 DEF UsedAreRegistered
  <1>. QED  BY <1>5, <1>6, <1>7, <1>8, <1>9

(* The read of a word of enable bits. *)
LEMMA ReadWordKeeps ==
    ASSUME PlicAssumption, IInv, NEW a \in Actors, ReadWord(a)
    PROVE  IInv'
  <1>. DEFINE c == Min(call[a].todo)
              k == [call[a] EXCEPT !.pc = "write",
                                   !.word = enabled[c] \cap Word(call[a].id)]
  <1>1. call \in [Actors -> Calls] /\ call[a] \in Calls
    BY DEF IInv, TypeOK, Calls
  <1>2. c \in Contexts
    <2>1. call[a].todo \in SUBSET Contexts /\ call[a].todo # {} /\ Contexts \subseteq Nat
      BY <1>1 DEF IInv, CallsAreForSources, Enabling, ReadWord, Calls, PlicAssumption
    <2>. QED  BY <2>1, MinIsLeast
  <1>3. /\ call[a].pc = "read" /\ call' = [call EXCEPT ![a] = k]
        /\ UNCHANGED <<hardware, registers, tables, irq, off>>
    BY DEF ReadWord
  <1>4. k \in Calls /\ k.pc = "write" /\ k.id = call[a].id /\ k.word \subseteq enabled[c]
        /\ k.todo = call[a].todo
    BY <1>1 DEF Calls, Word
  <1>. HIDE DEF c, k
  <1>5. call'[a] = k /\ \A b \in Actors \ {a} : call'[b] = call[b]
    BY <1>1, <1>3
  <1>. USE DEF IInv, hardware, registers, tables
  <1>6. TypeOK'
    <2>1. call' \in [Actors -> Calls]
      BY <1>1, <1>3, <1>4
    <2>. QED  BY <1>3, <2>1 DEF TypeOK, Calls
  <1>7. /\ PrioritiesFit' /\ NothingClaimed' /\ SoleServer'
        /\ FunctionIsLoaded' /\ HandlerGetsItsData'
    BY <1>3 DEF PrioritiesFit, NothingClaimed, SoleServer, FunctionIsLoaded,
                HandlerGetsItsData
  <1>8. CallsAreForSources'
    BY <1>3, <1>4, <1>5 DEF CallsAreForSources, Enabling, Registering
  <1>9. DataFollows'
    BY <1>3, <1>5 DEF DataFollows
  <1>10. UsedAreRegistered'
    <2>1. \A s \in Sources : Registered(s) => Registered(s)'
      BY <1>3, <1>4, <1>5 DEF Registered
    <2>2. \A s \in Sources : InUse(s)' => InUse(s)
      BY <1>2, <1>3, <1>4, <1>5 DEF InUse, Enabling
    <2>. QED  BY <2>1, <2>2 DEF UsedAreRegistered
  <1>. QED  BY <1>6, <1>7, <1>8, <1>9, <1>10

(* The write of it: only what was read, and the source of the call, is set. *)
LEMMA WriteWordKeeps ==
    ASSUME PlicAssumption, IInv, NEW a \in Actors, WriteWord(a)
    PROVE  IInv'
  <1>. DEFINE c == Min(call[a].todo)
              k == IF call[a].todo = {c} THEN NoCall
                   ELSE [call[a] EXCEPT !.pc = "read", !.todo = @ \ {c}, !.word = {}]
              bits == IF call[a].on THEN call[a].word \cup {call[a].id}
                                    ELSE call[a].word \ {call[a].id}
  <1>1. call \in [Actors -> Calls] /\ call[a] \in Calls /\ call[a].pc = "write"
    BY DEF IInv, TypeOK, Calls, WriteWord, WriteBits
  <1>2. call[a].id \in Sources /\ c \in call[a].todo /\ c \in Contexts
    <2>1. call[a].todo \in SUBSET Contexts /\ call[a].todo # {} /\ Contexts \subseteq Nat
      BY <1>1 DEF IInv, CallsAreForSources, Enabling, Calls, PlicAssumption
    <2>. QED  BY <1>1, <2>1, MinIsLeast DEF IInv, CallsAreForSources, Enabling
  <1>3. /\ enabled' = [enabled EXCEPT ![c] = (@ \ Word(call[a].id)) \cup bits]
        /\ call' = [call EXCEPT ![a] = k]
        /\ asked' = Put({IF call[a].own THEN Context[Hart(a)] ELSE c},
                        call[a].id, call[a].on)
        /\ UNCHANGED <<hardware, priority, threshold, tables, irq, off>>
    BY DEF WriteWord, WriteBits
  <1>4. /\ k \in Calls /\ k.pc \in {"idle", "read"} /\ k.word = {}
        /\ k.pc = "read" => k.id = call[a].id /\ k.todo # {}
    <2>1. CASE call[a].todo = {c}
      BY <2>1 DEF NoCall, Calls
    <2>2. CASE call[a].todo # {c}
      <3>1. call[a].todo \ {c} # {}
        BY <1>2, <2>2
      <3>2. k = [call[a] EXCEPT !.pc = "read", !.todo = @ \ {c}, !.word = {}]
        BY <2>2
      <3>. HIDE DEF k, c
      <3>. QED  BY <1>1, <3>1, <3>2 DEF Calls
    <2>. QED  BY <2>1, <2>2
  <1>5. bits \in SUBSET Sources /\ bits \subseteq call[a].word \cup {call[a].id}
    BY <1>1, <1>2 DEF Calls
  <1>. HIDE DEF c, k, bits
  <1>6. call'[a] = k /\ \A b \in Actors \ {a} : call'[b] = call[b]
    BY <1>1, <1>3
  <1>. USE DEF IInv, hardware, tables
  <1>7. TypeOK'
    <2>1. call' \in [Actors -> Calls]
      BY <1>1, <1>3, <1>4
    <2>2. enabled' \in [Contexts -> SUBSET Sources]
      BY <1>3, <1>5 DEF TypeOK
    <2>3. asked' \in [Contexts -> SUBSET Sources]
      BY <1>2, <1>3 DEF TypeOK, Put
    <2>. QED  BY <1>3, <2>1, <2>2, <2>3 DEF TypeOK, Calls
  <1>8. /\ PrioritiesFit' /\ NothingClaimed' /\ SoleServer'
        /\ FunctionIsLoaded' /\ HandlerGetsItsData'
    BY <1>3 DEF PrioritiesFit, NothingClaimed, SoleServer, FunctionIsLoaded,
                HandlerGetsItsData
  <1>9. CallsAreForSources'
    BY <1>2, <1>3, <1>4, <1>6 DEF CallsAreForSources, Enabling, Registering
  <1>10. DataFollows'
    BY <1>1, <1>3, <1>6 DEF DataFollows
  <1>11. UsedAreRegistered'
    <2>1. \A s \in Sources : Registered(s) => Registered(s)'
      BY <1>3, <1>4, <1>6 DEF Registered
    <2>2. \A s \in Sources, d \in Contexts :
             s \in enabled'[d] => s \in enabled[d] \/ s \in bits
      BY <1>2, <1>3 DEF TypeOK
    <2>3. \A s \in Sources : InUse(s)' => InUse(s)
      BY <1>1, <1>3, <1>4, <1>5, <1>6, <2>2 DEF InUse, Enabling
    <2>. QED  BY <2>1, <2>3 DEF UsedAreRegistered
  <1>. QED  BY <1>7, <1>8, <1>9, <1>10, <1>11

(* A registration begins, for a source that has no function and so no user. *)
LEMMA BeginRegisterKeeps ==
    ASSUME PlicAssumption, IInv, NEW h \in Harts, NEW s \in Ids,
           NEW isr \in BOOLEAN, BeginRegister(h, s, isr)
    PROVE  IInv'
  <1>. DEFINE a == <<h, "thread">>
              k == [NoCall EXCEPT !.pc = "function", !.id = s, !.on = isr]
  <1>1. a \in Actors /\ a[2] = "thread"
    BY DEF Actors
  <1>2. /\ s \in Sources /\ table[s] = "null" /\ call[a].pc = "idle"
        /\ call' = [call EXCEPT ![a] = k]
        /\ priority' = Prioritised(s, IF isr THEN 2 ELSE 1)
        /\ UNCHANGED <<hardware, enabled, asked, threshold, tables, irq, off>>
    BY DEF BeginRegister, MayCall, Ids, Sources, PlicAssumption
  <1>3. k \in Calls /\ k.pc = "function" /\ k.id = s
    BY <1>2 DEF NoCall, Calls
  <1>4. call \in [Actors -> Calls]
    BY DEF IInv, TypeOK, Calls
  <1>. HIDE DEF a, k
  <1>5. call'[a] = k /\ \A b \in Actors \ {a} : call'[b] = call[b]
    BY <1>1, <1>2, <1>4
  <1>. USE DEF IInv, hardware, tables
  <1>6. /\ priority' \in [Sources -> {0, 1, 2} \cup Priorities] /\ PrioritiesFit'
    BY <1>2 DEF Prioritised, PrioritiesFit, TypeOK, PlicAssumption
  <1>7. TypeOK'
    <2>1. call' \in [Actors -> Calls]
      BY <1>2, <1>3, <1>4
    <2>. QED  BY <1>2, <1>6, <2>1 DEF TypeOK, Calls
  <1>8. NothingClaimed' /\ SoleServer' /\ FunctionIsLoaded' /\ HandlerGetsItsData'
    BY <1>2 DEF NothingClaimed, SoleServer, FunctionIsLoaded, HandlerGetsItsData
  <1>9. CallsAreForSources'
    BY <1>1, <1>2, <1>3, <1>5 DEF CallsAreForSources, Enabling, Registering
  <1>10. DataFollows'
    BY <1>2, <1>5 DEF DataFollows
  <1>11. UsedAreRegistered'
    <2>1. \A t \in Sources \ {s} : Registered(t) => Registered(t)'
      BY <1>2, <1>3, <1>5 DEF Registered
    <2>2. \A t \in Sources : InUse(t)' => InUse(t)
      BY <1>2, <1>3, <1>5 DEF InUse, Enabling
    <2>3. ~InUse(s)
      BY <1>2 DEF UsedAreRegistered, Registered
    <2>. QED  BY <2>1, <2>2, <2>3 DEF UsedAreRegistered
  <1>. QED  BY <1>6, <1>7, <1>8, <1>9, <1>10, <1>11

(* The function is stored: no hart is about to call another one. *)
LEMMA RegisterFunctionKeeps ==
    ASSUME PlicAssumption, IInv, NEW h \in Harts, RegisterFunction(h)
    PROVE  IInv'
  <1>. DEFINE a == <<h, "thread">>
              s == call[a].id
              k == IF call[a].on THEN [call[a] EXCEPT !.pc = "data"] ELSE NoCall
  <1>1. a \in Actors /\ a[2] = "thread"
    BY DEF Actors
  <1>2. /\ call[a].pc = "function" /\ call' = [call EXCEPT ![a] = k]
        /\ table' = [table EXCEPT ![s] = IF call[a].on THEN "program" ELSE "default"]
        /\ UNCHANGED <<hardware, registers, data, irq, off>>
    BY DEF RegisterFunction
  <1>3. call \in [Actors -> Calls] /\ call[a] \in Calls
    BY <1>1 DEF IInv, TypeOK, Calls
  <1>4. s \in Sources
    BY <1>1, <1>2 DEF IInv, CallsAreForSources, Registering
  <1>5. /\ k \in Calls /\ k.pc \in {"data", "idle"} /\ k.word \subseteq call[a].word
        /\ call[a].on => k.pc = "data" /\ k.id = s
        /\ ~call[a].on => k.pc = "idle"
    BY <1>3 DEF Calls, NoCall
  <1>. HIDE DEF a, k
  <1>6. call'[a] = k /\ \A b \in Actors \ {a} : call'[b] = call[b]
    BY <1>1, <1>2, <1>3
  <1>. HIDE DEF s
  <1>. USE DEF IInv, hardware, registers
  <1>7. /\ table'[s] # "null" /\ \A t \in Sources \ {s} : table'[t] = table[t]
        /\ table'[s] = "program" => call[a].on
        /\ table' \in [Sources -> {"null", "program", "default"}]
    BY <1>2, <1>4 DEF TypeOK
  <1>8. TypeOK'
    <2>1. call' \in [Actors -> Calls]
      BY <1>2, <1>3, <1>5
    <2>. QED  BY <1>2, <1>7, <2>1 DEF TypeOK, Calls
  <1>9. PrioritiesFit' /\ NothingClaimed' /\ SoleServer' /\ HandlerGetsItsData'
    BY <1>2 DEF PrioritiesFit, NothingClaimed, SoleServer, HandlerGetsItsData
  <1>10. CallsAreForSources'
    BY <1>1, <1>4, <1>5, <1>6 DEF CallsAreForSources, Enabling, Registering
  <1>11. DataFollows'
    <2>1. ASSUME NEW t \in Sources, table'[t] = "program"
          PROVE  data[t] = "program" \/ \E b \in Actors : call'[b].pc = "data" /\ call'[b].id = t
      <3>1. CASE t = s
        BY <1>1, <1>5, <1>6, <1>7, <2>1, <3>1
      <3>2. CASE t # s
        BY <1>2, <1>6, <1>7, <2>1, <3>2 DEF DataFollows
      <3>. QED  BY <3>1, <3>2
    <2>. QED  BY <1>2, <2>1 DEF DataFollows
  <1>12. ~InUse(s)
    BY <1>1, <1>2, <1>4 DEF UsedAreRegistered, Registered, s
  <1>13. UsedAreRegistered'
    <2>1. \A t \in Sources \ {s} : Registered(t) => Registered(t)'
      BY <1>1, <1>2, <1>5, <1>6, <1>7 DEF Registered, s
    <2>2. \A t \in Sources : InUse(t)' => InUse(t)
      BY <1>2, <1>5, <1>6 DEF InUse, Enabling
    <2>. QED  BY <1>12, <2>1, <2>2 DEF UsedAreRegistered
  <1>14. FunctionIsLoaded'
    <2>1. \A g \in Harts : irq[g].idx # s
      BY <1>12 DEF InUse
    <2>. QED  BY <1>2, <1>7, <2>1 DEF FunctionIsLoaded
  <1>. QED  BY <1>8, <1>9, <1>10, <1>11, <1>13, <1>14

LEMMA RegisterDataKeeps ==
    ASSUME PlicAssumption, IInv, NEW h \in Harts, RegisterData(h)
    PROVE  IInv'
  <1>. DEFINE a == <<h, "thread">>
              s == call[a].id
  <1>1. a \in Actors
    BY DEF Actors
  <1>2. /\ call[a].pc = "data" /\ call' = [call EXCEPT ![a] = NoCall]
        /\ data' = [data EXCEPT ![s] = "program"]
        /\ UNCHANGED <<hardware, registers, table, irq, off>>
    BY DEF RegisterData
  <1>3. call \in [Actors -> Calls] /\ NoCall \in Calls
    BY DEF IInv, TypeOK, Calls, NoCall
  <1>4. s \in Sources
    BY <1>1, <1>2 DEF IInv, CallsAreForSources, Registering
  <1>. HIDE DEF a
  <1>5. call'[a] = NoCall /\ \A b \in Actors \ {a} : call'[b] = call[b]
    BY <1>1, <1>2, <1>3
  <1>. USE DEF IInv, hardware, registers
  <1>6. /\ data'[s] = "program" /\ \A t \in Sources \ {s} : data'[t] = data[t]
        /\ data' \in [Sources -> {"null", "program"}]
    BY <1>2, <1>4 DEF TypeOK
  <1>7. TypeOK'
    <2>1. call' \in [Actors -> Calls]
      BY <1>2, <1>3
    <2>. QED  BY <1>2, <1>6, <2>1 DEF TypeOK, Calls
  <1>8. /\ PrioritiesFit' /\ NothingClaimed' /\ SoleServer'
        /\ FunctionIsLoaded' /\ HandlerGetsItsData'
    BY <1>2 DEF PrioritiesFit, NothingClaimed, SoleServer, FunctionIsLoaded,
                HandlerGetsItsData
  <1>9. CallsAreForSources'
    BY <1>2, <1>5 DEF CallsAreForSources, Enabling, Registering, NoCall
  <1>10. DataFollows'
    BY <1>2, <1>5, <1>6 DEF DataFollows
  <1>11. UsedAreRegistered'
    BY <1>2, <1>5 DEF UsedAreRegistered, InUse, Enabling, Registered, NoCall
  <1>. QED  BY <1>7, <1>8, <1>9, <1>10, <1>11

(* Priorities and thresholds. *)
LEMMA SettingsKeep ==
    ASSUME PlicAssumption, IInv, NEW h \in Harts,
           \/ \E s \in Sources, p \in Priorities : SetPriority(h, s, p)
           \/ \E t \in Thresholds : SetThreshold(h, t)
           \/ \E t \in Thresholds, c \in UNION Masks : AffinitySetThreshold(h, c, t)
    PROVE  IInv'
  <1>. USE DEF IInv, hardware, tables, SetPriority, SetThreshold,
               AffinitySetThreshold
  <1>1. /\ UNCHANGED <<hardware, enabled, asked, tables, call, irq, off>>
    OBVIOUS
  <1>2. /\ priority' \in [Sources -> {0, 1, 2} \cup Priorities] /\ PrioritiesFit'
        /\ threshold' \in [Contexts -> {0} \cup Thresholds]
    <2>1. CASE \E s \in Sources, p \in Priorities : SetPriority(h, s, p)
      <3>1. PICK s \in Sources, p \in Priorities : SetPriority(h, s, p)
        BY <2>1
      <3>2. p \in Nat /\ MaxPriority \in Nat /\ threshold' = threshold
        BY <3>1 DEF PlicAssumption
      <3>3. CASE p < MaxPriority
        BY <3>1, <3>2, <3>3 DEF Prioritised, PrioritiesFit, TypeOK
      <3>4. CASE ~(p < MaxPriority)
        BY <3>1, <3>2, <3>4 DEF Prioritised, PrioritiesFit, TypeOK
      <3>. QED  BY <3>3, <3>4
    <2>2. CASE \/ \E t \in Thresholds : SetThreshold(h, t)
               \/ \E t \in Thresholds, c \in UNION Masks : AffinitySetThreshold(h, c, t)
      BY <2>2 DEF PrioritiesFit, TypeOK
    <2>. QED  BY <2>1, <2>2
  <1>. USE <1>1
  <1>3. TypeOK'
    BY <1>2 DEF TypeOK
  <1>4. NothingClaimed' /\ SoleServer' /\ FunctionIsLoaded' /\ HandlerGetsItsData'
    BY DEF NothingClaimed, SoleServer, FunctionIsLoaded, HandlerGetsItsData
  <1>5. CallsAreForSources' /\ UsedAreRegistered' /\ DataFollows'
    BY DEF CallsAreForSources, UsedAreRegistered, DataFollows, InUse, Enabling,
           Registering, Registered
  <1>. QED  BY <1>2, <1>3, <1>4, <1>5

LEMMA StutterKeeps ==
    ASSUME IInv, UNCHANGED vars
    PROVE  IInv'
  <1>. USE DEF vars, hardware, registers, tables, IInv
  <1>1. TypeOK' /\ PrioritiesFit'
    BY DEF TypeOK, PrioritiesFit
  <1>2. NothingClaimed' /\ SoleServer' /\ FunctionIsLoaded' /\ HandlerGetsItsData'
    BY DEF NothingClaimed, SoleServer, FunctionIsLoaded, HandlerGetsItsData
  <1>3. CallsAreForSources' /\ UsedAreRegistered' /\ DataFollows'
    BY DEF CallsAreForSources, UsedAreRegistered, DataFollows, InUse, Enabling,
           Registering, Registered
  <1>. QED  BY <1>1, <1>2, <1>3

LEMMA Inductive ==
    ASSUME PlicAssumption, IInv, [Next]_vars
    PROVE  IInv'
  <1>1. CASE \E s \in Sources : Raise(s) \/ Forward(s)
    BY <1>1, HardwareKeeps
  <1>2. CASE \E h \in Harts : HandlerStep(h)
    BY <1>2, HandlerKeeps, ClaimKeeps, CompleteKeeps DEF HandlerStep
  <1>3. CASE \E h \in Harts : RegisterFunction(h) \/ RegisterData(h)
    BY <1>3, RegisterFunctionKeeps, RegisterDataKeeps
  <1>4. CASE \E a \in Actors : ReadWord(a) \/ WriteWord(a)
    BY <1>4, ReadWordKeeps, WriteWordKeeps
  <1>5. CASE \E a \in Actors, id \in Ids, on \in BOOLEAN :
                \/ BeginEnable(a, id, on)
                \/ \E mask \in Masks : BeginAffinity(a, mask, id, on)
    BY <1>5, BeginKeeps
  <1>6. CASE \E h \in Registrars, s \in Ids, isr \in BOOLEAN : BeginRegister(h, s, isr)
    BY <1>6, BeginRegisterKeeps DEF PlicAssumption
  <1>7. CASE \/ \E h \in Registrars, s \in Sources, p \in Priorities : SetPriority(h, s, p)
             \/ \E h \in Harts, t \in Thresholds :
                   \/ SetThreshold(h, t)
                   \/ \E c \in UNION Masks : AffinitySetThreshold(h, c, t)
    BY <1>7, SettingsKeep DEF PlicAssumption
  <1>8. CASE UNCHANGED vars
    BY <1>8, StutterKeeps
  <1>. QED  BY <1>1, <1>2, <1>3, <1>4, <1>5, <1>6, <1>7, <1>8 DEF Next

-----------------------------------------------------------------------------
(* Programs in which each hart enables for itself. *)

LEMMA OwnInitially ==
    ASSUME PlicAssumption, Init
    PROVE  OwnInv
  <1>1. \A a \in Actors : ~Enabling(a)
    BY DEF Init, NoCall, Enabling
  <1>2. \A h \in Harts : irq[h].idx \notin Sources
    BY DEF Init, NoIrq, Sources
  <1>. QED
    BY <1>1, <1>2 DEF Init, OwnInv, OwnBits, ServedIsEnabled, ClosedAreServed

(* Most steps leave alone what the invariant is about. *)
LEMMA OwnFrame ==
    ASSUME OwnInv, UNCHANGED <<enabled, asked, pending, closed>>,
           \A h \in Harts : irq'[h].idx = irq[h].idx,
           \A a \in Actors : Enabling(a)' => Enabling(a) /\ call'[a] = call[a]
    PROVE  OwnInv'
  <1>. USE DEF OwnInv
  <1>1. OwnBits'
    BY DEF OwnBits, Enabling
  <1>2. ServedIsEnabled' /\ ClosedAreServed'
    BY DEF ServedIsEnabled, ClosedAreServed
  <1>. QED  BY <1>1, <1>2

LEMMA HandlerStepsKeepOwn ==
    ASSUME PlicAssumption, EachForItself, IInv, OwnInv,
           \/ \E s \in Sources : Raise(s) \/ Forward(s)
           \/ \E h \in Harts : HandlerStep(h)
    PROVE  OwnInv'
  <1>. irq \in [Harts -> Irqs]
    BY DEF IInv, TypeOK, Irqs
  <1>1. CASE \E s \in Sources : Raise(s)
    BY <1>1, OwnFrame DEF Raise, registers, Enabling
  <1>2. CASE \E s \in Sources : Forward(s)
    <2>1. OwnBits' /\ (enabled = asked)'
      BY <1>2 DEF Forward, registers, OwnInv, OwnBits, Enabling
    <2>2. ServedIsEnabled' /\ ClosedAreServed'
      BY <1>2 DEF Forward, registers, OwnInv, ServedIsEnabled, ClosedAreServed
    <2>. QED  BY <2>1, <2>2 DEF OwnInv
  <1>3. CASE \E h \in Harts : Trap(h) \/ Look(h) \/ Enter(h) \/ Serve(h)
    <2>1. PICK h \in Harts : Trap(h) \/ Look(h) \/ Enter(h) \/ Serve(h)
      BY <1>3
    <2>2. \A g \in Harts : irq'[g].idx = irq[g].idx
      BY <2>1 DEF Trap, Look, Enter, Serve, Irqs
    <2>. QED
      BY <2>1, <2>2, OwnFrame
      DEF Trap, Look, Enter, Serve, hardware, registers, Enabling
  <1>4. CASE \E h \in Harts : Claim(h)
    <2>1. PICK h \in Harts : Claim(h)
      BY <1>4
    <2>. DEFINE best == Best(Context[h])
    <2>2. best = 0 \/ best \in pending \cap enabled[Context[h]]
      BY BestIsReady DEF IInv, PlicAssumption
    <2>3. /\ irq'[h].idx = best /\ irq[h].idx = 0
          /\ \A g \in Harts \ {h} : irq'[g] = irq[g]
          /\ pending' = pending \ {best}
          /\ UNCHANGED <<closed, enabled, asked, call>>
      BY <2>1 DEF Claim, registers, IInv, NothingClaimed
    <2>. HIDE DEF best
    <2>4. OwnBits' /\ (enabled = asked)'
      BY <2>3 DEF OwnInv, OwnBits, Enabling
    <2>. irq[h].idx \notin Sources
      BY <2>3 DEF Sources
    <2>5. ServedIsEnabled'
      <3>. SUFFICES ASSUME NEW g \in Harts, irq'[g].idx \in Sources
                    PROVE  irq'[g].idx \in enabled[Context[g]]
        BY <2>3 DEF ServedIsEnabled
      <3>1. CASE g = h
        BY <2>2, <2>3, <3>1 DEF Sources
      <3>2. CASE g # h
        BY <2>3, <3>2 DEF OwnInv, ServedIsEnabled
      <3>. QED  BY <3>1, <3>2
    <2>6. ClosedAreServed'
      <3>. SUFFICES ASSUME NEW s \in closed, s \notin pending'
                    PROVE  \E g \in Harts : irq'[g].idx = s
        BY <2>3 DEF ClosedAreServed
      <3>. s \in Sources
        BY DEF IInv, TypeOK
      <3>1. CASE s = best
        BY <2>3, <3>1
      <3>2. CASE s # best
        <4>1. PICK g \in Harts : irq[g].idx = s
          BY <2>3, <3>2 DEF OwnInv, ClosedAreServed
        <4>. QED  BY <2>3, <4>1
      <3>. QED  BY <3>1, <3>2
    <2>. QED  BY <2>4, <2>5, <2>6 DEF OwnInv
  <1>5. CASE \E h \in Harts : Complete(h)
    <2>1. PICK h \in Harts : Complete(h)
      BY <1>5
    <2>2. /\ irq'[h] = NoIrq /\ \A g \in Harts \ {h} : irq'[g] = irq[g]
          /\ closed' = closed \ ({irq[h].idx} \cap enabled[Context[h]])
          /\ UNCHANGED <<pending, enabled, asked, call>>
      BY <2>1 DEF Complete, registers
    <2>3. OwnBits' /\ (enabled = asked)'
      BY <2>2 DEF OwnInv, OwnBits, Enabling
    <2>4. ServedIsEnabled'
      BY <2>2 DEF OwnInv, ServedIsEnabled, NoIrq, Sources
    <2>5. ClosedAreServed'
      BY <2>2 DEF OwnInv, ServedIsEnabled, ClosedAreServed, IInv, TypeOK
    <2>. QED  BY <2>3, <2>4, <2>5 DEF OwnInv
  <1>. QED  BY <1>1, <1>2, <1>3, <1>4, <1>5 DEF HandlerStep

LEMMA EnableStepsKeepOwn ==
    ASSUME PlicAssumption, EachForItself, IInv, OwnInv, NEW a \in Actors,
           \/ ReadWord(a) \/ WriteWord(a)
           \/ \E id \in Ids, on \in BOOLEAN : BeginEnable(a, id, on)
           \/ \E id \in Ids, on \in BOOLEAN, mask \in Masks :
                 BeginAffinity(a, mask, id, on)
    PROVE  OwnInv'
  <1>1. call \in [Actors -> Calls] /\ call[a] \in Calls
    BY DEF IInv, TypeOK, Calls
  <1>2. /\ Hart(a) \in Harts /\ Hart(a) \in Contexts /\ Hart(a) \in Int
        /\ Context[Hart(a)] = Hart(a)
    <2>1. Hart(a) \in Harts
      BY DEF Actors, Hart
    <2>2. Context[Hart(a)] = Hart(a) /\ Context[Hart(a)] \in Contexts
      BY <2>1 DEF PlicAssumption, EachForItself
    <2>3. Contexts \subseteq Int
      BY DEF PlicAssumption
    <2>. HIDE DEF Hart
    <2>. QED  BY <2>1, <2>2, <2>3
  (* The context whose bits are next. *)
  <1>3. Enabling(a) => /\ Min(call[a].todo) \in Contexts
                       /\ call[a].own => Min(call[a].todo) = Hart(a)
    <2>. HAVE Enabling(a)
    <2>1. call[a].todo \in SUBSET Nat /\ call[a].todo # {} /\ call[a].todo \subseteq Contexts
      BY <1>1 DEF IInv, CallsAreForSources, Calls, PlicAssumption
    <2>2. call[a].own => call[a].todo = {Hart(a)}
      BY DEF OwnInv, OwnBits
    <2>. QED  BY <1>2, <2>1, <2>2, MinIsLeast, MinOfOne
  <1>4. CASE \E id \in Ids, on \in BOOLEAN : BeginEnable(a, id, on)
    <2>1. PICK id \in Ids, on \in BOOLEAN : BeginEnable(a, id, on)
      BY <1>4
    <2>2. /\ call'[a] = [pc |-> "read", id |-> id, on |-> on, own |-> TRUE,
                         todo |-> {Hart(a)}, word |-> {}]
          /\ \A b \in Actors \ {a} : call'[b] = call[b]
          /\ UNCHANGED <<enabled, asked, pending, closed, irq>>
      BY <1>1, <2>1 DEF BeginEnable, hardware, registers
    <2>3. a[2] = "thread"
      BY <2>1 DEF BeginEnable, MayCall, EachForItself, Actors
    <2>4. OwnBits'
      BY <2>2, <2>3 DEF OwnInv, OwnBits, Enabling
    <2>. QED  BY <2>2, <2>4 DEF OwnInv, ServedIsEnabled, ClosedAreServed
  <1>5. CASE \E id \in Ids, on \in BOOLEAN, mask \in Masks :
                BeginAffinity(a, mask, id, on)
    <2>1. PICK id \in Ids, on \in BOOLEAN, mask \in Masks :
             BeginAffinity(a, mask, id, on)
      BY <1>5
    <2>2. /\ \/ call'[a] = NoCall
             \/ call'[a] = [pc |-> "read", id |-> id, on |-> on, own |-> FALSE,
                            todo |-> mask \ {0}, word |-> {}]
          /\ \A b \in Actors \ {a} : call'[b] = call[b]
          /\ UNCHANGED <<enabled, pending, closed, irq>>
      BY <1>1, <2>1 DEF BeginAffinity, hardware
    <2>3. a[2] = "thread" /\ Harts = {Hart(a)} /\ mask \cap {0} = {}
      BY <1>2, <2>1 DEF BeginAffinity, MayCall, EachForItself, Actors
    <2>4. asked' = asked
      <3>1. asked \in [Contexts -> SUBSET Sources]
        BY DEF IInv, TypeOK
      <3>2. asked' = Put({}, id, on)
        BY <2>1, <2>3 DEF BeginAffinity
      <3>. QED  BY <3>1, <3>2 DEF Put
    <2>5. OwnBits'
      <3>. SUFFICES ASSUME NEW b \in Actors, Enabling(b)'
                    PROVE  /\ b[2] = "thread"
                           /\ IF call'[b].own THEN call'[b].todo = {Hart(b)}
                                              ELSE Harts = {Hart(b)}
                           /\ call'[b].pc = "write" =>
                                 call'[b].word = enabled'[Min(call'[b].todo)]
                                                   \cap Word(call'[b].id)
        BY DEF OwnBits
      <3>1. CASE b = a
        BY <2>2, <2>3, <3>1 DEF Enabling, NoCall
      <3>2. CASE b # a
        BY <2>2, <3>2 DEF OwnInv, OwnBits, Enabling
      <3>. QED  BY <3>1, <3>2
    <2>. QED  BY <2>2, <2>4, <2>5 DEF OwnInv, ServedIsEnabled, ClosedAreServed
  <1>6. CASE ReadWord(a)
    <2>1. Enabling(a) /\ call[a].pc = "read"
      BY <1>6 DEF ReadWord, Enabling
    <2>2. /\ call'[a] = [call[a] EXCEPT !.pc = "write",
                             !.word = enabled[Min(call[a].todo)] \cap Word(call[a].id)]
          /\ \A b \in Actors \ {a} : call'[b] = call[b]
          /\ UNCHANGED <<enabled, asked, pending, closed, irq>>
      BY <1>1, <1>6, <2>1 DEF ReadWord, hardware, registers
    <2>3. /\ call'[a].todo = call[a].todo /\ call'[a].own = call[a].own
          /\ call'[a].id = call[a].id
          /\ call'[a].word = enabled[Min(call[a].todo)] \cap Word(call[a].id)
      BY <1>1, <2>2 DEF Calls
    <2>4. OwnBits'
      <3>. SUFFICES ASSUME NEW b \in Actors, Enabling(b)'
                    PROVE  /\ b[2] = "thread"
                           /\ IF call'[b].own THEN call'[b].todo = {Hart(b)}
                                              ELSE Harts = {Hart(b)}
                           /\ call'[b].pc = "write" =>
                                 call'[b].word = enabled'[Min(call'[b].todo)]
                                                   \cap Word(call'[b].id)
        BY DEF OwnBits
      <3>1. CASE b = a
        BY <2>1, <2>2, <2>3, <3>1 DEF OwnInv, OwnBits
      <3>2. CASE b # a
        BY <2>2, <3>2 DEF OwnInv, OwnBits, Enabling
      <3>. QED  BY <3>1, <3>2
    <2>. QED  BY <2>2, <2>4 DEF OwnInv, ServedIsEnabled, ClosedAreServed
  <1>7. CASE WriteWord(a)
    <2>1. Enabling(a)
      BY <1>7 DEF WriteWord, WriteBits, Enabling
    <2>2. PICK c \in Contexts : c = Min(call[a].todo)
      BY <1>3, <2>1
    <2>. DEFINE h == Hart(a)
                id == call[a].id
                bits == IF call[a].on THEN call[a].word \cup {id}
                                      ELSE call[a].word \ {id}
    <2>3. /\ call[a].pc = "write" /\ a[2] = "thread"
          /\ call[a].own => c = h
          /\ ~call[a].own => Harts = {h}
          /\ call[a].word = enabled[c] \cap Word(id)
          /\ id \in Sources /\ irq[h].pc = "idle" /\ h \in Harts /\ Context[h] = h
      BY <1>2, <1>3, <1>7, <2>1, <2>2
      DEF WriteWord, WriteBits, Runs, OwnInv, OwnBits, IInv, CallsAreForSources
    <2>4. /\ enabled' = [enabled EXCEPT ![c] = (@ \ Word(id)) \cup bits]
          /\ call' = [call EXCEPT ![a] =
                         IF call[a].todo = {c} THEN NoCall
                         ELSE [call[a] EXCEPT !.pc = "read", !.todo = @ \ {c},
                                              !.word = {}]]
          /\ asked' = Put({c}, id, call[a].on)
          /\ UNCHANGED <<pending, closed, irq>>
      BY <1>7, <2>2, <2>3 DEF WriteWord, WriteBits, hardware
    <2>5. id \in Word(id)
      BY <2>3 DEF Word
    <2>6. enabled \in [Contexts -> SUBSET Sources] /\ asked = enabled
      BY DEF IInv, TypeOK, OwnInv
    <2>. HIDE DEF h, id
    <2>7. enabled'[c] = IF call[a].on THEN enabled[c] \cup {id} ELSE enabled[c] \ {id}
      BY <2>3, <2>4, <2>5, <2>6
    <2>8. \A d \in Contexts \ {c} : enabled'[d] = enabled[d]
      BY <2>4, <2>6
    <2>9. enabled' = asked'
      BY <2>4, <2>6, <2>7, <2>8 DEF Put
    <2>10. /\ \/ call'[a].pc = "idle"
              \/ /\ call'[a].pc = "read" /\ call'[a].own = call[a].own
                 /\ call[a].todo # {c}
           /\ \A b \in Actors \ {a} : call'[b] = call[b]
      <3>1. PICK k \in Calls : k = call[a]
        BY <1>1
      <3>2. /\ [k EXCEPT !.pc = "read", !.todo = @ \ {c}, !.word = {}].pc = "read"
            /\ [k EXCEPT !.pc = "read", !.todo = @ \ {c}, !.word = {}].own = k.own
        BY DEF Calls
      <3>. QED  BY <1>1, <2>4, <3>1, <3>2 DEF NoCall
    (* Another thread that enables is on another hart: both have own bits. *)
    <2>11. ASSUME NEW b \in Actors, b # a, b[2] = "thread"
           PROVE  Hart(b) # h /\ Hart(b) \in Harts
      <3>1. a = <<a[1], a[2]>> /\ b = <<b[1], b[2]>> /\ b[1] \in Harts
        BY DEF Actors
      <3>. QED  BY <2>3, <2>11, <3>1 DEF Hart, h
    <2>12. OwnBits'
      <3>. SUFFICES ASSUME NEW b \in Actors, Enabling(b)'
                    PROVE  /\ b[2] = "thread"
                           /\ IF call'[b].own THEN call'[b].todo = {Hart(b)}
                                              ELSE Harts = {Hart(b)}
                           /\ call'[b].pc = "write" =>
                                 call'[b].word = enabled'[Min(call'[b].todo)]
                                                   \cap Word(call'[b].id)
        BY DEF OwnBits
      <3>1. CASE b = a
        <4>1. call'[a].pc = "read" /\ call'[a].own = call[a].own /\ call[a].todo # {c}
          BY <2>10, <3>1 DEF Enabling
        <4>2. ~call[a].own
          BY <2>1, <2>3, <4>1 DEF OwnInv, OwnBits, h
        <4>. QED  BY <2>3, <3>1, <4>1, <4>2 DEF h
      <3>2. CASE b # a
        <4>1. call'[b] = call[b] /\ Enabling(b)
          BY <2>10, <3>2 DEF Enabling
        <4>2. /\ b[2] = "thread"
              /\ IF call[b].own THEN call[b].todo = {Hart(b)} ELSE Harts = {Hart(b)}
              /\ call[b].pc = "write" =>
                    call[b].word = enabled[Min(call[b].todo)] \cap Word(call[b].id)
          BY <4>1 DEF OwnInv, OwnBits
        <4>3. Hart(b) # h /\ Hart(b) \in Harts
          BY <2>11, <3>2, <4>2
        <4>4. call[b].own /\ c = h
          BY <2>3, <4>2, <4>3
        <4>5. Min(call[b].todo) = Hart(b) /\ Hart(b) \in Contexts
          BY <4>2, <4>3, <4>4, MinOfOne DEF PlicAssumption
        <4>. QED  BY <2>8, <4>1, <4>2, <4>3, <4>4, <4>5
      <3>. QED  BY <3>1, <3>2
    <2>13. ServedIsEnabled'
      <3>. SUFFICES ASSUME NEW g \in Harts, irq[g].idx \in Sources
                    PROVE  irq[g].idx \in enabled'[Context[g]]
        BY <2>4 DEF ServedIsEnabled
      <3>1. g # h
        BY <2>3 DEF IInv, NothingClaimed, Sources
      <3>2. Context[g] = g /\ g \in Contexts /\ c = h
        BY <2>3, <3>1 DEF EachForItself, PlicAssumption
      <3>. QED  BY <2>8, <3>1, <3>2 DEF OwnInv, ServedIsEnabled
    <2>14. ClosedAreServed'
      BY <2>4 DEF OwnInv, ClosedAreServed
    <2>. QED  BY <2>9, <2>12, <2>13, <2>14 DEF OwnInv
  <1>. QED  BY <1>4, <1>5, <1>6, <1>7

LEMMA OtherStepsKeepOwn ==
    ASSUME PlicAssumption, IInv, OwnInv,
           \/ \E h \in Registrars, s \in Ids, isr \in BOOLEAN : BeginRegister(h, s, isr)
           \/ \E h \in Harts : RegisterFunction(h) \/ RegisterData(h)
           \/ \E h \in Harts, s \in Sources, p \in Priorities : SetPriority(h, s, p)
           \/ \E h \in Harts, t \in Thresholds, c \in Contexts :
                 SetThreshold(h, t) \/ AffinitySetThreshold(h, c, t)
           \/ UNCHANGED vars
    PROVE  OwnInv'
  <1>. call \in [Actors -> Calls]
    BY DEF IInv, TypeOK, Calls
  <1>. USE DEF hardware, registers, tables
  <1>1. CASE \E h \in Registrars, s \in Ids, isr \in BOOLEAN : BeginRegister(h, s, isr)
    <2>1. PICK h \in Registrars, s \in Ids, isr \in BOOLEAN : BeginRegister(h, s, isr)
      BY <1>1
    <2>2. \A a \in Actors : Enabling(a)' => Enabling(a) /\ call'[a] = call[a]
      BY <2>1 DEF BeginRegister, Enabling, NoCall
    <2>. QED  BY <2>1, <2>2, OwnFrame DEF BeginRegister
  <1>2. CASE \E h \in Harts : RegisterFunction(h)
    <2>1. PICK h \in Harts : RegisterFunction(h)
      BY <1>2
    <2>2. \A a \in Actors : Enabling(a)' => Enabling(a) /\ call'[a] = call[a]
      BY <2>1 DEF RegisterFunction, Enabling, NoCall, Calls
    <2>. QED  BY <2>1, <2>2, OwnFrame DEF RegisterFunction
  <1>3. CASE \E h \in Harts : RegisterData(h)
    <2>1. PICK h \in Harts : RegisterData(h)
      BY <1>3
    <2>2. \A a \in Actors : Enabling(a)' => Enabling(a) /\ call'[a] = call[a]
      BY <2>1 DEF RegisterData, Enabling, NoCall
    <2>. QED  BY <2>1, <2>2, OwnFrame DEF RegisterData
  <1>4. CASE \/ \E h \in Harts, s \in Sources, p \in Priorities : SetPriority(h, s, p)
             \/ \E h \in Harts, t \in Thresholds, c \in Contexts :
                   SetThreshold(h, t) \/ AffinitySetThreshold(h, c, t)
             \/ UNCHANGED vars
    BY <1>4, OwnFrame
    DEF SetPriority, SetThreshold, AffinitySetThreshold, vars, Enabling
  <1>. QED  BY <1>1, <1>2, <1>3, <1>4

LEMMA OwnInductive ==
    ASSUME PlicAssumption, EachForItself, IInv, OwnInv, [Next]_vars
    PROVE  OwnInv'
  <1>1. CASE \/ \E s \in Sources : Raise(s) \/ Forward(s)
             \/ \E h \in Harts : HandlerStep(h)
    BY <1>1, HandlerStepsKeepOwn
  <1>2. CASE \E a \in Actors :
                \/ ReadWord(a) \/ WriteWord(a)
                \/ \E id \in Ids, on \in BOOLEAN : BeginEnable(a, id, on)
                \/ \E id \in Ids, on \in BOOLEAN, mask \in Masks :
                      BeginAffinity(a, mask, id, on)
    BY <1>2, EnableStepsKeepOwn
  <1>3. CASE \/ \E h \in Registrars, s \in Ids, isr \in BOOLEAN : BeginRegister(h, s, isr)
             \/ \E h \in Harts : RegisterFunction(h) \/ RegisterData(h)
             \/ \E h \in Registrars, s \in Sources, p \in Priorities : SetPriority(h, s, p)
             \/ \E h \in Harts, t \in Thresholds :
                   \/ SetThreshold(h, t)
                   \/ \E c \in UNION Masks : AffinitySetThreshold(h, c, t)
             \/ UNCHANGED vars
    BY <1>3, OtherStepsKeepOwn DEF PlicAssumption
  <1>. QED  BY <1>1, <1>2, <1>3 DEF Next

-----------------------------------------------------------------------------

LEMMA Invariant ==
    ASSUME PlicAssumption
    PROVE  Spec => []IInv
  <1>1. Init => IInv
    BY Initially
  <1>2. IInv /\ [Next]_vars => IInv'
    BY Inductive
  <1>. QED  BY <1>1, <1>2, PTL DEF Spec

LEMMA OwnInvariant ==
    ASSUME PlicAssumption, EachForItself
    PROVE  Spec => [](IInv /\ OwnInv)
  <1>1. Init => IInv /\ OwnInv
    BY Initially, OwnInitially
  <1>2. IInv /\ OwnInv /\ [Next]_vars => IInv' /\ OwnInv'
    BY Inductive, OwnInductive
  <1>. QED  BY <1>1, <1>2, PTL DEF Spec

(* What the invariants say of a source that is served, and of one that waits *)
(* for its completion.                                                       *)
LEMMA OneFollows ==
    ASSUME IInv
    PROVE  OneHartServes
  <1>. SUFFICES ASSUME NEW s \in Sources
                PROVE  Cardinality(Served(s)) <= IF s \in pending THEN 0 ELSE 1
    BY DEF OneHartServes
  <1>. USE DEF IInv
  <1>1. CASE Served(s) = {}
    BY <1>1, FS_EmptySet
  <1>2. CASE Served(s) # {}
    <2>1. PICK h \in Harts : Served(s) = {h} /\ irq[h].idx = s
      BY <1>2 DEF Served, SoleServer
    <2>2. s \notin pending
      BY <2>1 DEF SoleServer
    <2>3. Cardinality(Served(s)) = 1
      BY <2>1, FS_Singleton
    <2>. QED  BY <2>2, <2>3
  <1>. QED  BY <1>1, <1>2

LEMMA LostFollows ==
    ASSUME IInv, OwnInv
    PROVE  NoSourceIsLost
  <1>. SUFFICES ASSUME NEW s \in closed, s \notin pending
                PROVE  Served(s) # {}
    BY DEF NoSourceIsLost
  <1>1. PICK h \in Harts : irq[h].idx = s
    BY DEF OwnInv, ClosedAreServed
  <1>2. s \in Sources /\ 0 \notin Sources
    BY DEF IInv, TypeOK, Sources
  <1>3. irq[h].pc # "idle"
    BY <1>1, <1>2 DEF IInv, NothingClaimed
  <1>. QED  BY <1>1, <1>3 DEF Served

(* The state of the controller, the driver's tables and the calls keeps its  *)
(* type (riscv_plic0.c).                                                     *)
THEOREM TypeCorrect ==
    ASSUME PlicAssumption
    PROVE  Spec => []TypeOK
  <1>1. IInv => TypeOK
    BY DEF IInv
  <1>. QED  BY <1>1, Invariant, PTL

(* However many harts trap for a source, and whatever they call meanwhile,   *)
(* one of them serves it, and it is not requested again before the           *)
(* completion (__metal_plic0_handler).                                       *)
THEOREM OneServes ==
    ASSUME PlicAssumption
    PROVE  Spec => []OneHartServes
  <1>1. IInv => OneHartServes
    BY OneFollows
  <1>. QED  BY <1>1, Invariant, PTL

(* A function is called with the data that was registered with it, though    *)
(* registration stores the one after the other, since programs enable a      *)
(* source after they have registered it                                      *)
(* (__metal_driver_riscv_plic0_register).                                    *)
THEOREM DataIsRegistered ==
    ASSUME PlicAssumption
    PROVE  Spec => []HandlerGetsItsData
  <1>1. IInv => HandlerGetsItsData
    BY DEF IInv
  <1>. QED  BY <1>1, Invariant, PTL

(* If harts enable and disable for themselves, outside of handlers, the      *)
(* reads and writes of whole words lose nothing: the enable bits are those   *)
(* asked for (__metal_plic0_enable).                                         *)
THEOREM BitsAreAsAsked ==
    ASSUME PlicAssumption, EachForItself
    PROVE  Spec => []EnabledAsAsked
  <1>1. OwnInv => EnabledAsAsked
    BY DEF OwnInv, EnabledAsAsked
  <1>. QED  BY <1>1, OwnInvariant, PTL

(* Then no source is lost either: what waits for its completion is pending,  *)
(* or is served by a hart for which it is still enabled.                     *)
THEOREM NothingIsLost ==
    ASSUME PlicAssumption, EachForItself
    PROVE  Spec => []NoSourceIsLost
  <1>1. IInv /\ OwnInv => NoSourceIsLost
    BY LostFollows
  <1>. QED  BY <1>1, OwnInvariant, PTL

=============================================================================
