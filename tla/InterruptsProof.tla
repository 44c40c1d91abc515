--------------------------- MODULE InterruptsProof ---------------------------
(***************************************************************************)
(* The invariants that the runs check of the interrupt controllers, as     *)
(* theorems of the systems of MCInterrupts.  The proofs about the CPU      *)
(* controller and the PLIC are those of DispatchProof and PlicProof, which *)
(* hold for every value of their constants; those about the CLIC are here, *)
(* for every value of its own.  Then it is proved that each of the five    *)
(* systems meets its assumptions, keeps its own invariant, and is not      *)
(* changed by the steps of another one.                                    *)
(***************************************************************************)
EXTENDS MCInterrupts, TLAPS

-----------------------------------------------------------------------------
(* The CLIC, for any sub-interrupts, any number of bits of a control byte, any *)
(* levels and any number of calls.                                             *)

(* The level bits of a control byte are those that were last asked for. *)
LevelBitsAsWanted ==
    clicReady /\ nl < IntBits =>
        \A id \in Clic!Ids :
            ctl[id] \cap Clic!From(8 - nl) = wanted[id] \cap Clic!From(8 - nl)

(* What was accepted for an interrupt is a function, and is where the interrupt *)
(* ends unless it was told another way of delivery since.                       *)
AcceptedIsThere ==
    \A id \in Clic!Ids :
        /\ clicAsked[id] = "plain" => /\ plain[id].fn \in {"default", "user"}
                                      /\ id \notin switched => ~Clic!Jumps(id)
        /\ clicAsked[id] = "vector" => /\ vector[id].fn \in {"default_vector", "user"}
                                       /\ id \notin switched => Clic!Jumps(id)

(* Nothing happens before the init, which takes the hart to CLIC mode. *)
InitFirst ==
    IF clicReady THEN mode # "early"
    ELSE ie = {} /\ clicTrap = Clic!NoTrap /\ \A id \in Clic!Ids : clicAsked[id] = "nothing"

TrapIsOfAnId == clicTrap # Clic!NoTrap => clicTrap.id \in Clic!Ids

ClicInv ==
    /\ Clic!TypeOK /\ LevelBitsAsWanted /\ AcceptedIsThere /\ InitFirst
    /\ TrapIsOfAnId /\ Clic!AcceptedHandlerRuns

-----------------------------------------------------------------------------
(* Bytes. *)

LEMMA BytesAreBytes ==
    ASSUME Clic!ClicAssumption, NEW byte \in SUBSET (0 .. 7), NEW level \in SUBSET (0 .. 7)
    PROVE  /\ Clic!Stored(byte) \in SUBSET (0 .. 7)
           /\ Clic!SetLevel(byte, level) \in SUBSET (0 .. 7)
           /\ Clic!SetPriority(byte, level) \in SUBSET (0 .. 7)
           /\ Clic!VectorBit \in 0 .. 7
  <1>1. \A n \in Int : Clic!Below(n) \in SUBSET (0 .. 7) /\ Clic!From(n) \in SUBSET (0 .. 7)
    BY DEF Clic!Below, Clic!From
  <1>2. 8 - IntBits \in 0 .. 7
    BY DEF Clic!ClicAssumption
  <1>3. Clic!Stored(byte) \in SUBSET (0 .. 7)
    BY <1>1, <1>2 DEF Clic!Stored
  <1>4. Clic!SetLevel(byte, level) \in SUBSET (0 .. 7)
    BY DEF Clic!SetLevel
  <1>5. Clic!SetPriority(byte, level) \in SUBSET (0 .. 7)
    BY DEF Clic!SetPriority
  <1>. QED  BY <1>2, <1>3, <1>4, <1>5 DEF Clic!VectorBit

(* Bits that do not exist are below those of the level. *)
LEMMA StoredKeepsLevel ==
    ASSUME Clic!ClicAssumption, NEW n \in 0 .. 15, n < IntBits,
           NEW byte \in SUBSET (0 .. 7)
    PROVE  /\ Clic!Stored(byte) \cap Clic!From(8 - n) = byte \cap Clic!From(8 - n)
           /\ Clic!VectorBit \notin Clic!From(8 - n)
  <1>1. \A b \in 0 .. 7 : b \in Clic!From(8 - n) =>
           b \in Clic!From(8 - IntBits) /\ b \notin Clic!Below(8 - IntBits)
    BY DEF Clic!ClicAssumption, Clic!From, Clic!Below
  <1>. QED  BY <1>1 DEF Clic!ClicAssumption, Clic!Stored, Clic!From, Clic!Below, Clic!VectorBit

(* The setters change the bits they are for. *)
LEMMA SettersKeepLevel ==
    ASSUME Clic!ClicAssumption, Clic!TypeOK, nl < IntBits,
           NEW byte \in SUBSET (0 .. 7), NEW level \in SUBSET (0 .. 7)
    PROVE  /\ Clic!LevelMask = Clic!From(8 - nl)
           /\ Clic!SetLevel(byte, level) \cap Clic!From(8 - nl) = level \cap Clic!From(8 - nl)
           /\ Clic!SetPriority(byte, level) \cap Clic!From(8 - nl) = byte \cap Clic!From(8 - nl)
  <1>1. Clic!LevelMask = Clic!From(8 - nl)
    BY DEF Clic!ClicAssumption, Clic!TypeOK, Clic!LevelMask
  <1>. QED  BY <1>1 DEF Clic!SetLevel, Clic!SetPriority

LEMMA InitialBitsFit ==
    ASSUME Clic!ClicAssumption
    PROVE  Clic!InitialBits \in 0 .. 8
  <1>1. CASE MaxLevels <= 8
    <2>1. Clic!InitialBits = MaxLevels
      BY <1>1 DEF Clic!ClicAssumption, Clic!InitialBits, Clic!Min
    <2>. QED  BY <1>1, <2>1 DEF Clic!ClicAssumption
  <1>2. CASE ~(MaxLevels <= 8)
    <2>1. Clic!InitialBits = 8
      BY <1>2 DEF Clic!ClicAssumption, Clic!InitialBits, Clic!Min
    <2>. QED  BY <2>1
  <1>. QED  BY <1>1, <1>2

-----------------------------------------------------------------------------
(* Types. *)

Plain == [fn : {"null", "default", "user"}, data : {"null", "user"}]
Vector == [fn : {"null", "default_vector", "user"}, data : {"null", "none"}]
Traps == [id : Clic!Ids \cup {"none"},
          fn : {"none", "null", "default", "default_vector", "user"},
          data : {"none", "null", "user"}]

Typed ==
    /\ clicReady \in BOOLEAN /\ nv \in BOOLEAN /\ nl \in 0 .. 15
    /\ mode \in {"early", "clic", "hardware_vector"}
    /\ ctl \in [Clic!Ids -> SUBSET (0 .. 7)] /\ wanted \in [Clic!Ids -> SUBSET (0 .. 7)]
    /\ ie \subseteq Clic!Ids /\ ip \subseteq Clic!Ids
    /\ plain \in [Clic!Ids -> Plain] /\ vector \in [Clic!Ids -> Vector] /\ clicTrap \in Traps
    /\ clicAsked \in [Clic!Ids -> {"nothing", "plain", "vector"}] /\ switched \subseteq Clic!Ids
    /\ clicCalls \in 0 .. ClicCalls

LEMMA TypedIsTypeOK == Clic!TypeOK <=> Typed
  <1>1. {clicReady, nv} \subseteq BOOLEAN <=> clicReady \in BOOLEAN /\ nv \in BOOLEAN
    OBVIOUS
  <1>2. {ie, ip} \subseteq SUBSET Clic!Ids <=> ie \subseteq Clic!Ids /\ ip \subseteq Clic!Ids
    OBVIOUS
  <1>. QED  BY <1>1, <1>2, Zenon DEF Clic!TypeOK, Typed, Plain, Vector, Traps

LEMMA ClicInitially ==
    ASSUME Clic!ClicAssumption, Clic!Init
    PROVE  ClicInv
  <1>1. Clic!TypeOK
    <2>1. ctl \in [Clic!Ids -> SUBSET (0 .. 7)]
      <3>1. {} \in SUBSET (0 .. 7) /\ 0 .. 7 \in SUBSET (0 .. 7)
        OBVIOUS
      <3>2. {Clic!Stored({}), Clic!Stored(0 .. 7)} \subseteq SUBSET (0 .. 7)
        BY <3>1, BytesAreBytes
      <3>3. ctl \in [Clic!Ids -> {Clic!Stored({}), Clic!Stored(0 .. 7)}]
        BY DEF Clic!Init
      <3>. QED  BY <3>2, <3>3
    <2>2. 0 \in 0 .. ClicCalls /\ {} \in SUBSET (0 .. 7)
      BY DEF Clic!ClicAssumption
    <2>3. Clic!None \in Plain /\ Clic!None \in Vector /\ Clic!NoTrap \in Traps
      BY DEF Clic!None, Clic!NoTrap, Plain, Vector, Traps
    <2>4. Typed
      <3>1. clicReady \in BOOLEAN /\ nv \in BOOLEAN
        BY Zenon DEF Clic!Init
      <3>2. nl \in 0 .. 15 /\ clicCalls \in 0 .. ClicCalls
        BY <2>2 DEF Clic!Init
      <3>3. /\ wanted \in [Clic!Ids -> SUBSET (0 .. 7)]
            /\ clicAsked \in [Clic!Ids -> {"nothing", "plain", "vector"}]
            /\ plain \in [Clic!Ids -> Plain] /\ vector \in [Clic!Ids -> Vector]
        BY <2>2, <2>3 DEF Clic!Init
      <3>. QED  BY <2>1, <2>3, <3>1, <3>2, <3>3 DEF Clic!Init, Typed
    <2>. QED  BY <2>4, TypedIsTypeOK
  <1>2. LevelBitsAsWanted /\ AcceptedIsThere /\ InitFirst /\ Clic!AcceptedHandlerRuns
        /\ TrapIsOfAnId
    BY DEF Clic!Init, LevelBitsAsWanted, AcceptedIsThere, InitFirst,
           Clic!AcceptedHandlerRuns, TrapIsOfAnId, Clic!Ids
  <1>. QED  BY <1>1, <1>2 DEF ClicInv

LEMMA TypeKept ==
    ASSUME Clic!ClicAssumption, Typed, TrapIsOfAnId, Clic!Next
    PROVE  Typed' /\ TrapIsOfAnId'
  <1>. USE DEF Clic!config, Clic!tables
  <1>. /\ ctl \in [Clic!Ids -> SUBSET (0 .. 7)] /\ wanted \in [Clic!Ids -> SUBSET (0 .. 7)]
       /\ plain \in [Clic!Ids -> Plain] /\ vector \in [Clic!Ids -> Vector]
       /\ clicAsked \in [Clic!Ids -> {"nothing", "plain", "vector"}]
       /\ clicTrap \in Traps /\ nl \in 0 .. 15 /\ "sw" \in Clic!Ids
       /\ clicCalls \in 0 .. ClicCalls /\ ClicCalls \in Nat /\ IntBits \in 2 .. 8
    BY DEF Typed, Clic!ClicAssumption, Clic!Ids
  <1>1. CASE Clic!InitClic
    <2>1. ctl' \in [Clic!Ids -> SUBSET (0 .. 7)] /\ wanted' \in [Clic!Ids -> SUBSET (0 .. 7)]
      <3>1. Clic!InitialBits \in 0 .. 8
        BY InitialBitsFit
      <3>2. ASSUME NEW byte \in SUBSET (0 .. 7)
            PROVE  Clic!Stored((byte \cap Clic!Below(8 - Clic!InitialBits))
                        \cup (Clic!Below(Clic!InitialBits) \cap Clic!From(8 - Clic!InitialBits)))
                       \in SUBSET (0 .. 7)
        BY BytesAreBytes DEF Clic!Below
      <3>. QED  BY <1>1, <3>2 DEF Clic!InitClic, Clic!Below
    <2>2. nl' \in 0 .. 15
      BY <1>1, InitialBitsFit DEF Clic!InitClic, Clic!Configuration
    <2>3. plain' \in [Clic!Ids -> Plain] /\ clicAsked' \in [Clic!Ids -> {"nothing", "plain", "vector"}]
      BY <1>1 DEF Clic!InitClic, Plain
    <2>. QED  BY <1>1, <2>1, <2>2, <2>3
         DEF Clic!InitClic, Clic!Configuration, Typed, TrapIsOfAnId
  <1>2. CASE Clic!Return
    BY <1>2 DEF Clic!Return, Typed, TrapIsOfAnId, Clic!NoTrap, Traps
  <1>3. ASSUME NEW m \in {"selective_nonvector", "selective_vector", "hardware_vector"},
               Clic!SetVectorMode(m)
        PROVE  Typed' /\ TrapIsOfAnId'
    BY <1>3 DEF Clic!SetVectorMode, Clic!Configuration, Clic!Switch, Clic!Call, Typed, TrapIsOfAnId
  <1>4. ASSUME NEW n \in 0 .. IntBits, Clic!SetThreshold(n)
        PROVE  Typed' /\ TrapIsOfAnId'
    BY <1>4 DEF Clic!SetThreshold, Clic!Configuration, Clic!Call, Typed, TrapIsOfAnId
  <1>5. ASSUME NEW id \in Clic!Ids,
               Clic!Enable(id) \/ Clic!Disable(id) \/ \E on \in BOOLEAN : Clic!SetPending(id, on)
        PROVE  Typed' /\ TrapIsOfAnId'
    BY <1>5 DEF Clic!Enable, Clic!Disable, Clic!SetPending, Clic!Call, Typed, TrapIsOfAnId
  <1>6. ASSUME NEW id \in Clic!Ids, Clic!Interrupt(id)
        PROVE  Typed' /\ TrapIsOfAnId'
    <2>1. Clic!Handler(id) \in Plain \cup Vector
      BY DEF Clic!Handler
    <2>2. clicTrap' = [id |-> id, fn |-> Clic!Handler(id).fn, data |-> Clic!Handler(id).data]
      BY <1>6 DEF Clic!Interrupt
    <2>3. clicTrap' \in Traps /\ clicTrap'.id \in Clic!Ids
      BY <2>1, <2>2 DEF Traps, Plain, Vector
    <2>. QED  BY <1>6, <2>3 DEF Clic!Interrupt, Typed, TrapIsOfAnId
  <1>7. ASSUME NEW id \in Clic!Ids, NEW on \in BOOLEAN, Clic!SetVectored(id, on)
        PROVE  Typed' /\ TrapIsOfAnId'
    <2>1. ctl' \in [Clic!Ids -> SUBSET (0 .. 7)]
      <3>. DEFINE byte == IF on THEN ctl[id] \cup {Clic!VectorBit} ELSE ctl[id] \ {Clic!VectorBit}
      <3>1. Clic!VectorBit \in 0 .. 7
        BY BytesAreBytes
      <3>2. byte \in SUBSET (0 .. 7)
        BY <3>1
      <3>3. ctl' = [ctl EXCEPT ![id] = Clic!Stored(byte)]
        BY <1>7 DEF Clic!SetVectored
      <3>. HIDE DEF byte
      <3>4. Clic!Stored(byte) \in SUBSET (0 .. 7)
        BY <3>2, BytesAreBytes
      <3>. QED  BY <3>3, <3>4
    <2>2. switched' \subseteq Clic!Ids
      BY <1>7 DEF Clic!SetVectored, Clic!Switch, Typed
    <2>3. clicCalls' \in 0 .. ClicCalls
      <3>1. clicCalls < ClicCalls /\ clicCalls' = clicCalls + 1
        BY <1>7 DEF Clic!SetVectored, Clic!Call
      <3>. QED  BY <3>1, ClicCalls \in Nat DEF Typed, Clic!ClicAssumption
    <2>4. UNCHANGED <<clicReady, nv, nl, mode, ie, ip, clicTrap, wanted, plain, vector, clicAsked>>
      BY <1>7 DEF Clic!SetVectored, Clic!Switch, Clic!config
    <2>. QED  BY <2>1, <2>2, <2>3, <2>4, Zenon DEF Typed, TrapIsOfAnId
  <1>8. ASSUME NEW id \in Clic!Ids, NEW level \in Levels,
               Clic!SetPriorityOf(id, level) \/ Clic!SetPreemptiveLevel(id, level)
        PROVE  Typed' /\ TrapIsOfAnId'
    <2>1. level \in SUBSET (0 .. 7)
      BY DEF Clic!ClicAssumption
    <2>2. /\ Clic!Stored(Clic!SetPriority(ctl[id], level)) \in SUBSET (0 .. 7)
          /\ Clic!Stored(Clic!SetPriority(Clic!SetLevel(ctl[id], level), level)) \in SUBSET (0 .. 7)
      BY <2>1, BytesAreBytes
    <2>3. ctl' \in [Clic!Ids -> SUBSET (0 .. 7)] /\ wanted' \in [Clic!Ids -> SUBSET (0 .. 7)]
      <3>1. PICK byte \in SUBSET (0 .. 7) : ctl' = [ctl EXCEPT ![id] = byte]
        BY <1>8, <2>2 DEF Clic!SetPriorityOf, Clic!SetPreemptiveLevel
      <3>2. wanted' = wanted \/ wanted' = [wanted EXCEPT ![id] = level]
        BY <1>8 DEF Clic!SetPriorityOf, Clic!SetPreemptiveLevel
      <3>. QED  BY <2>1, <3>1, <3>2
    <2>. QED  BY <1>8, <2>3
         DEF Clic!SetPriorityOf, Clic!SetPreemptiveLevel, Clic!Switch, Clic!Call, Typed, TrapIsOfAnId
  <1>9. ASSUME NEW id \in Clic!Ids, NEW isr \in BOOLEAN,
               Clic!Register(id, isr) \/ Clic!RegisterVector(id, isr)
        PROVE  Typed' /\ TrapIsOfAnId'
    <2>1. /\ plain' \in [Clic!Ids -> Plain] /\ vector' \in [Clic!Ids -> Vector]
          /\ clicAsked' \in [Clic!Ids -> {"nothing", "plain", "vector"}]
      <3>1. [fn |-> "user", data |-> "user"] \in Plain
            /\ \A e \in Plain : [e EXCEPT !.fn = "default"] \in Plain
            /\ \A fn \in {"user", "default_vector"} : [fn |-> fn, data |-> "none"] \in Vector
        BY DEF Plain, Vector
      <3>2. CASE Clic!Register(id, isr)
        <4>1. PICK e \in Plain : plain' = [plain EXCEPT ![id] = e]
          BY <3>1, <3>2 DEF Clic!Register
        <4>. QED  BY <3>2, <4>1 DEF Clic!Register
      <3>3. CASE Clic!RegisterVector(id, isr)
        <4>1. PICK e \in Vector : vector' = [vector EXCEPT ![id] = e]
          BY <3>1, <3>3 DEF Clic!RegisterVector
        <4>. QED  BY <3>3, <4>1 DEF Clic!RegisterVector
      <3>. QED  BY <1>9, <3>2, <3>3
    <2>. QED  BY <1>9, <2>1
         DEF Clic!Register, Clic!RegisterVector, Clic!Call, Typed, TrapIsOfAnId
  <1>. QED  BY <1>1, <1>2, <1>3, <1>4, <1>5, <1>6, <1>7, <1>8, <1>9 DEF Clic!Next

-----------------------------------------------------------------------------
(* The level. *)

LEMMA LevelKept ==
    ASSUME Clic!ClicAssumption, Clic!TypeOK, LevelBitsAsWanted, Clic!Next
    PROVE  LevelBitsAsWanted'
  <1>. USE DEF Clic!config, Clic!tables
  <1>. /\ ctl \in [Clic!Ids -> SUBSET (0 .. 7)] /\ wanted \in [Clic!Ids -> SUBSET (0 .. 7)]
       /\ nl \in 0 .. 15 /\ IntBits \in 2 .. 8
    BY DEF Clic!TypeOK, Clic!ClicAssumption
  <1>1. CASE Clic!InitClic
    <2>1. Clic!InitialBits \in 0 .. 8 /\ nl' = Clic!InitialBits
      BY <1>1, InitialBitsFit DEF Clic!InitClic, Clic!Configuration
    <2>. SUFFICES ASSUME Clic!InitialBits < IntBits, NEW id \in Clic!Ids
                  PROVE  ctl'[id] \cap Clic!From(8 - Clic!InitialBits)
                           = wanted'[id] \cap Clic!From(8 - Clic!InitialBits)
      BY <2>1 DEF LevelBitsAsWanted
    <2>. DEFINE bits == Clic!InitialBits
                byte == (ctl[id] \cap Clic!Below(8 - bits)) \cup (Clic!Below(bits) \cap Clic!From(8 - bits))
    <2>2. ctl'[id] = Clic!Stored(byte) /\ wanted'[id] = Clic!Below(bits)
      BY <1>1 DEF Clic!InitClic
    <2>3. byte \in SUBSET (0 .. 7) /\ bits \in 0 .. 15
      BY <2>1 DEF Clic!Below
    <2>4. Clic!Stored(byte) \cap Clic!From(8 - bits) = byte \cap Clic!From(8 - bits)
      <3>. HIDE DEF byte
      <3>. QED  BY <2>3, StoredKeepsLevel
    <2>5. byte \cap Clic!From(8 - bits) = Clic!Below(bits) \cap Clic!From(8 - bits)
      BY DEF Clic!From
    <2>. HIDE DEF byte
    <2>. QED  BY <2>2, <2>4, <2>5
  <1>2. ASSUME NEW n \in 0 .. IntBits, Clic!SetThreshold(n)
        PROVE  LevelBitsAsWanted'
    BY <1>2 DEF Clic!SetThreshold, LevelBitsAsWanted
  <1>3. ASSUME UNCHANGED nl, clicReady' => clicReady,
               nl < IntBits => \A id \in Clic!Ids :
                   \/ ctl'[id] \cap Clic!From(8 - nl) = wanted'[id] \cap Clic!From(8 - nl)
                   \/ /\ ctl'[id] \cap Clic!From(8 - nl) = ctl[id] \cap Clic!From(8 - nl)
                      /\ wanted'[id] = wanted[id]
        PROVE  LevelBitsAsWanted'
    BY <1>3 DEF LevelBitsAsWanted
  <1>4. ASSUME NEW m \in {"selective_nonvector", "selective_vector", "hardware_vector"},
               Clic!SetVectorMode(m)
        PROVE  LevelBitsAsWanted'
    <2>1. UNCHANGED <<nl, clicReady, ctl, wanted>>
      BY <1>4 DEF Clic!SetVectorMode, Clic!Configuration
    <2>. QED  BY <1>3, <2>1
  <1>5. ASSUME NEW id \in Clic!Ids, NEW on \in BOOLEAN, Clic!SetVectored(id, on)
        PROVE  LevelBitsAsWanted'
    <2>1. ASSUME nl < IntBits, NEW i \in Clic!Ids
          PROVE  ctl'[i] \cap Clic!From(8 - nl) = ctl[i] \cap Clic!From(8 - nl)
      <3>. DEFINE byte == IF on THEN ctl[id] \cup {Clic!VectorBit} ELSE ctl[id] \ {Clic!VectorBit}
      <3>1. ctl' = [ctl EXCEPT ![id] = Clic!Stored(byte)]
        BY <1>5 DEF Clic!SetVectored
      <3>2. byte \in SUBSET (0 .. 7)
        BY BytesAreBytes
      <3>3. byte \cap Clic!From(8 - nl) = ctl[id] \cap Clic!From(8 - nl)
        BY <2>1, StoredKeepsLevel
      <3>. HIDE DEF byte
      <3>4. Clic!Stored(byte) \cap Clic!From(8 - nl) = byte \cap Clic!From(8 - nl)
        BY <2>1, <3>2, StoredKeepsLevel
      <3>. QED  BY <3>1, <3>3, <3>4
    <2>2. UNCHANGED <<nl, clicReady, wanted>>
      BY <1>5 DEF Clic!SetVectored
    <2>. QED  BY <1>3, <2>1, <2>2
  <1>6. ASSUME NEW id \in Clic!Ids, NEW level \in Levels, Clic!SetPriorityOf(id, level)
        PROVE  LevelBitsAsWanted'
    <2>0. level \in SUBSET (0 .. 7)
      BY DEF Clic!ClicAssumption
    <2>1. ASSUME nl < IntBits, NEW i \in Clic!Ids
          PROVE  ctl'[i] \cap Clic!From(8 - nl) = ctl[i] \cap Clic!From(8 - nl)
      <3>1. ctl' = [ctl EXCEPT ![id] = Clic!Stored(Clic!SetPriority(ctl[id], level))]
        BY <1>6 DEF Clic!SetPriorityOf
      <3>2. Clic!SetPriority(ctl[id], level) \in SUBSET (0 .. 7)
        BY <2>0, BytesAreBytes
      <3>3. Clic!SetPriority(ctl[id], level) \cap Clic!From(8 - nl) = ctl[id] \cap Clic!From(8 - nl)
        BY <2>0, <2>1, SettersKeepLevel
      <3>4. Clic!Stored(Clic!SetPriority(ctl[id], level)) \cap Clic!From(8 - nl)
              = Clic!SetPriority(ctl[id], level) \cap Clic!From(8 - nl)
        BY <2>1, <3>2, StoredKeepsLevel
      <3>. QED  BY <3>1, <3>3, <3>4
    <2>2. UNCHANGED <<nl, clicReady, wanted>>
      BY <1>6 DEF Clic!SetPriorityOf
    <2>. QED  BY <1>3, <2>1, <2>2
  <1>7. ASSUME NEW id \in Clic!Ids, NEW level \in Levels, Clic!SetPreemptiveLevel(id, level)
        PROVE  LevelBitsAsWanted'
    <2>0. level \in SUBSET (0 .. 7)
      BY DEF Clic!ClicAssumption
    <2>1. /\ ctl' = [ctl EXCEPT ![id] =
                        Clic!Stored(Clic!SetPriority(Clic!SetLevel(ctl[id], level), level))]
          /\ wanted' = [wanted EXCEPT ![id] = level]
          /\ UNCHANGED <<nl, clicReady>>
      BY <1>7 DEF Clic!SetPreemptiveLevel
    <2>2. ASSUME nl < IntBits
          PROVE  ctl'[id] \cap Clic!From(8 - nl) = level \cap Clic!From(8 - nl)
      <3>1. Clic!SetLevel(ctl[id], level) \in SUBSET (0 .. 7)
        BY <2>0, BytesAreBytes
      <3>2. Clic!SetPriority(Clic!SetLevel(ctl[id], level), level) \in SUBSET (0 .. 7)
        BY <2>0, <3>1, BytesAreBytes
      <3>3. Clic!SetPriority(Clic!SetLevel(ctl[id], level), level) \cap Clic!From(8 - nl)
              = Clic!SetLevel(ctl[id], level) \cap Clic!From(8 - nl)
        BY <2>0, <2>2, <3>1, SettersKeepLevel
      <3>4. Clic!SetLevel(ctl[id], level) \cap Clic!From(8 - nl) = level \cap Clic!From(8 - nl)
        <4>1. ctl[id] \in SUBSET (0 .. 7)
          OBVIOUS
        <4>2. Clic!ClicAssumption /\ Clic!TypeOK
          OBVIOUS
        <4>3. Clic!LevelMask = Clic!From(8 - nl)
          BY <2>0, <2>2, <4>2, SettersKeepLevel
        <4>. QED  BY <4>3, Zenon DEF Clic!SetLevel
      <3>5. Clic!Stored(Clic!SetPriority(Clic!SetLevel(ctl[id], level), level)) \cap Clic!From(8 - nl)
              = Clic!SetPriority(Clic!SetLevel(ctl[id], level), level) \cap Clic!From(8 - nl)
        BY <2>2, <3>2, StoredKeepsLevel
      <3>. QED  BY <2>1, <3>3, <3>4, <3>5
    <2>3. wanted'[id] = level
          /\ \A i \in Clic!Ids \ {id} : ctl'[i] = ctl[i] /\ wanted'[i] = wanted[i]
      BY <2>1
    <2>. QED  BY <1>3, <2>1, <2>2, <2>3
  <1>8. CASE UNCHANGED <<nl, clicReady, ctl, wanted>>
    BY <1>3, <1>8
  <1>. QED  BY <1>1, <1>2, <1>4, <1>5, <1>6, <1>7, <1>8
       DEF Clic!Next, Clic!Return, Clic!Enable, Clic!Disable, Clic!Interrupt, Clic!SetPending, Clic!Register,
           Clic!RegisterVector

-----------------------------------------------------------------------------
(* The handler. *)

LEMMA HandlerKept ==
    ASSUME Clic!ClicAssumption, ClicInv, Clic!Next
    PROVE  AcceptedIsThere' /\ InitFirst' /\ Clic!AcceptedHandlerRuns'
  <1>. USE DEF ClicInv, Clic!config, Clic!tables
  <1>. /\ ctl \in [Clic!Ids -> SUBSET (0 .. 7)] /\ ie \subseteq Clic!Ids
       /\ plain \in [Clic!Ids -> Plain] /\ vector \in [Clic!Ids -> Vector]
       /\ clicAsked \in [Clic!Ids -> {"nothing", "plain", "vector"}]
       /\ clicTrap \in Traps /\ "sw" \in Clic!Ids
       /\ mode \in {"early", "clic", "hardware_vector"} /\ nv \in BOOLEAN
    BY DEF Clic!TypeOK, Plain, Vector, Traps, Clic!Ids
  <1>1. CASE Clic!InitClic
    <2>1. clicTrap = Clic!NoTrap /\ clicTrap' = clicTrap /\ ie' = {} /\ mode' = "clic" /\ nv' = FALSE
          /\ clicReady'
      BY <1>1 DEF Clic!InitClic, Clic!Configuration, InitFirst
    <2>2. /\ plain' = [plain EXCEPT !["sw"] = [fn |-> "default", data |-> "null"]]
          /\ clicAsked' = [clicAsked EXCEPT !["sw"] = "plain"] /\ vector' = vector
      BY <1>1 DEF Clic!InitClic
    <2>3. \A id \in Clic!Ids :
             \/ clicAsked'[id] = "nothing"
             \/ clicAsked'[id] = "plain" /\ plain'[id].fn = "default"
      BY <1>1, <2>2 DEF Clic!InitClic, InitFirst
    <2>. QED  BY <2>1, <2>3 DEF AcceptedIsThere, Clic!Jumps, InitFirst, Clic!AcceptedHandlerRuns
  (* A call, which no handler makes, and what it leaves of a registration. *)
  <1>2. ASSUME Clic!Call, clicReady' = clicReady, clicTrap' = clicTrap, mode' # "early",
               \A id \in Clic!Ids :
                   /\ clicAsked'[id] = "plain"
                         => /\ plain'[id].fn \in {"default", "user"}
                            /\ id \notin switched' => ~Clic!Jumps(id)'
                   /\ clicAsked'[id] = "vector"
                         => /\ vector'[id].fn \in {"default_vector", "user"}
                            /\ id \notin switched' => Clic!Jumps(id)'
        PROVE  AcceptedIsThere' /\ InitFirst' /\ Clic!AcceptedHandlerRuns'
    BY <1>2 DEF Clic!Call, AcceptedIsThere, InitFirst, Clic!AcceptedHandlerRuns
  <1>3. clicReady => mode \in {"clic", "hardware_vector"}
    BY DEF InitFirst
  <1>4. ASSUME NEW m \in {"selective_nonvector", "selective_vector", "hardware_vector"},
               Clic!SetVectorMode(m)
        PROVE  AcceptedIsThere' /\ InitFirst' /\ Clic!AcceptedHandlerRuns'
    <2>1. Clic!Call /\ clicReady' = clicReady /\ clicTrap' = clicTrap /\ mode' # "early"
      BY <1>4 DEF Clic!SetVectorMode
    <2>2. UNCHANGED <<clicAsked, plain, vector>> /\ \A id \in Clic!Ids : id \in switched'
      BY <1>4 DEF Clic!SetVectorMode, Clic!Switch
    <2>. QED  BY <1>2, <2>1, <2>2 DEF AcceptedIsThere
  <1>5. ASSUME NEW n \in 0 .. IntBits, Clic!SetThreshold(n)
        PROVE  AcceptedIsThere' /\ InitFirst' /\ Clic!AcceptedHandlerRuns'
    <2>1. Clic!Call /\ UNCHANGED <<clicReady, clicTrap, mode, nv, ctl, ie, Clic!tables>>
      BY <1>5 DEF Clic!SetThreshold, Clic!Configuration
    <2>2. mode' # "early"
      BY <1>3, <2>1 DEF Clic!Call
    <2>. QED  BY <1>2, <2>1, <2>2 DEF AcceptedIsThere, Clic!Jumps, Clic!IsVectored
  <1>6. ASSUME NEW id \in Clic!Ids, Clic!Enable(id) \/ Clic!Disable(id)
        PROVE  AcceptedIsThere' /\ InitFirst' /\ Clic!AcceptedHandlerRuns'
    <2>1. Clic!Call /\ UNCHANGED <<clicReady, clicTrap, Clic!config, ctl, Clic!tables>>
      BY <1>6 DEF Clic!Enable, Clic!Disable
    <2>2. mode' # "early"
      BY <1>3, <2>1 DEF Clic!Call
    <2>. QED  BY <1>2, <2>1, <2>2 DEF AcceptedIsThere, Clic!Jumps, Clic!IsVectored
  <1>7. ASSUME NEW id \in Clic!Ids, NEW on \in BOOLEAN, Clic!SetVectored(id, on)
        PROVE  AcceptedIsThere' /\ InitFirst' /\ Clic!AcceptedHandlerRuns'
    <2>1. Clic!Call /\ UNCHANGED <<clicReady, clicTrap, Clic!config, clicAsked, plain, vector>>
      BY <1>7 DEF Clic!SetVectored, Clic!Switch
    <2>2. mode' # "early"
      BY <1>3, <2>1 DEF Clic!Call
    <2>3. switched' = switched \cup {id} /\ \A i \in Clic!Ids \ {id} : ctl'[i] = ctl[i]
      BY <1>7 DEF Clic!SetVectored, Clic!Switch
    <2>. QED  BY <1>2, <2>1, <2>2, <2>3 DEF AcceptedIsThere, Clic!Jumps, Clic!IsVectored
  <1>8. ASSUME NEW id \in Clic!Ids, NEW level \in Levels,
               Clic!SetPriorityOf(id, level) \/ Clic!SetPreemptiveLevel(id, level)
        PROVE  AcceptedIsThere' /\ InitFirst' /\ Clic!AcceptedHandlerRuns'
    <2>1. Clic!Call /\ UNCHANGED <<clicReady, clicTrap, Clic!config, clicAsked, plain, vector>>
      BY <1>8 DEF Clic!SetPriorityOf, Clic!SetPreemptiveLevel, Clic!Switch
    <2>2. mode' # "early"
      BY <1>3, <2>1 DEF Clic!Call
    <2>3. \A i \in Clic!Ids \ {id} : ctl'[i] = ctl[i]
      BY <1>8 DEF Clic!SetPriorityOf, Clic!SetPreemptiveLevel
    <2>4. switched \subseteq switched' /\ (nv => id \in switched')
      BY <1>8 DEF Clic!SetPriorityOf, Clic!SetPreemptiveLevel, Clic!Switch
    <2>5. \A i \in Clic!Ids : i \notin switched' => i \notin switched /\ Clic!Jumps(i)' = Clic!Jumps(i)
      BY <2>1, <2>3, <2>4 DEF Clic!Jumps, Clic!IsVectored
    <2>. QED  BY <1>2, <2>1, <2>2, <2>5 DEF AcceptedIsThere
  <1>9. ASSUME NEW id \in Clic!Ids, NEW isr \in BOOLEAN, Clic!Register(id, isr)
        PROVE  AcceptedIsThere' /\ InitFirst' /\ Clic!AcceptedHandlerRuns'
    <2>1. Clic!Call /\ UNCHANGED <<clicReady, clicTrap, Clic!config, ctl, ie, vector>>
      BY <1>9 DEF Clic!Register
    <2>2. mode' # "early" /\ mode \in {"clic", "hardware_vector"}
      BY <1>3, <2>1 DEF Clic!Call
    <2>3. /\ clicAsked'[id] = "plain"
          /\ \A i \in Clic!Ids \ {id} : clicAsked'[i] = clicAsked[i] /\ plain'[i] = plain[i]
          /\ switched' = switched \ {id}
      BY <1>9 DEF Clic!Register
    <2>4. plain'[id].fn \in {"default", "user"}
      BY <1>9 DEF Clic!Register, Plain
    <2>5. ~Clic!Jumps(id)'
      BY <1>9, <2>1, <2>2 DEF Clic!Register, Clic!MayBePlain, Clic!VectorMode, Clic!Jumps, Clic!IsVectored
    <2>. QED  BY <1>2, <2>1, <2>2, <2>3, <2>4, <2>5
         DEF AcceptedIsThere, Clic!Jumps, Clic!IsVectored
  <1>10. ASSUME NEW id \in Clic!Ids, NEW isr \in BOOLEAN, Clic!RegisterVector(id, isr)
         PROVE  AcceptedIsThere' /\ InitFirst' /\ Clic!AcceptedHandlerRuns'
    <2>1. Clic!Call /\ UNCHANGED <<clicReady, clicTrap, Clic!config, ctl, ie, plain>>
      BY <1>10 DEF Clic!RegisterVector
    <2>2. mode' # "early" /\ mode \in {"clic", "hardware_vector"}
      BY <1>3, <2>1 DEF Clic!Call
    <2>3. /\ clicAsked'[id] = "vector"
          /\ \A i \in Clic!Ids \ {id} : clicAsked'[i] = clicAsked[i] /\ vector'[i] = vector[i]
          /\ switched' = switched \ {id}
      BY <1>10 DEF Clic!RegisterVector
    <2>4. vector'[id].fn \in {"default_vector", "user"}
      BY <1>10 DEF Clic!RegisterVector
    <2>5. Clic!Jumps(id)'
      BY <1>10, <2>1, <2>2 DEF Clic!RegisterVector, Clic!VectorMode, Clic!Jumps, Clic!IsVectored
    <2>. QED  BY <1>2, <2>1, <2>2, <2>3, <2>4, <2>5
         DEF AcceptedIsThere, Clic!Jumps, Clic!IsVectored
  <1>11. ASSUME NEW id \in Clic!Ids, NEW on \in BOOLEAN, Clic!SetPending(id, on)
         PROVE  AcceptedIsThere' /\ InitFirst' /\ Clic!AcceptedHandlerRuns'
    BY <1>11 DEF Clic!SetPending, AcceptedIsThere, Clic!Jumps, Clic!IsVectored, InitFirst,
                 Clic!AcceptedHandlerRuns
  <1>12. CASE Clic!Return
    BY <1>12 DEF Clic!Return, AcceptedIsThere, Clic!Jumps, Clic!IsVectored, InitFirst,
                 Clic!AcceptedHandlerRuns, Clic!NoTrap
  <1>13. ASSUME NEW id \in Clic!Ids, Clic!Interrupt(id)
         PROVE  AcceptedIsThere' /\ InitFirst' /\ Clic!AcceptedHandlerRuns'
    <2>1. /\ clicTrap' = [id |-> id, fn |-> Clic!Handler(id).fn, data |-> Clic!Handler(id).data]
          /\ UNCHANGED <<clicReady, Clic!config, ctl, ie, Clic!tables>> /\ id \in ie
      BY <1>13 DEF Clic!Interrupt
    <2>2. AcceptedIsThere' /\ InitFirst'
      BY <2>1 DEF AcceptedIsThere, Clic!Jumps, Clic!IsVectored, InitFirst
    <2>3. UNCHANGED <<plain, vector, clicAsked, switched>> /\ Clic!Jumps(id)' = Clic!Jumps(id)
      BY <2>1 DEF Clic!Jumps, Clic!IsVectored
    <2>4. clicTrap'.id = id /\ clicTrap'.fn = Clic!Handler(id).fn /\ clicTrap'.data = Clic!Handler(id).data
      BY <2>1
    <2>5. CASE clicAsked[id] = "plain" /\ (id \notin switched \/ ~Clic!Jumps(id))
      <3>1. ~Clic!Jumps(id) /\ plain[id].fn \in {"default", "user"}
        BY <2>5 DEF AcceptedIsThere
      <3>. QED  BY <2>2, <2>3, <2>4, <2>5, <3>1 DEF Clic!AcceptedHandlerRuns, Clic!Handler
    <2>6. CASE clicAsked[id] = "vector" /\ (id \notin switched \/ Clic!Jumps(id))
      <3>1. Clic!Jumps(id) /\ vector[id].fn \in {"default_vector", "user"}
        BY <2>6 DEF AcceptedIsThere
      <3>. QED  BY <2>2, <2>3, <2>4, <2>6, <3>1 DEF Clic!AcceptedHandlerRuns, Clic!Handler
    <2>7. CASE \/ clicAsked[id] = "nothing"
               \/ id \in switched /\ clicAsked[id] = "plain" /\ Clic!Jumps(id)
               \/ id \in switched /\ clicAsked[id] = "vector" /\ ~Clic!Jumps(id)
      BY <2>2, <2>3, <2>4, <2>7 DEF Clic!AcceptedHandlerRuns
    <2>. QED  BY <2>5, <2>6, <2>7
  <1>. QED  BY <1>1, <1>4, <1>5, <1>6, <1>7, <1>8, <1>9, <1>10, <1>11, <1>12, <1>13
       DEF Clic!Next

LEMMA ClicInductive ==
    ASSUME Clic!ClicAssumption, ClicInv, [Clic!Next]_Clic!vars
    PROVE  ClicInv'
  <1>1. CASE UNCHANGED Clic!vars
    BY <1>1 DEF ClicInv, Clic!TypeOK, LevelBitsAsWanted, AcceptedIsThere, Clic!Jumps,
                Clic!IsVectored, InitFirst, TrapIsOfAnId, Clic!AcceptedHandlerRuns, Clic!vars,
                Clic!config, Clic!tables
  <1>2. CASE Clic!Next
    <2>0. Clic!TypeOK' <=> Typed'
      BY TypedIsTypeOK, PTL
    <2>1. Clic!TypeOK' /\ TrapIsOfAnId'
      BY <1>2, <2>0, TypeKept, TypedIsTypeOK DEF ClicInv
    <2>. QED  BY <1>2, <2>1, LevelKept, HandlerKept DEF ClicInv
  <1>. QED  BY <1>1, <1>2

LEMMA LevelFollows ==
    ASSUME Clic!ClicAssumption, Clic!TypeOK, LevelBitsAsWanted
    PROVE  Clic!LevelIsKept
  <1>. SUFFICES ASSUME NEW id \in Clic!Ids, clicReady, nl < IntBits
                PROVE  Clic!GetLevel(id) = (wanted[id] \cap Clic!LevelMask) \cup Clic!Below(8 - nl)
    BY DEF Clic!LevelIsKept
  <1>. nl \in 0 .. 15 /\ IntBits \in 2 .. 8
    BY DEF Clic!TypeOK, Clic!ClicAssumption
  <1>1. Clic!LevelMask = Clic!From(8 - nl) /\ Clic!LevelBits = nl
    BY DEF Clic!LevelMask, Clic!LevelBits
  <1>2. ctl[id] \cap Clic!From(8 - nl) = wanted[id] \cap Clic!From(8 - nl)
    BY DEF LevelBitsAsWanted
  <1>3. CASE nl = 0
    <2>1. Clic!From(8 - nl) = {} /\ Clic!Below(8 - nl) = 0 .. 7
      BY <1>3 DEF Clic!From, Clic!Below
    <2>. QED  BY <1>1, <1>3, <2>1 DEF Clic!GetLevel
  <1>4. CASE nl # 0
    BY <1>1, <1>2, <1>4 DEF Clic!GetLevel
  <1>. QED  BY <1>3, <1>4

-----------------------------------------------------------------------------

(* The invariant of the reachable states of the CLIC and its driver,        *)
(* whatever calls a program makes and in whatever order.                    *)
THEOREM ClicInvariance ==
    ASSUME Clic!ClicAssumption
    PROVE  Clic!Spec => []ClicInv
  <1>1. Clic!Init => ClicInv
    BY ClicInitially
  <1>2. ClicInv /\ [Clic!Next]_Clic!vars => ClicInv'
    BY ClicInductive
  <1>. QED  BY <1>1, <1>2, PTL DEF Clic!Spec

(* The mode, the configuration, the control bytes and the tables of         *)
(* sifive_clic0.c have their types in every reachable state: no setter      *)
(* leaves more level bits than NLBITS holds or a bit outside of a byte.     *)
THEOREM ClicTypeCorrect ==
    ASSUME Clic!ClicAssumption
    PROVE  Clic!Spec => []Clic!TypeOK
  <1>1. ClicInv => Clic!TypeOK
    BY DEF ClicInv
  <1>. QED  BY <1>1, ClicInvariance, PTL

(* A CLIC interrupt ends in the handler that was accepted last for it,      *)
(* plain or vectored (sifive_clic0.c), as long as no call has told the      *)
(* controller to deliver it another way, and whenever it is back to the way *)
(* that the handler was accepted for.                                       *)
THEOREM ClicAcceptedRuns ==
    ASSUME Clic!ClicAssumption
    PROVE  Clic!Spec => []Clic!AcceptedHandlerRuns
  <1>1. ClicInv => Clic!AcceptedHandlerRuns
    BY DEF ClicInv
  <1>. QED  BY <1>1, ClicInvariance, PTL

(* interrupt_get_preemptive_level (sifive_clic0.c) returns the level that   *)
(* was set last, for any number of level bits that leaves one to the        *)
(* priority and the vector bit of the same byte.                            *)
THEOREM ClicLevelStays ==
    ASSUME Clic!ClicAssumption
    PROVE  Clic!Spec => []Clic!LevelIsKept
  <1>1. ClicInv => Clic!LevelIsKept
    BY LevelFollows DEF ClicInv
  <1>. QED  BY <1>1, ClicInvariance, PTL

-----------------------------------------------------------------------------
(* The systems together.                                                     *)

CpuInv == IF unit = "two" THEN Two!IInv ELSE One!IInv

PlicInv ==
    IF unit = "shared" THEN Shared!IInv /\ Shared!OwnInv
                       ELSE Alone!IInv /\ Alone!OwnInv

IInv == CpuInv /\ PlicInv /\ ClicInv

(* On the boards of the five systems the harts come up in order, and each    *)
(* hart enables for itself.                                                  *)
LEMMA BoardsFit ==
    /\ One!InOrder /\ Two!InOrder
    /\ Shared!EachForItself /\ Alone!EachForItself
  <1>1. One!InOrder /\ Two!InOrder
    BY DEF One!InOrder, Two!InOrder
  <1>2. Shared!EachForItself /\ Alone!EachForItself
    BY DEF Shared!EachForItself, Alone!EachForItself
  <1>. QED  BY <1>1, <1>2

LEMMA Initially ==
    ASSUME Init
    PROVE  IInv
  <1>. USE Instances DEF Instances
  <1>1. CpuInv
    BY One!IInvInitially, Two!IInvInitially DEF Init, CpuInv
  <1>2. PlicInv
    BY Shared!Initially, Shared!OwnInitially, Alone!Initially,
       Alone!OwnInitially DEF Init, PlicInv
  <1>3. ClicInv
    BY ClicInitially DEF Init
  <1>. QED  BY <1>1, <1>2, <1>3 DEF IInv

(* A system keeps its invariant with its own steps, and when another one     *)
(* takes a step.                                                             *)
LEMMA OneKept ==
    ASSUME One!IInv, One!Next \/ UNCHANGED cpuVars
    PROVE  One!IInv'
  <1>1. [One!Next]_One!vars
    BY DEF cpuVars, One!vars, One!tables, One!csrs
  <1>. QED  BY <1>1, Instances, BoardsFit, One!Inductive DEF Instances

LEMMA TwoKept ==
    ASSUME Two!IInv, Two!Next \/ UNCHANGED cpuVars
    PROVE  Two!IInv'
  <1>1. [Two!Next]_Two!vars
    BY DEF cpuVars, Two!vars, Two!tables, Two!csrs
  <1>. QED  BY <1>1, Instances, BoardsFit, Two!Inductive DEF Instances

LEMMA SharedKept ==
    ASSUME Shared!IInv, Shared!OwnInv, Shared!Next \/ UNCHANGED plicVars
    PROVE  Shared!IInv' /\ Shared!OwnInv'
  <1>1. [Shared!Next]_Shared!vars
    BY DEF plicVars, Shared!vars, Shared!hardware, Shared!registers, Shared!tables
  <1>2. Shared!IInv'
    BY <1>1, Instances, Shared!Inductive DEF Instances
  <1>3. Shared!OwnInv'
    BY <1>1, Instances, BoardsFit, Shared!OwnInductive DEF Instances
  <1>. QED  BY <1>2, <1>3

LEMMA AloneKept ==
    ASSUME Alone!IInv, Alone!OwnInv, Alone!Next \/ UNCHANGED plicVars
    PROVE  Alone!IInv' /\ Alone!OwnInv'
  <1>1. [Alone!Next]_Alone!vars
    BY DEF plicVars, Alone!vars, Alone!hardware, Alone!registers, Alone!tables
  <1>2. Alone!IInv'
    BY <1>1, Instances, Alone!Inductive DEF Instances
  <1>3. Alone!OwnInv'
    BY <1>1, Instances, BoardsFit, Alone!OwnInductive DEF Instances
  <1>. QED  BY <1>2, <1>3

LEMMA ClicKept ==
    ASSUME ClicInv, Clic!Next \/ UNCHANGED clicVars
    PROVE  ClicInv'
  <1>1. [Clic!Next]_Clic!vars
    BY DEF clicVars, Clic!vars, Clic!config, Clic!tables
  <1>. QED  BY <1>1, Instances, ClicInductive DEF Instances

(* A step is one of the system that the behaviour is about.                  *)
LEMMA StepsOfUnit ==
    ASSUME [Next]_vars
    PROVE  /\ unit' = unit
           /\ (IF unit = "two" THEN Two!Next ELSE One!Next) \/ UNCHANGED cpuVars
           /\ (IF unit = "shared" THEN Shared!Next ELSE Alone!Next)
                 \/ UNCHANGED plicVars
           /\ Clic!Next \/ UNCHANGED clicVars
  BY DEF Next, vars

LEMMA Inductive ==
    ASSUME IInv, [Next]_vars
    PROVE  IInv'
  <1>1. CpuInv'
    BY StepsOfUnit, OneKept, TwoKept DEF IInv, CpuInv
  <1>2. PlicInv'
    BY StepsOfUnit, SharedKept, AloneKept DEF IInv, PlicInv
  <1>3. ClicInv'
    BY StepsOfUnit, ClicKept DEF IInv
  <1>. QED  BY <1>1, <1>2, <1>3 DEF IInv

(* The invariant of the five systems, of which each theorem below is a       *)
(* consequence.                                                              *)
THEOREM Invariance == Spec => []IInv
  <1>1. Init => IInv
    BY Initially
  <1>2. IInv /\ [Next]_vars => IInv'
    BY Inductive
  <1>. QED  BY <1>1, <1>2, PTL DEF Spec

-----------------------------------------------------------------------------

(* The state of the controllers and of their drivers keeps its type, in the  *)
(* systems of the run (riscv_cpu.c, riscv_plic0.c, sifive_clic0.c).          *)
THEOREM TypeCorrect == Spec => []TypeOK
  <1>1. IInv => TypeOK
    <2>. HAVE IInv
    <2>1. IF unit = "two" THEN Two!TypeOK ELSE One!TypeOK
      BY DEF IInv, CpuInv, Two!IInv, One!IInv, Two!OrderInv, One!OrderInv,
             Two!TypeInv, One!TypeInv
    <2>2. IF unit = "shared" THEN Shared!TypeOK ELSE Alone!TypeOK
      BY DEF IInv, PlicInv, Shared!IInv, Alone!IInv
    <2>3. Clic!TypeOK
      BY DEF IInv, ClicInv
    <2>. QED  BY <2>1, <2>2, <2>3 DEF TypeOK
  <1>. QED  BY <1>1, Invariance, PTL

(* Both harts trap for a source that both have enabled, and one of them      *)
(* serves it: the other claims 0 (__metal_plic0_handler).                    *)
THEOREM OneServes == Spec => []OneHartServes
  <1>1. IInv => OneHartServes
    BY Shared!OneFollows DEF IInv, PlicInv, OneHartServes
  <1>. QED  BY <1>1, Invariance, PTL

(* No hart's enabling and disabling, of its own or of another context, lets  *)
(* a source wait for a completion that nobody will write (riscv_plic0.c).    *)
THEOREM NothingIsLost == Spec => []NoSourceIsLost
  <1>1. IInv => NoSourceIsLost
    BY Shared!LostFollows, Alone!LostFollows DEF IInv, PlicInv, NoSourceIsLost
  <1>. QED  BY <1>1, Invariance, PTL

(* Reading, changing and writing whole words of enable bits, for its own     *)
(* hart or for the contexts of a mask, ends with the bits that were asked    *)
(* for (__metal_plic0_enable, __metal_driver_riscv_plic0_affinity_enable).   *)
THEOREM BitsAreAsAsked == Spec => []EnabledAsAsked
  <1>1. IInv => EnabledAsAsked
    BY DEF IInv, PlicInv, EnabledAsAsked, Shared!OwnInv, Alone!OwnInv,
           Shared!EnabledAsAsked, Alone!EnabledAsAsked
  <1>. QED  BY <1>1, Invariance, PTL

(* A PLIC handler is called with the data that was registered with it        *)
(* (__metal_driver_riscv_plic0_register).                                    *)
THEOREM DataIsRegistered == Spec => []HandlerGetsItsData
  <1>1. IInv => HandlerGetsItsData
    BY DEF IInv, PlicInv, HandlerGetsItsData, Shared!IInv, Alone!IInv
  <1>. QED  BY <1>1, Invariance, PTL

(* What was registered last, and accepted, for an interrupt answers it, in   *)
(* the CPU controller with its children and in the CLIC (riscv_cpu.c,        *)
(* sifive_clic0.c).                                                          *)
THEOREM LastRegistered == Spec => []LastRegisteredRuns
  <1>1. IInv => LastRegisteredRuns
    BY DEF IInv, CpuInv, LastRegisteredRuns, One!IInv, Two!IInv,
           One!TrapsAnswered, Two!TrapsAnswered, ClicInv
  <1>. QED  BY <1>1, Invariance, PTL

(* A hart that has initialised its controller traps to a function            *)
(* (__metal_driver_riscv_cpu_controller_interrupt_init).                     *)
THEOREM TrapsWell == Spec => []InitialisedHartsTrapWell
  <1>1. IInv => InitialisedHartsTrapWell
    BY DEF IInv, CpuInv, InitialisedHartsTrapWell, One!IInv, Two!IInv,
           One!TrapsAnswered, Two!TrapsAnswered
  <1>. QED  BY <1>1, Invariance, PTL

(* Once it is initialised the CLINT stays the child of its lines             *)
(* (riscv_clint0.c, riscv_cpu.c).                                            *)
THEOREM ClintReachable == Spec => []ClintStaysReachable
  <1>1. IInv => ClintStaysReachable
    BY DEF IInv, CpuInv, ClintStaysReachable, One!IInv, Two!IInv,
           One!ClintLines, Two!ClintLines, One!Visited, Two!Visited,
           One!ClintStaysReachable, Two!ClintStaysReachable
  <1>. QED  BY <1>1, Invariance, PTL

(* A CLIC interrupt keeps the level that was set last, in a control byte     *)
(* that its priority and its vector bit share (sifive_clic0.c).              *)
THEOREM LevelStays == Spec => []LevelIsKept
  <1>1. IInv => LevelIsKept
    BY Instances, LevelFollows DEF Instances, IInv, ClicInv, LevelIsKept
  <1>. QED  BY <1>1, Invariance, PTL

=============================================================================
