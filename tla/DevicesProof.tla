---------------------------- MODULE DevicesProof -----------------------------
(***************************************************************************)
(* Proofs about the devices and units of MCDevices, for every value of its *)
(* constants, which Instances restricts.  Each part has a section: the     *)
(* assumption about its constants (XAssumed), its inductive invariant XInv *)
(* with the parts it is made of, one lemma for each action, and that XInv  *)
(* is true initially, is kept, and implies what MCDevices says of the part *)
(* (XInitially, XInductive, XFollows).  The last section puts the parts    *)
(* together.                                                               *)
(***************************************************************************)
EXTENDS MCDevices, SequenceTheorems, WellFoundedInduction, TLAPS

-----------------------------------------------------------------------------
(* Numbers.                                                                  *)

(* Division: quotient and remainder of an integer, as the provers know them. *)
LEMMA DivMod ==
    ASSUME NEW n \in Int, NEW d \in Nat \ {0}
    PROVE  /\ n \div d \in Int
           /\ n % d \in 0 .. d - 1
           /\ n = d * (n \div d) + (n % d)
  OBVIOUS

(* A greater factor makes a product greater by at least the other one.       *)
LEMMA MulMono ==
    ASSUME NEW a \in Int, NEW b \in Int, NEW d \in Nat \ {0}, a < b
    PROVE  d * a + d <= d * b
  OBVIOUS

(* Quotient and remainder are the only numbers that make up n so.            *)
LEMMA DivUnique ==
    ASSUME NEW q \in Int, NEW d \in Nat \ {0}, NEW r \in 0 .. d - 1,
           NEW n \in Int, n = d * q + r
    PROVE  n \div d = q /\ n % d = r
  <1>1. n \div d \in Int /\ n % d \in 0 .. d - 1 /\ n = d * (n \div d) + (n % d)
    BY DivMod
  <1>2. ~(n \div d < q)
    BY <1>1, MulMono
  <1>3. ~(q < n \div d)
    BY <1>1, MulMono
  <1>. QED  BY <1>1, <1>2, <1>3

LEMMA DivNat ==
    ASSUME NEW n \in Nat, NEW d \in Nat \ {0}
    PROVE  /\ n \div d \in Nat
           /\ n % d \in 0 .. d - 1
           /\ n = d * (n \div d) + (n % d)
  <1>1. n \div d \in Int /\ n % d \in 0 .. d - 1 /\ n = d * (n \div d) + (n % d)
    BY DivMod
  <1>2. ~(n \div d < 0)
    BY <1>1, MulMono
  <1>. QED  BY <1>1, <1>2

(* Division keeps the order.                                                 *)
LEMMA DivMonotone ==
    ASSUME NEW m \in Nat, NEW n \in Nat, NEW d \in Nat \ {0}, m <= n
    PROVE  m \div d <= n \div d
  <1>1. m \div d \in Int /\ m % d \in 0 .. d - 1 /\ m = d * (m \div d) + (m % d)
    BY DivMod
  <1>2. n \div d \in Int /\ n % d \in 0 .. d - 1 /\ n = d * (n \div d) + (n % d)
    BY DivMod
  <1>3. ~(n \div d < m \div d)
    BY <1>1, <1>2, MulMono
  <1>. QED  BY <1>1, <1>2, <1>3

(* A multiple of the modulus does not matter.                                *)
LEMMA ModShift ==
    ASSUME NEW a \in Int, NEW k \in Int, NEW d \in Nat \ {0}
    PROVE  (a + d * k) % d = a % d
  <1>1. a \div d \in Int /\ a % d \in 0 .. d - 1 /\ a = d * (a \div d) + (a % d)
    BY DivMod
  <1>2. d * ((a \div d) + k) = d * (a \div d) + d * k /\ d * k \in Int
    BY <1>1
  <1>3. a + d * k = d * ((a \div d) + k) + (a % d)
    BY <1>1, <1>2
  <1>. DEFINE n == a + d * k
              q == (a \div d) + k
              r == a % d
  <1>4. n \in Int /\ q \in Int /\ r \in 0 .. d - 1 /\ n = d * q + r
    BY <1>1, <1>2, <1>3
  <1>5. n % d = r
    <2>. HIDE DEF n, q, r
    <2>. QED  BY <1>4, DivUnique
  <1>. QED  BY <1>5

(* The quotient of a sum is that of its parts, or one more.                  *)
LEMMA DivSum ==
    ASSUME NEW a \in Nat, NEW b \in Nat, NEW d \in Nat \ {0}
    PROVE  (a + b) \div d - a \div d \in {b \div d, (b \div d) + 1}
<1> DEFINE p == a \div d
           q == b \div d
           r == a % d
           s == b % d
           n == a + b
<1>1. /\ p \in Int /\ r \in 0 .. d - 1 /\ a = d * p + r
      /\ q \in Int /\ s \in 0 .. d - 1 /\ b = d * q + s
  BY DivMod
<1>2. n \in Int /\ n = a + b
  OBVIOUS
<1> HIDE DEF p, q, r, s, n
<1>3. d * (p + q) = d * p + d * q /\ d * (p + q + 1) = d * p + d * q + d
      /\ d * p \in Int /\ d * q \in Int
  BY <1>1
<1>4. CASE r + s < d
  <2>1. n = d * (p + q) + (r + s) /\ r + s \in 0 .. d - 1 /\ p + q \in Int
    BY <1>1, <1>2, <1>3, <1>4
  <2>2. n \div d = p + q
    BY <1>2, <2>1, DivUnique
  <2> QED BY <1>1, <2>2 DEF n, p, q
<1>5. CASE ~(r + s < d)
  <2>1. n = d * (p + q + 1) + (r + s - d) /\ r + s - d \in 0 .. d - 1 /\ p + q + 1 \in Int
    BY <1>1, <1>2, <1>3, <1>5
  <2>2. n \div d = p + q + 1
    BY <1>2, <2>1, DivUnique
  <2> QED BY <1>1, <2>2 DEF n, p, q
<1> QED BY <1>4, <1>5

(* A difference of words is the difference, in a word.                       *)
LEMMA ModDifference ==
    ASSUME NEW x \in Nat, NEW y \in Nat, NEW d \in Nat \ {0}
    PROVE  ((x % d) - (y % d)) % d = (x - y) % d
<1> DEFINE p == x \div d
           q == y \div d
           r == x % d
           s == y % d
           k == p - q
           a == r - s
<1>1. /\ p \in Int /\ r \in 0 .. d - 1 /\ x = d * p + r
      /\ q \in Int /\ s \in 0 .. d - 1 /\ y = d * q + s
  BY DivMod
<1>2. d * (p - q) = d * p - d * q
  BY <1>1
<1> HIDE DEF p, q, r, s
<1>3. x - y = a + d * k /\ a \in Int /\ k \in Int
  BY <1>1, <1>2
<1> HIDE DEF a, k
<1>4. (a + d * k) % d = a % d
  BY <1>3, ModShift
<1> QED BY <1>3, <1>4 DEF a, r, s

(* A set of natural numbers has a least one.                                 *)
LEMMA LeastExists ==
    ASSUME NEW S \in SUBSET Nat, S # {}
    PROVE  \E x \in S : \A y \in S : x <= y
<1>. DEFINE R == {ss \in Nat \X Nat : ss[1] < ss[2]}
<1>1. IsWellFoundedOn(R, Nat)
  BY NatLessThanWellFounded DEF OpToRel
<1>2. PICK x \in S : \A y \in S : ~(<<y, x>> \in R)
  <2>. HIDE DEF R
  <2>. QED BY <1>1, WFMin
<1>3. ASSUME NEW y \in S PROVE x <= y
  <2>1. <<y, x>> \in Nat \X Nat /\ <<y, x>>[1] = y /\ <<y, x>>[2] = x
    OBVIOUS
  <2>2. y < x => <<y, x>> \in R
    BY <2>1
  <2> QED BY <1>2, <2>2
<1> QED BY <1>3

-----------------------------------------------------------------------------
(* The PMP.                                                                   *)

LEMMA PmpAssumed == Pmp!PmpAssumption
  BY Instances

(* A region's configuration: lock bit, matching mode and permissions.        *)
PmpConfig == [L : BOOLEAN, A : PmpModes, P : SUBSET Perms]

PmpTyped ==
    /\ cfg \in [Pmp!Regions -> PmpConfig]
    /\ addr \in [Pmp!Regions -> Addresses]
    /\ grain \in {0, Grain}
    /\ pmpLast \in [region : -1 .. PmpNum, rc : {0, 3, 4}, cfg : PmpConfig, addr : Addresses]

PmpInv == PmpTyped /\ Pmp!SuccessMeansSet /\ Pmp!RegionsAreLargeEnough

(* What the assumption says of the constants.                                *)
LEMMA PmpConsts ==
    PmpNum \in 1 .. 16 /\ Grain \in Nat /\ 0 \in Addresses /\ Pmp!Off \in PmpConfig /\ 0 \in Pmp!Regions
                /\ Pmp!Regions = 0 .. PmpNum - 1
<1>1. PmpNum \in 1 .. 16 /\ Grain \in Nat /\ 0 \in Addresses /\ "off" \in PmpModes
  BY PmpAssumed DEF Pmp!PmpAssumption
<1>2. Pmp!Off \in PmpConfig
  BY <1>1 DEF Pmp!Off, PmpConfig
<1> QED BY <1>1, <1>2 DEF Pmp!Regions

(* A region that is not locked takes the byte written to it; the others,     *)
(* which the same CSR holds, keep theirs.                                    *)
LEMMA PmpWritten ==
    ASSUME NEW r \in Pmp!Regions, NEW c, ~cfg[r].L
    PROVE  Pmp!Written(r, c) = [q \in Pmp!Regions |-> IF q = r THEN c ELSE cfg[q]]
<1>1. Pmp!Lanes(r) = {r}
  BY PmpAssumed DEF Pmp!Lanes
<1>2. Pmp!Min({r}) = r
  <2>1. r \in Int
    BY PmpConsts
  <2> QED BY <2>1 DEF Pmp!Min
<1> QED BY <1>1, <1>2 DEF Pmp!Written

LEMMA PmpInitially == Pmp!Init => PmpInv
<1> SUFFICES ASSUME Pmp!Init PROVE PmpInv OBVIOUS
<1>1. PmpTyped
  BY PmpConsts DEF Pmp!Init, PmpTyped
<1> QED
  BY <1>1, PmpConsts
     DEF Pmp!Init, PmpInv, Pmp!SuccessMeansSet,
         Pmp!RegionsAreLargeEnough, Pmp!Off

\* A call on region r with a guard that holds.
LEMMA PmpSetStep ==
    ASSUME PmpInv, NEW r \in 0 .. PmpNum, NEW c \in PmpConfig,
           NEW a \in Addresses,
           Pmp!MaySet, Pmp!SetRegion(r, c, a)
    PROVE  /\ PmpInv'
           /\ \A q \in Pmp!Regions : cfg'[q] # cfg[q] /\ pmpLast'.region # -1 => q = pmpLast'.region
<1>. DEFINE code == CASE Pmp!TooSmall(c, a) -> 3
                    [] r \in Pmp!Regions /\ cfg[r].L -> 4
                    [] OTHER -> 0
<1>0. PmpTyped /\ Pmp!RegionsAreLargeEnough
  BY DEF PmpInv
<1>1. grain = Grain /\ Grain > 0
  BY <1>0, PmpConsts DEF Pmp!MaySet, PmpTyped
<1>2. /\ code = 0 => ~Pmp!TooSmall(c, a) /\ (r \in Pmp!Regions => ~cfg[r].L)
      /\ code \in {0, 3, 4}
  OBVIOUS
<1>. HIDE DEF code
<1>3. /\ addr' = IF code = 0 /\ r \in Pmp!Regions /\ Pmp!AddressTaken(r, c) THEN [addr EXCEPT ![r] = a] ELSE addr
      /\ cfg' = IF code = 0 /\ r \in Pmp!Regions /\ cfg[r] # c THEN Pmp!Written(r, c) ELSE cfg
      /\ pmpLast' = IF code = 0 THEN [region |-> r, rc |-> 0, cfg |-> c, addr |-> a]
                 ELSE [region |-> r, rc |-> code, cfg |-> Pmp!Off, addr |-> 0]
      /\ grain' = grain
  BY DEF Pmp!SetRegion, code
<1>4. pmpLast' \in [region : -1 .. PmpNum, rc : {0, 3, 4}, cfg : PmpConfig, addr : Addresses]
      /\ pmpLast'.region = r /\ (pmpLast'.rc = 0 => code = 0 /\ pmpLast'.cfg = c /\ pmpLast'.addr = a)
  <2>1. CASE code = 0
    BY <2>1, <1>3, PmpConsts
  <2>2. CASE code # 0
    BY <2>2, <1>2, <1>3, PmpConsts
  <2> QED BY <2>1, <2>2
<1>5. CASE ~(code = 0 /\ r \in Pmp!Regions)
  <2>1. cfg' = cfg /\ addr' = addr
    BY <1>3, <1>5
  <2>2. Pmp!SuccessMeansSet'
    BY <1>4, <1>5 DEF Pmp!SuccessMeansSet
  <2> QED
    BY <1>0, <1>3, <1>4, <2>1, <2>2
       DEF PmpInv, PmpTyped, Pmp!RegionsAreLargeEnough, Pmp!IsLowerBound
<1>6. CASE code = 0 /\ r \in Pmp!Regions
  <2>1. ~Pmp!TooSmall(c, a) /\ ~cfg[r].L
    BY <1>2, <1>6
  <2>2. /\ addr' = [addr EXCEPT ![r] = a] \/ (addr' = addr /\ Pmp!IsLowerBound(r))
        /\ Pmp!IsLowerBound(r) => addr' = addr
    BY <1>3, <1>6, <2>1 DEF Pmp!AddressTaken, Pmp!AddressFixed
  <2>3. ~Pmp!IsLowerBound(r) => addr' = [addr EXCEPT ![r] = a]
    BY <2>2
  <2>4. cfg' = [q \in Pmp!Regions |-> IF q = r THEN c ELSE cfg[q]]
    <3>1. CASE cfg[r] = c
      BY <3>1, <1>0, <1>3, <1>6 DEF PmpTyped
    <3>2. CASE cfg[r] # c
      BY <3>2, <1>3, <1>6, <2>1, PmpWritten
    <3> QED BY <3>1, <3>2
  <2>5. /\ cfg' \in [Pmp!Regions -> PmpConfig] /\ addr' \in [Pmp!Regions -> Addresses]
        /\ cfg'[r] = c /\ (~Pmp!IsLowerBound(r) => addr'[r] = a)
        /\ \A q \in Pmp!Regions : q # r => cfg'[q] = cfg[q] /\ addr'[q] = addr[q]
    BY <1>0, <1>6, <2>2, <2>4 DEF PmpTyped
  <2>6. \A q \in Pmp!Regions : Pmp!IsLowerBound(q) => Pmp!IsLowerBound(q)'
    <3> SUFFICES ASSUME NEW q \in Pmp!Regions, Pmp!IsLowerBound(q)
                 PROVE  Pmp!IsLowerBound(q)'
      OBVIOUS
    <3>1. q + 1 \in Pmp!Regions /\ cfg[q + 1].L /\ cfg[q + 1].A = "tor" /\ q + 1 # r
      BY <2>1 DEF Pmp!IsLowerBound
    <3>2. cfg'[q + 1] = cfg[q + 1]
      BY <2>5, <3>1
    <3> QED BY <3>1, <3>2 DEF Pmp!IsLowerBound
  <2>7. Pmp!RegionsAreLargeEnough'
    <3>1. (c.A = "na4" => Grain <= 4) /\ (c.A = "napot" => ~(Grain > Pmp!GrainOf(a)))
      BY <1>1, <2>1, PmpConsts DEF Pmp!TooSmall
    <3>2. \A q \in Pmp!Regions \ {r} : cfg'[q].A = cfg[q].A /\ addr'[q] = addr[q]
      BY <2>5
    <3> SUFFICES ASSUME NEW q \in Pmp!Regions, ~Pmp!IsLowerBound(q)'
                 PROVE  /\ cfg'[q].A = "na4" => Grain <= 4
                        /\ cfg'[q].A = "napot" => ~(Grain > Pmp!GrainOf(addr'[q]))
      BY DEF Pmp!RegionsAreLargeEnough, Pmp!GrainOf
    <3>3. ~Pmp!IsLowerBound(q)
      BY <2>6
    <3> QED BY <1>0, <2>5, <3>1, <3>2, <3>3 DEF Pmp!RegionsAreLargeEnough
  <2>8. Pmp!SuccessMeansSet'
    BY <1>4, <1>6, <2>5, <2>6 DEF Pmp!SuccessMeansSet
  <2> QED BY <1>0, <1>3, <1>4, <2>5, <2>6, <2>7, <2>8 DEF PmpInv, PmpTyped
<1> QED BY <1>5, <1>6

(* The invariant is kept, and a call that returns has changed no region but  *)
(* the one it names (metal_pmp_set_region).                                  *)
LEMMA PmpInductive ==
    ASSUME PmpInv, [Pmp!Next]_Pmp!vars
    PROVE  /\ PmpInv'
           /\ \A q \in Pmp!Regions : cfg'[q] # cfg[q] /\ pmpLast'.region # -1 => q = pmpLast'.region
<1>0. PmpTyped /\ Pmp!RegionsAreLargeEnough /\ Pmp!SuccessMeansSet
  BY DEF PmpInv
<1>1. ASSUME NEW r \in 0 .. PmpNum
      PROVE  /\ Pmp!ReadCfg(r) \in PmpConfig /\ Pmp!ReadAddr(r) \in Addresses
             /\ [Pmp!ReadCfg(r) EXCEPT !.L = TRUE] \in PmpConfig
             /\ \A m \in PmpModes : [Pmp!ReadCfg(r) EXCEPT !.A = m] \in PmpConfig
             /\ \A p \in Perms, on \in BOOLEAN :
                   [Pmp!ReadCfg(r) EXCEPT !.P = IF on THEN @ \cup {p} ELSE @ \ {p}] \in PmpConfig
  <2>1. Pmp!ReadCfg(r) \in PmpConfig /\ Pmp!ReadAddr(r) \in Addresses
    BY <1>0, PmpConsts DEF Pmp!ReadCfg, Pmp!ReadAddr, PmpTyped
  <2> QED BY <2>1 DEF PmpConfig
<1>2. CASE Pmp!InitPmp
  <2>0. Pmp!Off.L = FALSE /\ Pmp!Off.A = "off"
    BY DEF Pmp!Off
  <2>1. PmpTyped' /\ pmpLast'.region = -1
    <3>1. cfg' \in [Pmp!Regions -> PmpConfig] /\ addr' \in [Pmp!Regions -> Addresses] /\ grain' \in {0, Grain}
      BY <1>0, <1>2, PmpConsts DEF PmpTyped, Pmp!InitPmp
    <3>2. pmpLast' \in [region : -1 .. PmpNum, rc : {0, 3, 4}, cfg : PmpConfig, addr : Addresses] /\ pmpLast'.region = -1
      <4>1. -1 \in -1 .. PmpNum
        BY PmpConsts
      <4>2. pmpLast' = [pmpLast EXCEPT !.region = -1]
        BY <1>2 DEF Pmp!InitPmp
      <4> QED BY <1>0, <4>1, <4>2 DEF PmpTyped
    <3> QED BY <3>1, <3>2 DEF PmpTyped
  <2>3. Pmp!RegionsAreLargeEnough'
    <3> SUFFICES ASSUME NEW q \in Pmp!Regions, ~Pmp!IsLowerBound(q)'
                 PROVE  /\ cfg'[q].A = "na4" => Grain <= 4
                        /\ cfg'[q].A = "napot" => ~(Grain > Pmp!GrainOf(addr'[q]))
      BY DEF Pmp!RegionsAreLargeEnough, Pmp!GrainOf
    <3>1. /\ cfg' = [p \in Pmp!Regions |-> IF cfg[p].L THEN cfg[p] ELSE Pmp!Off]
          /\ addr' = [p \in Pmp!Regions |-> IF cfg[p].L \/ Pmp!AddressFixed(p) THEN addr[p] ELSE 0]
      BY <1>2 DEF Pmp!InitPmp
    <3>2. CASE cfg[q].L
      <4>1. cfg'[q] = cfg[q] /\ addr'[q] = addr[q]
        BY <3>1, <3>2
      <4>2. ~Pmp!IsLowerBound(q)
        BY <3>1 DEF Pmp!IsLowerBound
      <4> QED BY <1>0, <4>1, <4>2 DEF Pmp!RegionsAreLargeEnough
    <3>3. CASE ~cfg[q].L
      BY <2>0, <3>1, <3>3
    <3> QED BY <3>2, <3>3
  <2>4. Pmp!SuccessMeansSet'
    BY <2>1, PmpConsts DEF Pmp!SuccessMeansSet
  <2> QED BY <2>1, <2>3, <2>4 DEF PmpInv
<1>3. CASE \E r \in 0 .. PmpNum :
          \/ Pmp!Lock(r)
          \/ \E config \in Pmp!Configs, place \in Addresses : Pmp!Configure(r, config, place)
          \/ \E place \in Addresses : Pmp!SetAddress(r, place)
          \/ \E how \in PmpModes : Pmp!SetAddressMode(r, how)
          \/ \E p \in Perms, on \in BOOLEAN : Pmp!SetPermission(r, p, on)
  <2>1. PICK r \in 0 .. PmpNum :
          \/ Pmp!Lock(r)
          \/ \E config \in Pmp!Configs, place \in Addresses : Pmp!Configure(r, config, place)
          \/ \E place \in Addresses : Pmp!SetAddress(r, place)
          \/ \E how \in PmpModes : Pmp!SetAddressMode(r, how)
          \/ \E p \in Perms, on \in BOOLEAN : Pmp!SetPermission(r, p, on)
    BY <1>3
  <2>2. \E c \in PmpConfig, a \in Addresses : Pmp!MaySet /\ Pmp!SetRegion(r, c, a)
    <3>1. CASE Pmp!Lock(r)
      BY <3>1, <1>1 DEF Pmp!Lock
    <3>2. CASE \E config \in Pmp!Configs, place \in Addresses : Pmp!Configure(r, config, place)
      BY <3>2 DEF Pmp!Configure, Pmp!Configs, PmpConfig
    <3>3. CASE \E place \in Addresses : Pmp!SetAddress(r, place)
      BY <3>3, <1>1 DEF Pmp!SetAddress
    <3>4. CASE \E how \in PmpModes : Pmp!SetAddressMode(r, how)
      BY <3>4, <1>1 DEF Pmp!SetAddressMode
    <3>5. CASE \E p \in Perms, on \in BOOLEAN : Pmp!SetPermission(r, p, on)
      BY <3>5, <1>1 DEF Pmp!SetPermission
    <3> QED BY <2>1, <3>1, <3>2, <3>3, <3>4, <3>5
  <2> QED BY <2>2, PmpSetStep
<1>4. CASE UNCHANGED Pmp!vars
  BY <1>0, <1>4
     DEF PmpInv, PmpTyped, Pmp!RegionsAreLargeEnough, Pmp!IsLowerBound,
         Pmp!SuccessMeansSet, Pmp!vars
<1> QED BY <1>2, <1>3, <1>4 DEF Pmp!Next

LEMMA PmpFollows ==
    PmpInv => Pmp!TypeOK /\ Pmp!SuccessMeansSet /\ Pmp!RegionsAreLargeEnough
  BY DEF PmpInv, PmpTyped, Pmp!TypeOK, PmpConfig

-----------------------------------------------------------------------------
(* The HPM counters.                                                          *)

LEMMA HpmAssumed == Hpm!HpmAssumption
  BY Instances

HpmWords == 0 .. Base - 1
HpmValues == 0 .. Base * Base - 1
HpmAts == {"idle", "access", "restore", "read_hi", "read_lo", "check", "clear_hi", "clear_lo",
        "clear_hi_again"}
HpmOps == [at : HpmAts, n : Hpm!Counters, on : BOOLEAN, vh : HpmWords, vl : HpmWords, from : HpmValues]

HpmTyped ==
    /\ hpmCount \in 0 .. TopCounter /\ events \in SUBSET Exist
    /\ hpmHi \in HpmWords /\ hpmLo \in HpmWords
    /\ access \in SUBSET Hpm!Counters /\ hpmAsked \in SUBSET Hpm!Counters
    /\ mtvec \in {"program", "after"}
    /\ hpmOp \in HpmOps /\ ticks \in 0 .. HpmTicks
    /\ hpmSeen \in [value : HpmValues, from : HpmValues, to : HpmValues]

\* The access is that asked for, but for what the call that runs has written.
HpmAccess ==
    /\ hpmOp.at \notin {"access", "restore"} => access = hpmAsked /\ mtvec = "program"
    /\ hpmOp.at = "access" => access = hpmAsked
    /\ hpmOp.at = "restore" => access = IF hpmOp.on THEN hpmAsked \cup {hpmOp.n} ELSE hpmAsked \ {hpmOp.n}

\* The counter has counted what has happened, but while it is being cleared.
HpmCounted ==
    /\ hpmOp.at \notin {"clear_lo", "clear_hi_again"} => Hpm!Value = ticks
    /\ hpmOp.at = "clear_hi_again" => hpmLo = ticks

\* What a read has so far: if the upper word has not changed since it was read,
\* the words together are a value of the meantime.
HpmReading ==
    /\ hpmOp.at \in {"read_hi", "read_lo", "check"} => hpmOp.from <= Hpm!Value
    /\ hpmOp.at \in {"read_lo", "check"} => hpmOp.vh <= hpmHi
    /\ hpmOp.at = "check" /\ hpmOp.vh = hpmHi => hpmOp.from <= hpmOp.vh * Base + hpmOp.vl /\ hpmOp.vl <= hpmLo

(* The invariant of the HPM counters.                                        *)
HpmInv == HpmTyped /\ HpmAccess /\ HpmCounted /\ HpmReading /\ (hpmSeen.value \in hpmSeen.from .. hpmSeen.to)

(* What the assumption says of the constants.                                *)
LEMMA HpmConsts ==
    /\ Base \in Nat /\ Base > 1 /\ Base * Base \in Nat
    /\ Base * Base > Base - 1 /\ Base * Base > 0
    /\ HpmTicks \in Nat /\ HpmTicks < Base * Base
    /\ TopCounter \in Nat /\ TopCounter >= 3 /\ Exist \subseteq 3 .. TopCounter
<1>1. Base \in Nat /\ Base > 1 /\ HpmTicks \in Nat /\ HpmTicks < Base * Base /\ TopCounter \in Nat /\ TopCounter >= 3
      /\ Exist \subseteq 3 .. TopCounter
  BY HpmAssumed DEF Hpm!HpmAssumption
<1>2. Base * Base \in Nat /\ Base * Base > Base - 1 /\ Base * Base > 0
  BY <1>1
<1> QED BY <1>1, <1>2

(* Two words make a value of both.                                           *)
LEMMA HpmValueOf ==
    ASSUME NEW h \in HpmWords, NEW l \in HpmWords
    PROVE  h * Base + l \in HpmValues /\ h * Base \in Nat
<1>. DEFINE B == Base
<1>1. B \in Nat /\ B > 1 /\ h \in 0 .. B - 1 /\ l \in 0 .. B - 1
  BY HpmConsts DEF HpmWords
<1>. HIDE DEF B
<1>2. h * B <= (B - 1) * B /\ h * B \in Nat
  BY <1>1
<1>3. (B - 1) * B = B * B - B /\ B * B \in Nat
  BY <1>1
<1>4. h * B + l \in 0 .. B * B - 1
  BY <1>1, <1>2, <1>3
<1> QED BY <1>2, <1>4 DEF HpmValues, B

LEMMA HpmIdleTyped == Hpm!Idle \in HpmOps
  BY HpmConsts DEF Hpm!Idle, HpmOps, HpmAts, Hpm!Counters, HpmWords, HpmValues

LEMMA HpmInitially == Hpm!Init => HpmInv
<1> SUFFICES ASSUME Hpm!Init PROVE HpmInv OBVIOUS
<1>1. HpmTyped
  BY HpmIdleTyped, HpmConsts DEF Hpm!Init, HpmTyped, HpmWords, HpmValues
<1>2. Hpm!Value = 0
  BY HpmConsts DEF Hpm!Init, Hpm!Value
<1> QED
  BY <1>1, <1>2
     DEF Hpm!Init, HpmInv, HpmAccess, HpmCounted, HpmReading, Hpm!Idle

(* An event is counted, whatever a call has read or written so far.          *)
LEMMA HpmTickStep == HpmInv /\ Hpm!Tick => HpmInv'
<1> SUFFICES ASSUME HpmInv, Hpm!Tick PROVE HpmInv' OBVIOUS
<1>0. HpmTyped /\ HpmAccess /\ HpmCounted /\ HpmReading /\ hpmSeen.value \in hpmSeen.from .. hpmSeen.to
  BY DEF HpmInv
<1>1. /\ ticks' = ticks + 1 /\ hpmLo' = (hpmLo + 1) % Base
      /\ hpmHi' = (IF hpmLo + 1 = Base THEN (hpmHi + 1) % Base ELSE hpmHi)
      /\ ticks < HpmTicks /\ (hpmOp.at = "clear_hi_again" => ticks < Base - 1)
      /\ UNCHANGED <<hpmCount, events, access, mtvec, hpmOp, hpmSeen, hpmAsked>>
  BY DEF Hpm!Tick, Hpm!csrs
<1>2. /\ ticks \in Nat /\ ticks + 1 <= HpmTicks /\ hpmLo \in Nat /\ hpmLo < Base /\ hpmHi \in Nat /\ hpmHi < Base
      /\ hpmHi * Base \in Nat /\ hpmOp.vh \in Nat /\ hpmOp.vl \in Nat
      /\ hpmOp.from \in Nat /\ hpmOp.vh * Base \in Nat
  <2>1. hpmOp.vh \in HpmWords /\ hpmOp.vl \in HpmWords /\ hpmOp.from \in HpmValues /\ hpmHi \in HpmWords /\ hpmLo \in HpmWords
        /\ ticks \in 0 .. HpmTicks
    BY <1>0 DEF HpmTyped, HpmOps
  <2> QED BY <1>1, <2>1, HpmConsts, HpmValueOf DEF HpmWords, HpmValues
<1>3. \/ hpmLo + 1 < Base /\ hpmLo' = hpmLo + 1 /\ hpmHi' = hpmHi
      \/ hpmLo + 1 = Base /\ hpmLo' = 0 /\ hpmHi + 1 < Base /\ hpmHi' = hpmHi + 1
      \/ hpmLo + 1 = Base /\ hpmLo' = 0 /\ hpmHi + 1 = Base /\ hpmHi' = 0
  <2>1. CASE hpmLo + 1 < Base
    BY <1>1, <1>2, <2>1, HpmConsts
  <2>2. CASE hpmLo + 1 = Base /\ hpmHi + 1 < Base
    BY <1>1, <1>2, <2>2, HpmConsts
  <2>3. CASE hpmLo + 1 = Base /\ hpmHi + 1 = Base
    BY <1>1, <1>2, <2>3, HpmConsts
  <2> QED BY <1>2, <2>1, <2>2, <2>3, HpmConsts
<1>4. hpmHi' \in HpmWords /\ hpmLo' \in HpmWords
  BY <1>2, <1>3, HpmConsts DEF HpmWords
<1>5. HpmTyped'
  BY <1>0, <1>1, <1>2, <1>4, HpmConsts DEF HpmTyped
<1>6. HpmAccess'
  BY <1>0, <1>1 DEF HpmAccess
<1>7. hpmOp.at \notin {"clear_lo", "clear_hi_again"} => Hpm!Value' = ticks + 1 /\ Hpm!Value = ticks /\ hpmHi' >= hpmHi
                                                    /\ (hpmHi' = hpmHi => hpmLo' >= hpmLo)
  <2> SUFFICES ASSUME hpmOp.at \notin {"clear_lo", "clear_hi_again"}
               PROVE  Hpm!Value' = ticks + 1 /\ Hpm!Value = ticks /\ hpmHi' >= hpmHi /\ (hpmHi' = hpmHi => hpmLo' >= hpmLo)
    OBVIOUS
  <2>1. hpmHi * Base + hpmLo = ticks
    BY <1>0 DEF HpmCounted, Hpm!Value
  <2>2. CASE hpmLo + 1 < Base /\ hpmLo' = hpmLo + 1 /\ hpmHi' = hpmHi
    BY <1>2, <2>1, <2>2, HpmConsts DEF Hpm!Value
  <2>3. CASE hpmLo + 1 = Base /\ hpmLo' = 0 /\ hpmHi + 1 < Base /\ hpmHi' = hpmHi + 1
    <3>1. (hpmHi + 1) * Base = hpmHi * Base + Base
      BY <1>2, HpmConsts
    <3> QED BY <1>2, <2>1, <2>3, <3>1, HpmConsts DEF Hpm!Value
  <2>4. CASE hpmLo + 1 = Base /\ hpmHi + 1 = Base
    <3>1. (hpmHi + 1) * Base = hpmHi * Base + Base
      BY <1>2, HpmConsts
    <3>2. Base * Base = ticks + 1
      BY <1>2, <2>1, <2>4, <3>1, HpmConsts
    <3> QED BY <1>2, <3>2, HpmConsts
  <2> QED BY <1>3, <2>2, <2>3, <2>4
<1>8. HpmCounted'
  <2>1. ASSUME hpmOp.at = "clear_hi_again" PROVE hpmLo' = ticks + 1
    BY <1>0, <1>1, <1>2, <1>3, <2>1, HpmConsts DEF HpmCounted
  <2> QED BY <1>1, <1>7, <2>1 DEF HpmCounted
<1>9. HpmReading'
  <2> SUFFICES ASSUME hpmOp.at \in {"read_hi", "read_lo", "check"}
               PROVE  HpmReading'
    BY <1>1 DEF HpmReading
  <2>1. Hpm!Value' = ticks + 1 /\ Hpm!Value = ticks /\ hpmHi' >= hpmHi /\ (hpmHi' = hpmHi => hpmLo' >= hpmLo)
    BY <1>7
  <2>2. hpmHi' \in Nat /\ hpmLo' \in Nat
    BY <1>4 DEF HpmWords
  <2>3. hpmOp.from <= Hpm!Value'
    BY <1>0, <1>2, <2>1 DEF HpmReading
  <2>4. hpmOp.at \in {"read_lo", "check"} => hpmOp.vh <= hpmHi'
    BY <1>0, <1>2, <2>1, <2>2 DEF HpmReading
  <2>5. hpmOp.at = "check" /\ hpmOp.vh = hpmHi' => hpmOp.from <= hpmOp.vh * Base + hpmOp.vl /\ hpmOp.vl <= hpmLo'
    <3> SUFFICES ASSUME hpmOp.at = "check", hpmOp.vh = hpmHi'
                 PROVE  hpmOp.from <= hpmOp.vh * Base + hpmOp.vl /\ hpmOp.vl <= hpmLo'
      OBVIOUS
    <3>1. hpmOp.vh <= hpmHi
      BY <1>0 DEF HpmReading
    <3>2. hpmOp.vh = hpmHi /\ hpmHi' = hpmHi
      BY <3>1, <1>2, <2>1, <2>2
    <3> QED BY <3>2, <1>0, <1>2, <2>1, <2>2 DEF HpmReading
  <2> QED BY <1>1, <2>3, <2>4, <2>5 DEF HpmReading
<1> QED BY <1>0, <1>1, <1>5, <1>6, <1>8, <1>9 DEF HpmInv

LEMMA LeastIsCounter ==
    ASSUME NEW S \in SUBSET (3 .. TopCounter), S # {}
    PROVE  Hpm!Min(S) \in 0 .. TopCounter
<1>1. S \in SUBSET Nat /\ \A x \in S : x \in 0 .. TopCounter
  BY HpmConsts
<1>2. PICK n \in S : \A m \in S : n <= m
  BY <1>1, LeastExists
<1>3. Hpm!Min(S) \in S
  BY <1>2 DEF Hpm!Min
<1> QED BY <1>1, <1>3

\* Steps that touch neither the counter nor what was read of it.
LEMMA HpmOtherStep ==
    ASSUME HpmInv, UNCHANGED <<hpmHi, hpmLo, ticks, hpmSeen>>,
           hpmOp' \in HpmOps,
           hpmCount' \in 0 .. TopCounter, events' \in SUBSET Exist,
           access' \in SUBSET Hpm!Counters, hpmAsked' \in SUBSET Hpm!Counters,
           mtvec' \in {"program", "after"}, HpmAccess', HpmReading',
           hpmOp'.at \in {"clear_lo", "clear_hi_again"} <=> hpmOp.at \in {"clear_lo", "clear_hi_again"},
           hpmOp'.at = "clear_hi_again" => hpmOp.at = "clear_hi_again"
    PROVE  HpmInv'
  BY DEF HpmInv, HpmTyped, HpmCounted, Hpm!Value

(* The call that runs, changed in one or two of its fields.                  *)
LEMMA HpmOpWith ==
    ASSUME NEW o \in HpmOps, NEW a \in HpmAts, NEW n \in Hpm!Counters,
           NEW on \in BOOLEAN, NEW v \in HpmWords,
           NEW f \in HpmValues
    PROVE  /\ [o EXCEPT !.at = a] \in HpmOps
           /\ [o EXCEPT !.at = a, !.vh = v] \in HpmOps
           /\ [o EXCEPT !.at = a, !.vl = v] \in HpmOps
           /\ [o EXCEPT !.at = a, !.n = n, !.on = on] \in HpmOps
           /\ [o EXCEPT !.at = a, !.from = f] \in HpmOps
  BY DEF HpmOps

LEMMA HpmInductive == HpmInv /\ [Hpm!Next]_Hpm!vars => HpmInv'
<1> SUFFICES ASSUME HpmInv, [Hpm!Next]_Hpm!vars PROVE HpmInv' OBVIOUS
<1>0. HpmTyped /\ HpmAccess /\ HpmCounted /\ HpmReading /\ hpmSeen.value \in hpmSeen.from .. hpmSeen.to
  BY DEF HpmInv
<1>1. /\ Hpm!Idle \in HpmOps /\ Hpm!Idle.at = "idle" /\ hpmOp \in HpmOps /\ hpmHi \in HpmWords /\ hpmLo \in HpmWords
      /\ hpmCount \in 0 .. TopCounter /\ events \in SUBSET Exist
      /\ Hpm!Value \in HpmValues
      /\ access \in SUBSET Hpm!Counters /\ hpmAsked \in SUBSET Hpm!Counters
      /\ mtvec \in {"program", "after"}
      /\ {"idle", "access", "restore", "read_hi", "read_lo", "check", "clear_hi", "clear_lo",
          "clear_hi_again"} \subseteq HpmAts
  BY <1>0, HpmIdleTyped, HpmValueOf DEF HpmTyped, Hpm!Idle, HpmAts, Hpm!Value
<1>2. CASE Hpm!Tick
  BY <1>2, HpmTickStep
<1>3. CASE Hpm!InitHpm
  <2>. DEFINE S == {c \in 3 .. TopCounter : c \notin Exist \/ c = TopCounter}
  <2>1. TopCounter \in S /\ S \in SUBSET (3 .. TopCounter)
    BY HpmConsts
  <2>. HIDE DEF S
  <2>2. Hpm!Min(S) \in 0 .. TopCounter
    BY <2>1, LeastIsCounter
  <2>3. /\ hpmCount' = Hpm!Min(S) /\ events' = events \ (0 .. Hpm!Min(S)) /\ hpmHi' = 0 /\ hpmLo' = 0 /\ ticks' = 0
        /\ hpmOp = Hpm!Idle
        /\ UNCHANGED <<access, mtvec, hpmOp, hpmSeen, hpmAsked>>
    BY <1>3 DEF Hpm!InitHpm, S, Hpm!csrs
  <2>4. 0 \in HpmWords /\ 0 \in 0 .. HpmTicks /\ 0 * Base + 0 = 0
    BY HpmConsts DEF HpmWords
  <2>5. Hpm!Value' = 0
    BY <2>3, <2>4 DEF Hpm!Value
  <2>6. HpmTyped'
    BY <1>0, <2>2, <2>3, <2>4 DEF HpmTyped
  <2>7. HpmAccess' /\ HpmCounted' /\ HpmReading'
    BY <1>0, <1>1, <2>3, <2>5 DEF HpmAccess, HpmCounted, HpmReading
  <2> QED BY <1>0, <2>3, <2>6, <2>7 DEF HpmInv
<1>4. CASE Hpm!DisableHpm
  <2>1. /\ hpmOp = Hpm!Idle /\ hpmCount' = 0 /\ access' = {} /\ hpmAsked' = {}
        /\ UNCHANGED <<events, hpmHi, hpmLo, mtvec, hpmOp, ticks, hpmSeen>>
    BY <1>4 DEF Hpm!DisableHpm, Hpm!word
  <2>2. HpmAccess' /\ HpmReading' /\ 0 \in 0 .. TopCounter
    BY <1>0, <1>1, <2>1, HpmConsts DEF HpmAccess, HpmReading
  <2> QED BY <1>1, <2>1, <2>2, HpmOtherStep
<1>5. ASSUME NEW n \in Hpm!Counters, NEW on \in BOOLEAN, Hpm!SelectEvent(n, on)
      PROVE  HpmInv'
  <2>1. /\ events' \in SUBSET Exist /\ UNCHANGED <<hpmCount, hpmHi, hpmLo, access, mtvec, hpmOp, ticks, hpmSeen, hpmAsked>>
    BY <1>1, <1>5 DEF Hpm!SelectEvent, Hpm!word, Hpm!csrs
  <2>2. HpmAccess' /\ HpmReading'
    BY <1>0, <2>1 DEF HpmAccess, HpmReading, Hpm!Value
  <2> QED BY <1>1, <2>1, <2>2, HpmOtherStep
<1>6. ASSUME NEW n \in Hpm!Counters, NEW on \in BOOLEAN, Hpm!BeginAccess(n, on)
      PROVE  HpmInv'
  <2>1. /\ hpmOp = Hpm!Idle /\ mtvec' = "after" /\ hpmOp' = [Hpm!Idle EXCEPT !.at = "access", !.n = n, !.on = on]
        /\ UNCHANGED <<hpmCount, events, hpmHi, hpmLo, access, ticks, hpmSeen, hpmAsked>>
    BY <1>6, SMTT(40) DEF Hpm!BeginAccess, Hpm!word
  <2>2. hpmOp' \in HpmOps /\ hpmOp'.at = "access"
    BY <1>1, <2>1, HpmOpWith DEF Hpm!Idle
  <2>3. HpmAccess' /\ HpmReading'
    BY <1>0, <1>1, <2>1, <2>2 DEF HpmAccess, HpmReading
  <2> QED BY <1>1, <2>1, <2>2, <2>3, HpmOtherStep
<1>7. CASE Hpm!WriteAccess
  <2>1. /\ hpmOp.at = "access" /\ access' = Hpm!AccessWith /\ hpmOp' = [hpmOp EXCEPT !.at = "restore"]
        /\ UNCHANGED <<hpmCount, events, hpmHi, hpmLo, mtvec, ticks, hpmSeen, hpmAsked>>
    BY <1>7 DEF Hpm!WriteAccess, Hpm!word
  <2>2. hpmOp' \in HpmOps /\ hpmOp'.at = "restore" /\ hpmOp'.on = hpmOp.on /\ hpmOp'.n = hpmOp.n /\ hpmOp.n \in Hpm!Counters
    BY <1>1, <2>1, HpmOpWith, ZenonT(60) DEF HpmOps
  <2>3. HpmAccess' /\ HpmReading' /\ access' \in SUBSET Hpm!Counters
    BY <1>0, <1>1, <2>1, <2>2 DEF HpmAccess, HpmReading, Hpm!AccessWith
  <2> QED BY <1>1, <2>1, <2>2, <2>3, HpmOtherStep
<1>8. CASE Hpm!EndAccess
  <2>1. /\ hpmOp.at = "restore" /\ mtvec' = "program" /\ hpmOp' = Hpm!Idle
        /\ hpmAsked' = IF hpmOp.on THEN hpmAsked \cup {hpmOp.n} ELSE hpmAsked \ {hpmOp.n}
        /\ UNCHANGED <<hpmCount, events, hpmHi, hpmLo, access, ticks, hpmSeen>>
    BY <1>8 DEF Hpm!EndAccess, Hpm!word
  <2>2. HpmAccess' /\ HpmReading' /\ hpmAsked' \in SUBSET Hpm!Counters
    BY <1>0, <1>1, <2>1 DEF HpmAccess, HpmReading
  <2> QED BY <1>1, <2>1, <2>2, HpmOtherStep
<1>9. ASSUME NEW n \in Hpm!Counters, Hpm!BeginRead(n) PROVE HpmInv'
  <2>1. /\ hpmOp = Hpm!Idle /\ hpmOp' = [Hpm!Idle EXCEPT !.at = "read_hi", !.from = Hpm!Value]
        /\ UNCHANGED <<hpmCount, events, hpmHi, hpmLo, access, mtvec, ticks, hpmSeen, hpmAsked>>
    BY <1>9 DEF Hpm!BeginRead, Hpm!word, Hpm!csrs
  <2>2. hpmOp' \in HpmOps /\ hpmOp'.at = "read_hi" /\ hpmOp'.from = Hpm!Value
    BY <1>1, <2>1, HpmOpWith DEF Hpm!Idle
  <2>3. Hpm!Value' = Hpm!Value /\ Hpm!Value <= Hpm!Value
    BY <1>1, <2>1, HpmConsts DEF Hpm!Value, HpmValues
  <2>4. HpmAccess' /\ HpmReading'
    BY <1>0, <1>1, <2>1, <2>2, <2>3 DEF HpmAccess, HpmReading
  <2> QED BY <1>1, <2>1, <2>2, <2>4, HpmOtherStep
<1>10. CASE Hpm!ReadHi
  <2>1. /\ hpmOp.at = "read_hi" /\ hpmOp' = [hpmOp EXCEPT !.at = "read_lo", !.vh = hpmHi]
        /\ UNCHANGED <<hpmCount, events, hpmHi, hpmLo, access, mtvec, ticks, hpmSeen, hpmAsked>>
    BY <1>10 DEF Hpm!ReadHi, Hpm!word, Hpm!csrs
  <2>2. hpmOp' \in HpmOps /\ hpmOp'.at = "read_lo" /\ hpmOp'.vh = hpmHi /\ hpmOp'.from = hpmOp.from
    BY <1>1, <2>1, HpmOpWith DEF HpmOps
  <2>3. Hpm!Value' = Hpm!Value /\ hpmHi <= hpmHi
    BY <1>1, <2>1, HpmConsts DEF Hpm!Value, HpmWords
  <2>4. HpmAccess' /\ HpmReading'
    BY <1>0, <1>1, <2>1, <2>2, <2>3 DEF HpmAccess, HpmReading
  <2> QED BY <1>1, <2>1, <2>2, <2>4, HpmOtherStep
<1>11. CASE Hpm!ReadLo
  <2>1. /\ hpmOp.at = "read_lo" /\ hpmOp' = [hpmOp EXCEPT !.at = "check", !.vl = hpmLo]
        /\ UNCHANGED <<hpmCount, events, hpmHi, hpmLo, access, mtvec, ticks, hpmSeen, hpmAsked>>
    BY <1>11 DEF Hpm!ReadLo, Hpm!word, Hpm!csrs
  <2>2. hpmOp' \in HpmOps /\ hpmOp'.at = "check" /\ hpmOp'.vl = hpmLo /\ hpmOp'.vh = hpmOp.vh /\ hpmOp'.from = hpmOp.from
    BY <1>1, <2>1, HpmOpWith DEF HpmOps
  <2>3. Hpm!Value' = Hpm!Value /\ hpmLo <= hpmLo /\ (hpmOp.vh = hpmHi => Hpm!Value = hpmOp.vh * Base + hpmLo)
    BY <1>1, <2>1, HpmConsts DEF Hpm!Value, HpmWords
  <2>4. HpmAccess' /\ HpmReading'
    BY <1>0, <1>1, <2>1, <2>2, <2>3 DEF HpmAccess, HpmReading
  <2> QED BY <1>1, <2>1, <2>2, <2>4, HpmOtherStep
<1>12. CASE Hpm!CheckHi
  <2>0. hpmOp.at = "check" /\ UNCHANGED <<hpmCount, events, hpmHi, hpmLo, access, mtvec, ticks, hpmAsked>>
    BY <1>12 DEF Hpm!CheckHi, Hpm!word, Hpm!csrs
  <2>1. CASE Hpm!Torn
    <3>1. hpmOp' = [hpmOp EXCEPT !.at = "read_hi"] /\ UNCHANGED hpmSeen
      BY <1>12, <2>1 DEF Hpm!CheckHi
    <3>2. hpmOp' \in HpmOps /\ hpmOp'.at = "read_hi" /\ hpmOp'.from = hpmOp.from
      BY <1>1, <3>1, HpmOpWith DEF HpmOps
    <3>3. HpmAccess' /\ HpmReading'
      BY <1>0, <1>1, <2>0, <3>2 DEF HpmAccess, HpmReading, Hpm!Value
    <3> QED BY <1>1, <2>0, <3>1, <3>2, <3>3, HpmOtherStep
  <2>2. CASE ~Hpm!Torn
    <3>1. hpmOp' = Hpm!Idle /\ hpmSeen' = [value |-> hpmOp.vh * Base + hpmOp.vl, from |-> hpmOp.from, to |-> Hpm!Value]
      BY <1>12, <2>2 DEF Hpm!CheckHi
    <3>2. hpmOp.vh = hpmHi /\ hpmOp.from <= hpmOp.vh * Base + hpmOp.vl /\ hpmOp.vl <= hpmLo /\ hpmOp.vh \in HpmWords /\ hpmOp.vl \in HpmWords
          /\ hpmOp.from \in HpmValues
      BY <1>0, <1>1, <2>0, <2>2 DEF Hpm!Torn, HpmReading, HpmOps
    <3>3. hpmOp.vh * Base + hpmOp.vl \in HpmValues /\ hpmHi * Base \in Nat
      BY <1>1, <3>2, HpmValueOf
    <3>4. hpmOp.vh * Base + hpmOp.vl <= Hpm!Value
      BY <1>1, <3>2, <3>3, HpmConsts DEF Hpm!Value, HpmWords
    <3>5. hpmSeen' \in [value : HpmValues, from : HpmValues, to : HpmValues] /\ hpmSeen'.value \in hpmSeen'.from .. hpmSeen'.to
      BY <1>1, <3>1, <3>2, <3>3, <3>4, HpmConsts DEF HpmValues
    <3>6. HpmAccess' /\ HpmReading' /\ HpmCounted' /\ HpmTyped'
      BY <1>0, <1>1, <2>0, <3>1, <3>5
         DEF HpmAccess, HpmReading, HpmCounted, HpmTyped, Hpm!Value
    <3> QED BY <3>5, <3>6 DEF HpmInv
  <2> QED BY <2>1, <2>2
<1>13. ASSUME NEW n \in Hpm!Counters, Hpm!BeginClear(n) PROVE HpmInv'
  <2>1. /\ hpmOp = Hpm!Idle /\ hpmOp' = [Hpm!Idle EXCEPT !.at = "clear_hi"]
        /\ UNCHANGED <<hpmCount, events, hpmHi, hpmLo, access, mtvec, ticks, hpmSeen, hpmAsked>>
    BY <1>13, SMTT(40) DEF Hpm!BeginClear, Hpm!word, Hpm!csrs
  <2>2. hpmOp' \in HpmOps /\ hpmOp'.at = "clear_hi"
    BY <1>1, <2>1, HpmOpWith DEF Hpm!Idle
  <2>3. HpmAccess' /\ HpmReading'
    BY <1>0, <1>1, <2>1, <2>2 DEF HpmAccess, HpmReading
  <2> QED BY <1>1, <2>1, <2>2, <2>3, HpmOtherStep
<1>14. CASE Hpm!ClearHi
  <2>1. hpmHi' = 0 /\ UNCHANGED <<hpmCount, events, hpmLo, access, mtvec, ticks, hpmSeen, hpmAsked>>
    BY <1>14 DEF Hpm!ClearHi, Hpm!csrs
  <2>2. 0 \in HpmWords /\ 0 * Base + hpmLo = hpmLo
    BY <1>1, HpmConsts DEF HpmWords
  <2>3. CASE hpmOp.at = "clear_hi"
    <3>1. hpmOp' = [hpmOp EXCEPT !.at = "clear_lo"]
      BY <1>14, <2>3 DEF Hpm!ClearHi
    <3>2. hpmOp' \in HpmOps /\ hpmOp'.at = "clear_lo"
      BY <1>1, <3>1, HpmOpWith DEF HpmOps
    <3>3. HpmAccess' /\ HpmReading' /\ HpmCounted' /\ HpmTyped'
      BY <1>0, <2>1, <2>2, <2>3, <3>2
         DEF HpmAccess, HpmReading, HpmCounted, HpmTyped
    <3> QED BY <1>0, <2>1, <3>3 DEF HpmInv
  <2>4. CASE hpmOp.at = "clear_hi_again"
    <3>1. hpmOp' = Hpm!Idle
      BY <1>14, <2>4 DEF Hpm!ClearHi
    <3>2. Hpm!Value' = ticks
      BY <1>0, <2>1, <2>2, <2>4 DEF HpmCounted, Hpm!Value
    <3>3. HpmAccess' /\ HpmReading' /\ HpmCounted' /\ HpmTyped'
      BY <1>0, <1>1, <2>1, <2>2, <2>4, <3>1, <3>2
         DEF HpmAccess, HpmReading, HpmCounted, HpmTyped
    <3> QED BY <1>0, <2>1, <3>3 DEF HpmInv
  <2> QED BY <1>14, <2>3, <2>4 DEF Hpm!ClearHi
<1>15. CASE Hpm!ClearLo
  <2>1. /\ hpmOp.at = "clear_lo" /\ hpmLo' = 0 /\ ticks' = 0 /\ hpmOp' = [hpmOp EXCEPT !.at = "clear_hi_again"]
        /\ UNCHANGED <<hpmCount, events, hpmHi, access, mtvec, hpmSeen, hpmAsked>>
    BY <1>15 DEF Hpm!ClearLo, Hpm!AfterClearLo, Hpm!csrs
  <2>a. hpmOp' \in HpmOps /\ hpmOp'.at = "clear_hi_again"
    BY <1>1, <2>1, HpmOpWith DEF HpmOps
  <2>b. 0 \in HpmWords /\ 0 \in 0 .. HpmTicks
    BY HpmConsts DEF HpmWords
  <2>2. hpmOp' \in HpmOps /\ hpmOp'.at = "clear_hi_again" /\ 0 \in HpmWords /\ 0 \in 0 .. HpmTicks
    BY <2>a, <2>b
  <2>3. HpmAccess' /\ HpmReading' /\ HpmCounted' /\ HpmTyped'
    BY <1>0, <2>1, <2>2 DEF HpmAccess, HpmReading, HpmCounted, HpmTyped
  <2> QED BY <1>0, <2>1, <2>3 DEF HpmInv
<1>16. CASE UNCHANGED Hpm!vars
  BY <1>0, <1>16
     DEF Hpm!vars, HpmInv, HpmTyped, HpmAccess, HpmReading, HpmCounted,
         Hpm!Value
<1> QED
  BY <1>2, <1>3, <1>4, <1>5, <1>6, <1>7, <1>8, <1>9, <1>10, <1>11, <1>12,
     <1>13, <1>14, <1>15, <1>16
       DEF Hpm!Next, Hpm!Step

(* Reads are current, a cleared counter counts from 0 and the lower mode has *)
(* the access that was asked for.                                            *)
LEMMA HpmFollows ==
    HpmInv =>
      Hpm!TypeOK /\ Hpm!ReadIsCurrent /\ Hpm!ClearedCountsFromZero /\ Hpm!AccessAsAsked
<1> SUFFICES ASSUME HpmInv
             PROVE  Hpm!TypeOK /\ Hpm!ReadIsCurrent /\ Hpm!ClearedCountsFromZero /\ Hpm!AccessAsAsked OBVIOUS
<1>1. Hpm!TypeOK
  BY DEF HpmInv, HpmTyped, Hpm!TypeOK, HpmOps, HpmAts, HpmWords, HpmValues
<1>2. Hpm!ReadIsCurrent /\ Hpm!ClearedCountsFromZero
  BY DEF HpmInv, Hpm!ReadIsCurrent, Hpm!ClearedCountsFromZero, HpmCounted
<1>3. Hpm!AccessAsAsked
  BY DEF HpmInv, HpmAccess, Hpm!AccessAsAsked
<1> QED BY <1>1, <1>2, <1>3

-----------------------------------------------------------------------------
(* The I2C master.                                                            *)

LEMMA I2cAssumed == I2c!I2cAssumption
  BY Instances

(* The command on the bus, or the last one, is that of the call; what a call *)
(* of its own has refused shows in the acknowledgement; a slave talks only   *)
(* to a call that reads, and not past its last byte.                         *)
I2cCore ==
    /\ i2cOp.at = "none" => i2cOp = I2c!NoCall
    /\ i2cOp.at = "none" /\ i2cLast.ret = 0 =>
          ~tip /\ ~talks /\ (i2cLast.call.stop => ~held)
    /\ i2cOp.at = "addressed" =>
          cmd = [I2c!NoCmd EXCEPT !.start = TRUE, !.asks = i2cOp.read]
    /\ i2cOp.at = "byte" =>
          /\ i2cOp.i \in 1 .. I2c!Len
          /\ ~cmd.start /\ cmd.read = i2cOp.read
          /\ cmd.nack = (i2cOp.read /\ i2cOp.i = I2c!Len)
          /\ cmd.stop = (i2cOp.i = I2c!Len /\ i2cOp.stop
                         /\ (i2cOp.kind = "transfer" => i2cOp.read \/ i2cOp.rx = 0))
          /\ ~tip => held = ~cmd.stop
    /\ i2cOp.at = "addressed" /\ ~tip => talks = (i2cOp.read /\ ~nack)
    /\ i2cOp.at = "byte" /\ (~i2cOp.read \/ (i2cOp.i = I2c!Len /\ ~tip)) => ~talks
    /\ i2cOp.kind \in {"none", "write", "read"} =>
          /\ i2cOp.at \in {"none", "address"} \/ tip => ~refused
          /\ refused => nack /\ ~(i2cOp.at = "byte" /\ i2cOp.read)
    /\ I2c!SuccessMeansAccepted


(* The invariant of the I2C master.                                          *)
I2cInv == I2c!TypeOK /\ I2cCore

(* The types of the fields, one by one.                                      *)
LEMMA I2cFields ==
  ASSUME I2c!TypeOK
  PROVE /\ i2cOp.kind \in {"none", "write", "read", "transfer"}
        /\ i2cOp.at \in {"none", "address", "addressed", "byte"}
        /\ i2cOp.read \in BOOLEAN /\ i2cOp.tx \in 0 .. MaxLen
        /\ i2cOp.rx \in 0 .. MaxLen
        /\ i2cOp.stop \in BOOLEAN /\ i2cOp.i \in 0 .. MaxLen
        /\ tip \in BOOLEAN /\ nack \in BOOLEAN /\ held \in BOOLEAN
        /\ talks \in BOOLEAN /\ refused \in BOOLEAN
        /\ cmd.start \in BOOLEAN /\ cmd.asks \in BOOLEAN
        /\ cmd.stop \in BOOLEAN /\ cmd.read \in BOOLEAN /\ cmd.nack \in BOOLEAN
  BY DEF I2c!TypeOK, I2c!Calls

LEMMA I2cNoCallTyped == I2c!NoCall \in I2c!Calls
  BY I2cAssumed DEF I2c!NoCall, I2c!Calls, I2c!I2cAssumption

LEMMA I2cNoCmdTyped ==
    I2c!NoCmd \in [start : BOOLEAN, asks : BOOLEAN, stop : BOOLEAN, read : BOOLEAN, nack : BOOLEAN]
  BY DEF I2c!NoCmd

LEMMA I2cTypeStep == I2c!TypeOK /\ [I2c!Next]_I2c!vars => I2c!TypeOK'
<1> SUFFICES ASSUME I2c!TypeOK, [I2c!Next]_I2c!vars PROVE I2c!TypeOK' OBVIOUS
<1> USE I2cAssumed DEF I2c!I2cAssumption
<1>0. /\ tip \in BOOLEAN /\ nack \in BOOLEAN /\ held \in BOOLEAN /\ talks \in BOOLEAN /\ refused \in BOOLEAN
      /\ i2cOp \in I2c!Calls
      /\ cmd \in [start : BOOLEAN, asks : BOOLEAN, stop : BOOLEAN,
                read : BOOLEAN, nack : BOOLEAN]
      /\ i2cLast \in [ret : {0, 1}, call : I2c!Calls, refused : BOOLEAN]
  BY DEF I2c!TypeOK
<1>. DEFINE T == /\ tip \in BOOLEAN /\ nack \in BOOLEAN /\ held \in BOOLEAN /\ talks \in BOOLEAN /\ refused \in BOOLEAN
      /\ i2cOp \in I2c!Calls
      /\ cmd \in [start : BOOLEAN, asks : BOOLEAN, stop : BOOLEAN,
                read : BOOLEAN, nack : BOOLEAN]
      /\ i2cLast \in [ret : {0, 1}, call : I2c!Calls, refused : BOOLEAN]
<1>1. ASSUME NEW accepts \in BOOLEAN, I2c!Done(accepts) PROVE T'
  <2>1. i2cOp' \in I2c!Calls
    BY <1>1, <1>0 DEF I2c!Done, I2c!Own, I2c!Calls
  <2>2. cmd' \in [start : BOOLEAN, asks : BOOLEAN, stop : BOOLEAN,
                read : BOOLEAN, nack : BOOLEAN]
    BY <1>1, <1>0 DEF I2c!Done, I2c!Own
  <2>3. i2cLast' \in [ret : {0, 1}, call : I2c!Calls, refused : BOOLEAN]
    BY <1>1, <1>0 DEF I2c!Done, I2c!Own
  <2>4. tip' \in BOOLEAN /\ nack' \in BOOLEAN
    BY <1>1, <1>0 DEF I2c!Done, I2c!Own
  <2>5. held' \in BOOLEAN /\ talks' \in BOOLEAN /\ refused' \in BOOLEAN
    BY <1>1, <1>0 DEF I2c!Done, I2c!Own
  <2> QED BY <2>1, <2>2, <2>3, <2>4, <2>5
<1>2. ASSUME NEW len \in 1 .. MaxLen, NEW stop \in BOOLEAN,
             NEW kind \in {"write", "read"}, I2c!Begin(kind, len, stop)
      PROVE  T'
  <2>1. i2cOp' \in I2c!Calls
    <3>. DEFINE t == IF kind = "write" THEN len ELSE 0
                r == IF kind = "read" THEN len ELSE 0
                b == kind = "read"
    <3>1. i2cOp' = [I2c!NoCall EXCEPT !.kind = kind, !.at = "address", !.read = b, !.stop = stop, !.tx = t, !.rx = r]
      BY <1>2 DEF I2c!Begin
    <3>2. t \in 0 .. MaxLen /\ r \in 0 .. MaxLen /\ b \in BOOLEAN
      OBVIOUS
    <3> HIDE DEF t, r, b
    <3> QED BY <3>1, <3>2, I2cNoCallTyped DEF I2c!Calls
  <2>2. cmd' \in [start : BOOLEAN, asks : BOOLEAN, stop : BOOLEAN,
                read : BOOLEAN, nack : BOOLEAN]
    BY <1>2, <1>0 DEF I2c!Begin, I2c!NoCall, I2c!bus
  <2>3. i2cLast' \in [ret : {0, 1}, call : I2c!Calls, refused : BOOLEAN]
    BY <1>2, <1>0 DEF I2c!Begin, I2c!NoCall, I2c!bus
  <2>4. tip' \in BOOLEAN /\ nack' \in BOOLEAN
    BY <1>2, <1>0 DEF I2c!Begin, I2c!NoCall, I2c!bus
  <2>5. held' \in BOOLEAN /\ talks' \in BOOLEAN /\ refused' \in BOOLEAN
    BY <1>2, <1>0 DEF I2c!Begin, I2c!NoCall, I2c!bus
  <2> QED BY <2>1, <2>2, <2>3, <2>4, <2>5
<1>3. ASSUME NEW out \in 0 .. MaxLen, NEW back \in 0 .. MaxLen,
             I2c!BeginTransfer(out, back)
      PROVE  T'
  <2>1. i2cOp' \in I2c!Calls
    BY <1>3, <1>0 DEF I2c!BeginTransfer, I2c!Calls, I2c!NoCall, I2c!bus
  <2>2. cmd' \in [start : BOOLEAN, asks : BOOLEAN, stop : BOOLEAN,
                read : BOOLEAN, nack : BOOLEAN]
    BY <1>3, <1>0 DEF I2c!BeginTransfer, I2c!NoCall, I2c!bus
  <2>3. i2cLast' \in [ret : {0, 1}, call : I2c!Calls, refused : BOOLEAN]
    BY <1>3, <1>0 DEF I2c!BeginTransfer, I2c!NoCall, I2c!bus
  <2>4. tip' \in BOOLEAN /\ nack' \in BOOLEAN
    BY <1>3, <1>0 DEF I2c!BeginTransfer, I2c!NoCall, I2c!bus
  <2>5. held' \in BOOLEAN /\ talks' \in BOOLEAN /\ refused' \in BOOLEAN
    BY <1>3, <1>0 DEF I2c!BeginTransfer, I2c!NoCall, I2c!bus
  <2> QED BY <2>1, <2>2, <2>3, <2>4, <2>5
<1>4. ASSUME I2c!SendAddress PROVE T'
  <2>1. i2cOp' \in I2c!Calls
    BY <1>4, <1>0
       DEF I2c!SendAddress, I2c!Send, I2c!Calls, I2c!NoCmd, I2c!Calls
  <2>2. cmd' \in [start : BOOLEAN, asks : BOOLEAN, stop : BOOLEAN,
                read : BOOLEAN, nack : BOOLEAN]
    <3>1. cmd' = [I2c!NoCmd EXCEPT !.start = TRUE, !.asks = i2cOp.read]
      BY <1>4 DEF I2c!SendAddress, I2c!Send
    <3> QED BY <3>1, I2cFields, I2cNoCmdTyped
  <2>3. i2cLast' \in [ret : {0, 1}, call : I2c!Calls, refused : BOOLEAN]
    BY <1>4, <1>0 DEF I2c!SendAddress, I2c!Send, I2c!NoCmd
  <2>4. tip' \in BOOLEAN /\ nack' \in BOOLEAN
    BY <1>4, <1>0 DEF I2c!SendAddress, I2c!Send, I2c!NoCmd
  <2>5. held' \in BOOLEAN /\ talks' \in BOOLEAN /\ refused' \in BOOLEAN
    BY <1>4, <1>0 DEF I2c!SendAddress, I2c!Send, I2c!NoCmd
  <2> QED BY <2>1, <2>2, <2>3, <2>4, <2>5
<1>5. ASSUME I2c!Timeout PROVE T'
  <2>1. i2cOp' \in I2c!Calls
    BY <1>5, <1>0 DEF I2c!Timeout, I2c!Returns, I2c!Calls, I2c!NoCall, I2c!bus
  <2>2. cmd' \in [start : BOOLEAN, asks : BOOLEAN, stop : BOOLEAN,
                read : BOOLEAN, nack : BOOLEAN]
    BY <1>5, <1>0 DEF I2c!Timeout, I2c!Returns, I2c!NoCall, I2c!bus
  <2>3. i2cLast' \in [ret : {0, 1}, call : I2c!Calls, refused : BOOLEAN]
    BY <1>5, <1>0 DEF I2c!Timeout, I2c!Returns, I2c!NoCall, I2c!bus
  <2>4. tip' \in BOOLEAN /\ nack' \in BOOLEAN
    BY <1>5, <1>0 DEF I2c!Timeout, I2c!Returns, I2c!NoCall, I2c!bus
  <2>5. held' \in BOOLEAN /\ talks' \in BOOLEAN /\ refused' \in BOOLEAN
    BY <1>5, <1>0 DEF I2c!Timeout, I2c!Returns, I2c!NoCall, I2c!bus
  <2> QED BY <2>1, <2>2, <2>3, <2>4, <2>5
<1>6. ASSUME I2c!RefusedAddress PROVE T'
  <2>1. i2cOp' \in I2c!Calls
    BY <1>6, <1>0
       DEF I2c!RefusedAddress, I2c!Returns, I2c!Calls, I2c!NoCall, I2c!bus
  <2>2. cmd' \in [start : BOOLEAN, asks : BOOLEAN, stop : BOOLEAN,
                read : BOOLEAN, nack : BOOLEAN]
    BY <1>6, <1>0 DEF I2c!RefusedAddress, I2c!Returns, I2c!NoCall, I2c!bus
  <2>3. i2cLast' \in [ret : {0, 1}, call : I2c!Calls, refused : BOOLEAN]
    BY <1>6, <1>0 DEF I2c!RefusedAddress, I2c!Returns, I2c!NoCall, I2c!bus
  <2>4. tip' \in BOOLEAN /\ nack' \in BOOLEAN
    BY <1>6, <1>0 DEF I2c!RefusedAddress, I2c!Returns, I2c!NoCall, I2c!bus
  <2>5. held' \in BOOLEAN /\ talks' \in BOOLEAN /\ refused' \in BOOLEAN
    BY <1>6, <1>0 DEF I2c!RefusedAddress, I2c!Returns, I2c!NoCall, I2c!bus
  <2> QED BY <2>1, <2>2, <2>3, <2>4, <2>5
<1>7. ASSUME I2c!SendByte PROVE T'
  <2>1. i2cOp' \in I2c!Calls
    <3>1. i2cOp' = [i2cOp EXCEPT !.at = "byte", !.i = @ + 1] /\ i2cOp.i < I2c!Len
      BY <1>7 DEF I2c!SendByte, I2c!Send
    <3>2. i2cOp.i + 1 \in 0 .. MaxLen
      BY <3>1, I2cFields DEF I2c!Len
    <3> QED BY <3>1, <3>2, <1>0 DEF I2c!Calls
  <2>2. cmd' \in [start : BOOLEAN, asks : BOOLEAN, stop : BOOLEAN,
                read : BOOLEAN, nack : BOOLEAN]
    <3>1. cmd' = [I2c!NoCmd EXCEPT !.stop = I2c!StopNow, !.read = i2cOp.read, !.nack = I2c!RefusesLast]
      BY <1>7 DEF I2c!SendByte, I2c!Send
    <3>2. i2cOp.read \in BOOLEAN /\ I2c!StopNow \in BOOLEAN /\ I2c!RefusesLast \in BOOLEAN
      BY I2cFields DEF I2c!StopNow, I2c!RefusesLast
    <3> HIDE DEF I2c!StopNow, I2c!RefusesLast
    <3> QED BY <3>1, <3>2, I2cNoCmdTyped
  <2>3. i2cLast' \in [ret : {0, 1}, call : I2c!Calls, refused : BOOLEAN]
    BY <1>7, <1>0
       DEF I2c!SendByte, I2c!Send, I2c!Len, I2c!NoCmd, I2c!StopNow, I2c!IsLast,
           I2c!RefusesLast
  <2>4. tip' \in BOOLEAN /\ nack' \in BOOLEAN
    BY <1>7, <1>0
       DEF I2c!SendByte, I2c!Send, I2c!Len, I2c!NoCmd, I2c!StopNow, I2c!IsLast,
           I2c!RefusesLast
  <2>5. held' \in BOOLEAN /\ talks' \in BOOLEAN /\ refused' \in BOOLEAN
    BY <1>7, <1>0
       DEF I2c!SendByte, I2c!Send, I2c!Len, I2c!NoCmd, I2c!StopNow, I2c!IsLast,
           I2c!RefusesLast
  <2> QED BY <2>1, <2>2, <2>3, <2>4, <2>5
<1>8. ASSUME I2c!EndBytes PROVE T'
  <2>1. i2cOp' \in I2c!Calls
    <3>1. i2cOp' = I2c!NoCall \/ i2cOp' = [i2cOp EXCEPT !.at = "address", !.read = TRUE, !.i = 0]
      BY <1>8 DEF I2c!EndBytes, I2c!Returns
    <3>2. ASSUME NEW i \in 0 .. MaxLen
          PROVE  [i2cOp EXCEPT !.at = "address", !.read = TRUE, !.i = i] \in I2c!Calls
      BY <1>0 DEF I2c!Calls
    <3>3. 0 \in 0 .. MaxLen
      OBVIOUS
    <3> QED BY <3>1, <3>2, <3>3, I2cNoCallTyped
  <2>2. cmd' \in [start : BOOLEAN, asks : BOOLEAN, stop : BOOLEAN,
                read : BOOLEAN, nack : BOOLEAN]
    BY <1>8, <1>0
       DEF I2c!EndBytes, I2c!Returns, I2c!ByteRefused, I2c!NoCall, I2c!bus
  <2>3. i2cLast' \in [ret : {0, 1}, call : I2c!Calls, refused : BOOLEAN]
    BY <1>8, <1>0
       DEF I2c!EndBytes, I2c!Returns, I2c!ByteRefused, I2c!NoCall, I2c!bus
  <2>4. tip' \in BOOLEAN /\ nack' \in BOOLEAN
    BY <1>8, <1>0
       DEF I2c!EndBytes, I2c!Returns, I2c!ByteRefused, I2c!NoCall, I2c!bus
  <2>5. held' \in BOOLEAN /\ talks' \in BOOLEAN /\ refused' \in BOOLEAN
    BY <1>8, <1>0
       DEF I2c!EndBytes, I2c!Returns, I2c!ByteRefused, I2c!NoCall, I2c!bus
  <2> QED BY <2>1, <2>2, <2>3, <2>4, <2>5
<1>9. ASSUME UNCHANGED I2c!vars PROVE T'
  <2>1. i2cOp' \in I2c!Calls
    BY <1>9, <1>0 DEF I2c!bus, I2c!vars, I2c!Calls
  <2>2. cmd' \in [start : BOOLEAN, asks : BOOLEAN, stop : BOOLEAN,
                read : BOOLEAN, nack : BOOLEAN]
    BY <1>9, <1>0 DEF I2c!bus, I2c!vars
  <2>3. i2cLast' \in [ret : {0, 1}, call : I2c!Calls, refused : BOOLEAN]
    BY <1>9, <1>0 DEF I2c!bus, I2c!vars
  <2>4. tip' \in BOOLEAN /\ nack' \in BOOLEAN
    BY <1>9, <1>0 DEF I2c!bus, I2c!vars
  <2>5. held' \in BOOLEAN /\ talks' \in BOOLEAN /\ refused' \in BOOLEAN
    BY <1>9, <1>0 DEF I2c!bus, I2c!vars
  <2> QED BY <2>1, <2>2, <2>3, <2>4, <2>5
<1>10. T' BY <1>1, <1>2, <1>3, <1>4, <1>5, <1>6, <1>7, <1>8, <1>9 DEF I2c!Next
<1> QED BY <1>10 DEF I2c!TypeOK

LEMMA I2cTypeInit == I2c!Init => I2c!TypeOK
<1> SUFFICES ASSUME I2c!Init PROVE I2c!TypeOK OBVIOUS
<1>1. i2cOp \in I2c!Calls /\ cmd \in [start : BOOLEAN, asks : BOOLEAN, stop : BOOLEAN, read : BOOLEAN, nack : BOOLEAN]
  BY I2cNoCallTyped, I2cNoCmdTyped DEF I2c!Init
<1>2. i2cLast \in [ret : {0, 1}, call : I2c!Calls, refused : BOOLEAN]
  BY I2cNoCallTyped DEF I2c!Init
<1>3. tip \in BOOLEAN /\ nack \in BOOLEAN /\ held \in BOOLEAN /\ talks \in BOOLEAN /\ refused \in BOOLEAN
  BY DEF I2c!Init
<1> QED BY <1>1, <1>2, <1>3 DEF I2c!TypeOK

LEMMA I2cInitially == I2c!Init => I2cInv
<1> SUFFICES ASSUME I2c!Init PROVE I2cInv OBVIOUS
<1>1. I2c!TypeOK
  BY I2cTypeInit
<1> QED
  BY <1>1
     DEF I2c!Init, I2cInv, I2cCore, I2c!NoCall, I2c!NoCmd,
         I2c!SuccessMeansAccepted

(* The invariant is kept by every step of a call, of the bus and of the      *)
(* slave.                                                                    *)
LEMMA I2cInductive == I2cInv /\ [I2c!Next]_I2c!vars => I2cInv'
<1> SUFFICES ASSUME I2cInv, [I2c!Next]_I2c!vars PROVE I2cInv' OBVIOUS
<1> I2c!TypeOK BY DEF I2cInv
<1>0. I2c!TypeOK' BY I2cTypeStep DEF I2cInv
<1>01. I2cCore BY DEF I2cInv
<1>1. ASSUME NEW accepts \in BOOLEAN, I2c!Done(accepts) PROVE I2cCore'
  BY <1>1, <1>01, I2cFields
     DEF I2c!Done, I2cCore, I2c!NoCall, I2c!NoCmd, I2c!Own, I2c!Len,
         I2c!SuccessMeansAccepted
<1>2. ASSUME NEW len \in 1 .. MaxLen, NEW stop \in BOOLEAN,
             NEW kind \in {"write", "read"}, I2c!Begin(kind, len, stop)
      PROVE  I2cCore'
  BY <1>2, <1>01, I2cFields
     DEF I2c!Begin, I2cCore, I2c!NoCall, I2c!NoCmd, I2c!Own, I2c!Len,
         I2c!SuccessMeansAccepted, I2c!bus
<1>3. ASSUME NEW out \in 0 .. MaxLen, NEW back \in 0 .. MaxLen,
             I2c!BeginTransfer(out, back)
      PROVE  I2cCore'
  BY <1>3, <1>01, I2cFields
     DEF I2c!BeginTransfer, I2cCore, I2c!NoCall, I2c!NoCmd, I2c!Own, I2c!Len,
         I2c!SuccessMeansAccepted, I2c!bus
<1>4. ASSUME I2c!SendAddress PROVE I2cCore'
  BY <1>4, <1>01, I2cFields
     DEF I2c!SendAddress, I2c!Send, I2cCore, I2c!NoCall, I2c!NoCmd, I2c!Own,
         I2c!Len, I2c!SuccessMeansAccepted, I2c!bus
<1>5. ASSUME I2c!Timeout PROVE I2cCore'
  BY <1>5, <1>01, I2cFields
     DEF I2c!Timeout, I2c!Returns, I2cCore, I2c!NoCall, I2c!NoCmd, I2c!Own,
         I2c!Len, I2c!SuccessMeansAccepted, I2c!bus
<1>6. ASSUME I2c!RefusedAddress PROVE I2cCore'
  BY <1>6, <1>01, I2cFields
     DEF I2c!RefusedAddress, I2c!Returns, I2cCore, I2c!NoCall, I2c!NoCmd,
         I2c!Own, I2c!Len, I2c!SuccessMeansAccepted, I2c!bus
<1>7. ASSUME I2c!SendByte PROVE I2cCore'
  BY <1>7, <1>01, I2cFields
     DEF I2c!SendByte, I2c!Send, I2cCore, I2c!NoCall, I2c!NoCmd, I2c!Own,
         I2c!Len, I2c!SuccessMeansAccepted, I2c!bus, I2c!StopNow, I2c!IsLast,
         I2c!RefusesLast
<1>8. ASSUME I2c!EndBytes PROVE I2cCore'
  <2>1. CASE i2cOp.kind = "transfer" /\ ~i2cOp.read /\ i2cOp.rx > 0
    <3>1. i2cOp' = [i2cOp EXCEPT !.at = "address", !.read = TRUE, !.i = 0]
          /\ UNCHANGED <<cmd, tip, nack, held, talks, refused, i2cLast>>
      BY <2>1, <1>8 DEF I2c!EndBytes, I2c!bus
    <3>2. i2cOp'.at = "address" /\ i2cOp'.kind = "transfer"
      BY <3>1, <2>1 DEF I2c!TypeOK, I2c!Calls
    <3> QED BY <3>1, <3>2, <1>01 DEF I2cCore, I2c!SuccessMeansAccepted
  <2>2. CASE ~(i2cOp.kind = "transfer" /\ ~i2cOp.read /\ i2cOp.rx > 0)
    BY <2>2, <1>8, <1>01, I2cFields
       DEF I2c!EndBytes, I2c!Returns, I2c!ByteRefused, I2cCore, I2c!NoCall,
           I2c!NoCmd, I2c!Len, I2c!SuccessMeansAccepted, I2c!bus
  <2> QED BY <2>1, <2>2
<1>9. ASSUME UNCHANGED I2c!vars PROVE I2cCore'
  BY <1>9, <1>01, I2cFields
     DEF I2cCore, I2c!NoCall, I2c!NoCmd, I2c!Own, I2c!Len,
         I2c!SuccessMeansAccepted, I2c!bus, I2c!vars
<1> QED
  BY <1>1, <1>2, <1>3, <1>4, <1>5, <1>6, <1>7, <1>8, <1>9, <1>0
     DEF I2c!Next, I2cInv

(* A call that succeeds was accepted, leaves the bus as asked, and no slave  *)
(* talks after it.                                                           *)
LEMMA I2cFollows ==
    I2cInv =>
      I2c!TypeOK /\ I2c!SuccessMeansAccepted /\ I2c!BusIsLeft /\ I2c!SlaveIsSilent
  BY DEF I2cInv, I2cCore, I2c!BusIsLeft, I2c!SlaveIsSilent, I2c!NoCall

-----------------------------------------------------------------------------
(* The SPI master.                                                            *)

LEMMA SpiAssumed == Spi!SpiAssumption
  BY Instances

\* The protocol of the frame at place i.
ModeOf(config, i) ==
    IF config.wires # "all" /\ i < Spi!SwitchPoint(config, config.wires) THEN "single"
    ELSE config.protocol

ModeBefore(config, i) ==
    IF config.wires # "all" /\ i <= Spi!SwitchPoint(config, config.wires) THEN "single"
    ELSE config.protocol

(* The frame that the call has just put into the transmit FIFO.              *)
SpiSent == [i |-> spiOp.i, call |-> [config |-> spiOp.config, len |-> spiOp.len]]

(* While no frame was answered late: a frame is sent in its protocol, its    *)
(* answer is the next one in the receive FIFO, and the FIFOs are empty       *)
(* between calls.                                                            *)
SpiCore ==
    /\ spiOp.at = "idle" => spiOp = Spi!Idle
    /\ spiOp.at = "receive" => spiOp.i < spiOp.len
    /\ spiOp.i <= spiOp.len
    /\ csmode = "hold" <=> spiOp.at # "idle"
    /\ ~late =>
          /\ stored.at = stored.of
          /\ spiOp.at # "receive" => tx = <<>> /\ rx = <<>>
          /\ spiOp.at = "send" => proto = ModeBefore(spiOp.config, spiOp.i)
          /\ spiOp.at = "receive" =>
                \/ tx = <<SpiSent>> /\ rx = <<>> /\ proto = ModeOf(spiOp.config, spiOp.i)
                \/ tx = <<>> /\ rx = <<spiOp.i>> /\ proto = ModeOf(spiOp.config, spiOp.i)
          /\ wire.proto = ModeOf(wire.frame.call.config, wire.frame.i)

(* The invariant of the SPI master.                                          *)
SpiInv == Spi!TypeOK /\ SpiCore

SpiOps == [at : {"idle", "send", "receive"}, config : Spi!Configs \cup {Spi!NoConfig},
        len : 0 .. MaxData + 3, i : 0 .. MaxData + 3]

LEMMA NoConfigTyped ==
    Spi!NoConfig \in [protocol : Protocols, wires : Spi!Modes, csid : Csids \cup {0},
                  cmd : 0 .. 1, addr : 0 .. 1, dummy : 0 .. 1]
  BY SpiAssumed DEF Spi!SpiAssumption, Spi!NoConfig, Spi!Modes

LEMMA ConfigsTyped ==
    ASSUME NEW c \in Spi!Configs \cup {Spi!NoConfig}
    PROVE  /\ c.protocol \in Protocols /\ c.wires \in Spi!Modes /\ c.csid \in Csids \cup {0}
           /\ c.cmd \in 0 .. 1 /\ c.addr \in 0 .. 1 /\ c.dummy \in 0 .. 1
  BY NoConfigTyped DEF Spi!Configs

LEMMA NoFrameTyped == Spi!NoFrame \in Spi!Frames /\ Spi!Idle \in SpiOps
<1>1. MaxData \in Nat
  BY SpiAssumed DEF Spi!SpiAssumption
<1>2. ASSUME NEW c \in Spi!Configs \cup {Spi!NoConfig}
      PROVE  [i |-> 0, call |-> [config |-> c, len |-> 0]] \in Spi!Frames
  BY <1>1 DEF Spi!Frames
<1>3. ASSUME NEW c \in Spi!Configs \cup {Spi!NoConfig}
      PROVE  [at |-> "idle", config |-> c, len |-> 0, i |-> 0] \in SpiOps
  BY <1>1 DEF SpiOps
<1>4. Spi!NoConfig \in Spi!Configs \cup {Spi!NoConfig} OBVIOUS
<1> QED BY <1>2, <1>3, <1>4 DEF Spi!NoFrame, Spi!Idle

LEMMA OneElement ==
    ASSUME NEW x
    PROVE  /\ Head(<<x>>) = x /\ Tail(<<x>>) = <<>> /\ Append(<<>>, x) = <<x>>
           /\ <<x>> # <<>>
  OBVIOUS

LEMMA SpiOpFields ==
    ASSUME Spi!TypeOK
    PROVE  /\ spiOp.at \in {"idle", "send", "receive"} /\ spiOp.config \in Spi!Configs \cup {Spi!NoConfig}
           /\ spiOp.len \in 0 .. MaxData + 3 /\ spiOp.i \in 0 .. MaxData + 3
           /\ spiOp \in SpiOps /\ MaxData \in Nat
  BY SpiAssumed DEF Spi!TypeOK, SpiOps, Spi!SpiAssumption

LEMMA SpiInitially == Spi!Init => SpiInv
<1> SUFFICES ASSUME Spi!Init PROVE SpiInv OBVIOUS
<1>1. spiOp \in SpiOps /\ wire.frame \in Spi!Frames /\ wire.proto \in Protocols
  BY NoFrameTyped, SpiAssumed DEF Spi!Init, Spi!NotSent, Spi!SpiAssumption
<1>2. tx \in Seq(Spi!Frames) /\ rx \in Seq(0 .. MaxData + 2)
  BY DEF Spi!Init
<1>3. stored \in [at : 0 .. MaxData + 2, of : 0 .. MaxData + 2] /\ proto \in Protocols
      /\ csid \in Csids \cup {0} /\ csdef \subseteq Csids \cup {0}
      /\ csmode \in {"auto", "hold"} /\ late \in BOOLEAN
  <2>1. 0 \in 0 .. MaxData + 2
    BY SpiAssumed DEF Spi!SpiAssumption
  <2>2. stored \in [at : 0 .. MaxData + 2, of : 0 .. MaxData + 2]
    BY <2>1 DEF Spi!Init
  <2>3. csid \in Csids \cup {0} /\ csdef \subseteq Csids \cup {0} /\ csmode \in {"auto", "hold"} /\ late \in BOOLEAN
    BY DEF Spi!Init
  <2>4. proto \in Protocols
    BY SpiAssumed DEF Spi!Init, Spi!SpiAssumption
  <2> QED BY <2>2, <2>3, <2>4
<1>4. Spi!TypeOK
  BY <1>1, <1>2, <1>3 DEF Spi!TypeOK, SpiOps
<1>5. SpiCore
  BY
     DEF Spi!Init, SpiCore, Spi!Idle, Spi!NotSent, Spi!NoFrame, Spi!NoConfig,
         ModeOf
<1> QED BY <1>4, <1>5 DEF SpiInv

LEMMA SpiShiftStep == SpiInv /\ Spi!Shift => SpiInv'
<1> SUFFICES ASSUME SpiInv, Spi!Shift PROVE SpiInv' OBVIOUS
<1>0. Spi!TypeOK /\ SpiCore BY DEF SpiInv
<1>1. /\ Head(tx) \in Spi!Frames /\ Tail(tx) \in Seq(Spi!Frames)
  BY <1>0, HeadTailProperties DEF Spi!Shift, Spi!TypeOK
<1>2. Head(tx).i \in 0 .. MaxData + 2
  BY <1>1 DEF Spi!Frames
<1>3. Append(rx, Head(tx).i) \in Seq(0 .. MaxData + 2)
  BY <1>0, <1>2, AppendProperties DEF Spi!TypeOK
<1>4. Spi!TypeOK'
  BY <1>0, <1>1, <1>3 DEF Spi!TypeOK, Spi!Shift, Spi!lines
<1>5. ASSUME ~late
      PROVE  spiOp.at = "receive" /\ tx = <<SpiSent>> /\ rx = <<>> /\ proto = ModeOf(spiOp.config, spiOp.i)
  BY <1>0, <1>5, SpiOpFields DEF SpiCore, Spi!Shift
<1>6. ASSUME ~late
      PROVE  tx' = <<>> /\ rx' = <<spiOp.i>> /\ wire'.frame = SpiSent /\ wire'.proto = proto
  <2>1. SpiSent.i = spiOp.i
    BY DEF SpiSent
  <2>2. tx' = Tail(<<SpiSent>>) /\ rx' = Append(<<>>, Head(<<SpiSent>>).i) /\ wire'.frame = Head(<<SpiSent>>) /\ wire'.proto = proto
    BY <1>5, <1>6 DEF Spi!Shift
  <2> QED BY <2>1, <2>2, OneElement
<1>7. ASSUME ~late
      PROVE  wire'.proto = ModeOf(wire'.frame.call.config, wire'.frame.i)
  <2>1. SpiSent.i = spiOp.i /\ SpiSent.call.config = spiOp.config
    BY DEF SpiSent
  <2> QED BY <2>1, <1>5, <1>6, <1>7
<1>8. UNCHANGED <<proto, csmode, csid, csdef, spiOp, late, stored>>
  BY DEF Spi!Shift, Spi!lines
<1>9. SpiCore'
  BY <1>0, <1>5, <1>6, <1>7, <1>8 DEF SpiCore, ModeBefore, ModeOf
<1> QED BY <1>4, <1>9 DEF SpiInv

LEMMA SpiBadProtocolStep == SpiInv /\ Spi!BadProtocol => SpiInv'
<1> SUFFICES ASSUME SpiInv, Spi!BadProtocol PROVE SpiInv' OBVIOUS
<1>1. Spi!TypeOK'
  BY SpiAssumed
     DEF SpiInv, Spi!TypeOK, Spi!BadProtocol, Spi!lines, Spi!fifos,
         Spi!SpiAssumption
<1>2. SpiCore'
  BY DEF SpiInv, SpiCore, Spi!BadProtocol, Spi!lines, Spi!fifos, Spi!Idle
<1> QED BY <1>1, <1>2 DEF SpiInv

LEMMA SpiBeginStep == ASSUME NEW config \in Spi!Configs, NEW data \in 0 .. MaxData, SpiInv, Spi!Begin(config, data) PROVE SpiInv'
<1>0. Spi!TypeOK /\ SpiCore BY DEF SpiInv
<1>c. /\ config.protocol \in Protocols /\ config.wires \in Spi!Modes /\ config.csid \in Csids
      /\ config.cmd \in 0 .. 1 /\ config.addr \in 0 .. 1
      /\ config.dummy \in 0 .. 1
      /\ MaxData \in Nat
  BY SpiAssumed DEF Spi!Configs, Spi!SpiAssumption
<1>. DEFINE n == config.cmd + config.addr + config.dummy + data
<1>1. n \in 0 .. MaxData + 3 /\ 0 \in 0 .. MaxData + 3 /\ 0 \in 0 .. MaxData + 2
  BY <1>c
<1>. HIDE DEF n
<1>2. spiOp' = [at |-> "send", config |-> config, i |-> 0, len |-> n]
  BY DEF Spi!Begin, n
<1>3. spiOp' \in SpiOps
  BY <1>1, <1>2 DEF SpiOps
<1>4. proto' \in Protocols
  BY <1>c, SpiAssumed DEF Spi!Begin, Spi!ProtocolBits, Spi!SpiAssumption
<1>5. wire'.frame \in Spi!Frames /\ wire'.proto \in Protocols
  BY NoFrameTyped, SpiAssumed DEF Spi!Begin, Spi!NotSent, Spi!SpiAssumption
<1>6. stored' \in [at : 0 .. MaxData + 2, of : 0 .. MaxData + 2]
  BY <1>1 DEF Spi!Begin
<1>7. csid' \in Csids \cup {0} /\ csdef' \subseteq Csids \cup {0} /\ csmode' = "hold" /\ UNCHANGED <<tx, rx, late>>
  BY <1>c DEF Spi!Begin, Spi!fifos
<1>8. Spi!TypeOK'
  BY <1>0, <1>3, <1>4, <1>5, <1>6, <1>7 DEF Spi!TypeOK, SpiOps
<1>9. /\ spiOp'.at = "send" /\ spiOp'.i = 0 /\ spiOp'.config = config /\ spiOp'.len = n
  BY <1>2
<1>10. proto' = ModeBefore(config, 0)
  BY <1>c
     DEF Spi!Begin, Spi!ProtocolBits, ModeBefore, Spi!SwitchPoint, Spi!Modes
<1>11. wire'.proto = ModeOf(wire'.frame.call.config, wire'.frame.i)
  BY DEF Spi!Begin, ModeOf, Spi!NotSent, Spi!NoFrame, Spi!NoConfig
<1>12. stored'.at = stored'.of
  BY DEF Spi!Begin
<1>13. ~late => tx' = <<>> /\ rx' = <<>>
  BY <1>0, <1>7 DEF Spi!Begin, Spi!Idle, SpiCore
<1>14. SpiCore'
  BY <1>1, <1>7, <1>9, <1>10, <1>11, <1>12, <1>13 DEF SpiCore
<1> QED BY <1>8, <1>14 DEF SpiInv

(* The register is switched at the one frame where the protocol changes.     *)
LEMMA SwitchFacts ==
    ASSUME NEW c \in Spi!Configs \cup {Spi!NoConfig}, NEW i \in Nat,
           NEW p \in Protocols
    PROVE  /\ (IF c.wires # "all" /\ i = Spi!SwitchPoint(c, c.wires)
                  THEN c.protocol ELSE p) \in Protocols
           /\ p = ModeBefore(c, i) => (IF c.wires # "all" /\ i = Spi!SwitchPoint(c, c.wires)
                  THEN c.protocol ELSE p) = ModeOf(c, i)
           /\ ModeBefore(c, i + 1) = ModeOf(c, i)
  BY ConfigsTyped DEF Spi!SwitchPoint, ModeBefore, ModeOf

LEMMA SpiSendStep == SpiInv /\ Spi!SendFrame => SpiInv'
<1> SUFFICES ASSUME SpiInv, Spi!SendFrame PROVE SpiInv' OBVIOUS
<1>0. Spi!TypeOK /\ SpiCore BY DEF SpiInv
<1>1. spiOp.at = "send" /\ spiOp.i < spiOp.len /\ tx' = Append(tx, SpiSent) /\ UNCHANGED <<csmode, csid, csdef, rx, late, wire, stored>>
  BY DEF Spi!SendFrame, SpiSent, Spi!lines
<1>2. SpiSent \in Spi!Frames
  BY <1>0, <1>1, SpiOpFields DEF SpiSent, Spi!Frames
<1>3. tx' \in Seq(Spi!Frames)
  BY <1>0, <1>1, <1>2, AppendProperties DEF Spi!TypeOK
<1>4. spiOp' = [spiOp EXCEPT !.at = "receive"]
  BY DEF Spi!SendFrame
<1>5. spiOp' \in SpiOps /\ spiOp'.at = "receive" /\ spiOp'.config = spiOp.config /\ spiOp'.len = spiOp.len /\ spiOp'.i = spiOp.i
  BY <1>0, <1>4, SpiOpFields DEF SpiOps
<1>6. proto' \in Protocols /\ (proto = ModeBefore(spiOp.config, spiOp.i) => proto' = ModeOf(spiOp.config, spiOp.i))
  BY <1>0, SpiOpFields, SwitchFacts, SMTT(40)
     DEF Spi!SendFrame, Spi!NewProtocol, Spi!TypeOK
<1>7. Spi!TypeOK'
  BY <1>0, <1>1, <1>3, <1>5, <1>6 DEF Spi!TypeOK, SpiOps
<1>8. ASSUME ~late PROVE tx' = <<SpiSent>> /\ rx' = <<>>
  BY <1>0, <1>1, <1>8, OneElement DEF SpiCore
<1>9. SpiSent' = SpiSent
  BY <1>5 DEF SpiSent
<1>10. SpiCore'
  BY <1>0, <1>1, <1>5, <1>6, <1>8, <1>9 DEF SpiCore
<1> QED BY <1>7, <1>10 DEF SpiInv

LEMMA SpiReceiveStep == SpiInv /\ Spi!ReceiveFrame => SpiInv'
<1> SUFFICES ASSUME SpiInv, Spi!ReceiveFrame PROVE SpiInv' OBVIOUS
<1>0. Spi!TypeOK /\ SpiCore BY DEF SpiInv
<1>1. spiOp.at = "receive" /\ rx # <<>> /\ rx' = Tail(rx) /\ stored' = [at |-> spiOp.i, of |-> Head(rx)]
      /\ UNCHANGED <<proto, csmode, csid, csdef, tx, late, wire>>
  BY DEF Spi!ReceiveFrame, Spi!Answered, Spi!lines
<1>2. Head(rx) \in 0 .. MaxData + 2 /\ Tail(rx) \in Seq(0 .. MaxData + 2)
  BY <1>0, <1>1, HeadTailProperties DEF Spi!TypeOK
<1>3. spiOp.i < spiOp.len /\ spiOp.i \in 0 .. MaxData + 2 /\ spiOp.i + 1 \in 0 .. MaxData + 3
  BY <1>0, <1>1, SpiOpFields DEF SpiCore
<1>4. stored' \in [at : 0 .. MaxData + 2, of : 0 .. MaxData + 2]
  BY <1>1, <1>2, <1>3
<1>5. spiOp' = [spiOp EXCEPT !.at = "send", !.i = spiOp.i + 1]
  BY DEF Spi!ReceiveFrame
<1>6. spiOp' \in SpiOps /\ spiOp'.at = "send" /\ spiOp'.config = spiOp.config /\ spiOp'.len = spiOp.len /\ spiOp'.i = spiOp.i + 1
  BY <1>0, <1>3, <1>5, SpiOpFields DEF SpiOps
<1>7. Spi!TypeOK'
  BY <1>0, <1>1, <1>2, <1>4, <1>6 DEF Spi!TypeOK, SpiOps
<1>8. ASSUME ~late
      PROVE  tx = <<>> /\ rx = <<spiOp.i>> /\ proto = ModeOf(spiOp.config, spiOp.i)
  BY <1>0, <1>1, <1>8 DEF SpiCore
<1>9. ASSUME ~late PROVE rx' = <<>> /\ stored'.at = stored'.of
  BY <1>1, <1>8, <1>9, OneElement
<1>10. ASSUME ~late PROVE proto' = ModeBefore(spiOp.config, spiOp.i + 1)
  <2>1. spiOp.config \in Spi!Configs \cup {Spi!NoConfig} /\ spiOp.i \in Nat /\ proto \in Protocols
    BY <1>0, SpiOpFields DEF Spi!TypeOK
  <2>2. ModeBefore(spiOp.config, spiOp.i + 1) = ModeOf(spiOp.config, spiOp.i)
    BY <2>1, SwitchFacts
  <2> QED BY <2>2, <1>1, <1>8, <1>10
<1>11. spiOp.i + 1 <= spiOp.len
  BY <1>0, <1>3, SpiOpFields
<1>12. SpiCore'
  BY <1>0, <1>1, <1>6, <1>8, <1>9, <1>10, <1>11 DEF SpiCore
<1> QED BY <1>7, <1>12 DEF SpiInv

LEMMA SpiTimeoutStep == SpiInv /\ Spi!Timeout => SpiInv'
<1> SUFFICES ASSUME SpiInv, Spi!Timeout PROVE SpiInv' OBVIOUS
<1>0. Spi!TypeOK /\ SpiCore BY DEF SpiInv
<1>1. spiOp' = Spi!Idle /\ late' = TRUE /\ csmode' = "auto" /\ UNCHANGED <<proto, csid, csdef, tx, rx, wire, stored>>
  BY DEF Spi!Timeout, Spi!LateMode, Spi!fifos
<1>2. spiOp' \in SpiOps
  BY <1>1, NoFrameTyped
<1>3. Spi!TypeOK'
  BY <1>0, <1>1, <1>2 DEF Spi!TypeOK, SpiOps
<1>4. SpiCore'
  BY <1>1 DEF SpiCore, Spi!Idle
<1> QED BY <1>3, <1>4 DEF SpiInv

LEMMA SpiEndStep == SpiInv /\ Spi!End => SpiInv'
<1> SUFFICES ASSUME SpiInv, Spi!End PROVE SpiInv' OBVIOUS
<1>0. Spi!TypeOK /\ SpiCore BY DEF SpiInv
<1>1. spiOp.at = "send" /\ spiOp' = Spi!Idle /\ csmode' = "auto" /\ UNCHANGED <<csid, csdef, tx, rx, late, wire, stored>>
  BY DEF Spi!End, Spi!fifos
<1>2. spiOp' \in SpiOps
  BY <1>1, NoFrameTyped
<1>3. proto' \in Protocols
  <2>1. spiOp.config \in Spi!Configs \cup {Spi!NoConfig} /\ spiOp.i \in Nat /\ proto \in Protocols
    BY <1>0, SpiOpFields DEF Spi!TypeOK
  <2> QED BY <2>1, SwitchFacts DEF Spi!End, Spi!NewProtocol
<1>4. Spi!TypeOK'
  BY <1>0, <1>1, <1>2, <1>3 DEF Spi!TypeOK, SpiOps
<1>5. SpiCore'
  BY <1>0, <1>1 DEF SpiCore, Spi!Idle
<1> QED BY <1>4, <1>5 DEF SpiInv

(* The invariant is kept by every step of a call and of the controller.      *)
LEMMA SpiInductive == SpiInv /\ [Spi!Next]_Spi!vars => SpiInv'
<1>1. SpiInv /\ UNCHANGED Spi!vars => SpiInv'
  BY DEF SpiInv, SpiCore, Spi!TypeOK, Spi!vars, Spi!lines, Spi!fifos, SpiSent
<1> QED
  BY <1>1, SpiShiftStep, SpiBadProtocolStep, SpiBeginStep, SpiSendStep,
     SpiReceiveStep, SpiTimeoutStep, SpiEndStep DEF Spi!Next

(* A chip select is held just during calls, answers are in their places and  *)
(* frames in their protocol.                                                 *)
LEMMA SpiFollows ==
    SpiInv =>
      Spi!TypeOK /\ Spi!HeldDuringCalls /\ Spi!AnswersInPlace /\ Spi!FramesInTheirMode
<1> SUFFICES ASSUME SpiInv
             PROVE  Spi!TypeOK /\ Spi!HeldDuringCalls /\ Spi!AnswersInPlace /\ Spi!FramesInTheirMode OBVIOUS
<1>0. Spi!TypeOK /\ SpiCore BY DEF SpiInv
<1>1. Spi!HeldDuringCalls /\ Spi!AnswersInPlace
  BY <1>0 DEF SpiCore, Spi!HeldDuringCalls, Spi!AnswersInPlace, Spi!Idle
<1>2. wire.frame.i \in Nat /\ wire.frame.call.config \in Spi!Configs \cup {Spi!NoConfig}
  BY <1>0, SpiAssumed DEF Spi!TypeOK, Spi!Frames, Spi!SpiAssumption
<1>3. Spi!FramesInTheirMode
  BY <1>0, <1>2, ConfigsTyped
     DEF SpiCore, Spi!FramesInTheirMode, ModeOf, Spi!SwitchPoint, Spi!Modes
<1> QED BY <1>0, <1>1, <1>3

-----------------------------------------------------------------------------
(* The watchdog.                                                              *)

LEMMA WdogAssumed == Watchdog!WatchdogAssumption
  BY Instances

-----------------------------------------------------------------------------
WdogAsked == [scale : 0 .. WdogMaxScale, result : Watchdog!Results, enable : Watchdog!Runs, cmp : 0 .. MaxCmp]

WdogBits == unlocked \in BOOLEAN /\ seenIp \in BOOLEAN /\ wdogIp \in BOOLEAN

WdogTyped ==
    /\ WdogBits /\ first \in BOOLEAN
    /\ wdogScale \in 0 .. WdogMaxScale /\ result \in Watchdog!Results
    /\ wdogEnable \in Watchdog!Runs
    /\ wdogCmp \in 0 .. MaxCmp /\ wdogCount \in 0 .. WdogMaxCount
    /\ wdogAsked \in WdogAsked
    /\ rest \in 0 .. WdogMaxCount /\ bites \in -1 .. WdogMaxCount + 1

(* The registers that have what was last asked for.                          *)
Scaled == wdogScale = wdogAsked.scale
Resulting == result = wdogAsked.result
Enabled == wdogEnable = wdogAsked.enable
AllAsAsked == Scaled /\ Resulting /\ Enabled

\* The calls with what they have still to write: but for the register that
\* they are at all have what was asked for.
Simple == todo \in {<<>>, <<Watchdog!W("feed", 0)>>, <<Watchdog!W("ip", 0)>>} /\ AllAsAsked
Comparing == \E t \in 0 .. MaxCmp : todo = <<Watchdog!W("cmp", t)>> /\ AllAsAsked
Rating ==
    \E s \in 0 .. WdogMaxScale :
        /\ Resulting /\ Enabled
        /\ \/ todo = <<Watchdog!W("scale", 0), Watchdog!W("scale", s)>> /\ Scaled /\ first
           \/ todo = <<Watchdog!W("scale", s)>> /\ Scaled /\ first
           \/ todo = <<Watchdog!W("scale", s)>> /\ wdogScale = 0 /\ ~first
Setting ==
    \E r \in Watchdog!Results :
        /\ Scaled /\ Enabled
        /\ \/ todo = <<Watchdog!W("result", "none"), Watchdog!W("result", r)>> /\ Resulting
           \/ todo = <<Watchdog!W("result", r)>>
Running ==
    \E o \in Watchdog!Runs :
        /\ Scaled /\ Resulting
        /\ \/ todo = <<Watchdog!W("enable", "stop"), Watchdog!W("feed", 0), Watchdog!W("enable", o)>> /\ Enabled
           \/ todo = <<Watchdog!W("feed", 0), Watchdog!W("enable", o)>> /\ wdogEnable = "stop"
           \/ todo = <<Watchdog!W("enable", o)>> /\ wdogEnable = "stop" /\ wdogCount = 0
           \/ todo = <<Watchdog!W("enable", o)>> /\ o = "stop" /\ Enabled

(* The invariant of the watchdog: the compare register is always the one     *)
(* asked for, a stopped watchdog has not counted, and what a call has left   *)
(* to write is known, with the scale that is there meanwhile.                *)
WdogInv ==
    /\ WdogTyped /\ wdogCmp = wdogAsked.cmp
    /\ todo = <<>> => first
    /\ wdogEnable = "stop" => rest = 0
    /\ wdogEnable # "stop" => rest = wdogCount
    /\ Simple \/ Comparing \/ Rating \/ Setting \/ Running

(* What the assumption says of the constants.                                *)
LEMMA WdogConsts ==
    /\ WdogMaxScale \in 1 .. 7 /\ MaxCmp \in Nat \ {0}
    /\ ClockRate \in Nat \ {0} /\ WdogMaxCount \in Nat \ {0}
  BY WdogAssumed DEF Watchdog!WatchdogAssumption

LEMMA WdogPowers == ASSUME NEW s \in 0 .. WdogMaxScale PROVE 2 ^ s \in Nat \ {0}
<1>1. s \in 0 .. 7
  BY WdogConsts
<1>2. 2 ^ 0 \in Nat \ {0} /\ 2 ^ 1 \in Nat \ {0} /\ 2 ^ 2 \in Nat \ {0} /\ 2 ^ 3 \in Nat \ {0}
  <2>1. 2 ^ 0 = 1 /\ 2 ^ 1 = 2
    BY SMT
  <2>2. 2 ^ 2 = 4 /\ 2 ^ 3 = 8
    BY SMT
  <2> QED BY <2>1, <2>2
<1>3. 2 ^ 4 \in Nat \ {0} /\ 2 ^ 5 \in Nat \ {0} /\ 2 ^ 6 \in Nat \ {0} /\ 2 ^ 7 \in Nat \ {0}
  <2>1. 2 ^ 4 = 16 /\ 2 ^ 5 = 32
    BY SMT
  <2>2. 2 ^ 6 = 64 /\ 2 ^ 7 = 128
    BY SMT
  <2> QED BY <2>1, <2>2
<1>4. s = 0 \/ s = 1 \/ s = 2 \/ s = 3 \/ s = 4 \/ s = 5 \/ s = 6 \/ s = 7
  BY <1>1
<1> QED BY <1>2, <1>3, <1>4

\* What has matched has counted through the compare value.
LEMMA Reached ==
    ASSUME NEW n \in Nat, wdogScale \in 0 .. WdogMaxScale, wdogCmp \in Nat,
           Watchdog!Matches(n)
    PROVE  wdogCmp * 2 ^ wdogScale <= n
<1>. DEFINE P == 2 ^ wdogScale  q == n \div P  r == n % P
<1>1. P \in Nat \ {0} /\ q >= wdogCmp
  BY WdogPowers DEF Watchdog!Matches
<1>. HIDE DEF P
<1>2. q \in Nat /\ r \in 0 .. P - 1 /\ n = P * q + r
  BY <1>1, DivNat
<1>. HIDE DEF q, r
<1>3. wdogCmp * P <= q * P /\ q * P = P * q /\ P * q \in Nat /\ wdogCmp * P \in Nat
  BY <1>1, <1>2
<1> QED BY <1>1, <1>2, <1>3 DEF P

LEMMA WdogInitially == Watchdog!Init => WdogInv
<1> SUFFICES ASSUME Watchdog!Init PROVE WdogInv OBVIOUS
<1>1. wdogAsked \in WdogAsked
  BY WdogConsts
     DEF Watchdog!Init, Watchdog!Unset, WdogAsked, Watchdog!Results,
         Watchdog!Runs
<1>2. WdogTyped
  <2>1. 0 \in 0 .. WdogMaxScale /\ MaxCmp \in 0 .. MaxCmp /\ 0 \in 0 .. WdogMaxCount /\ -1 \in -1 .. WdogMaxCount + 1
    BY WdogConsts
  <2> QED
    BY <1>1, <2>1 DEF Watchdog!Init, WdogTyped, WdogBits, Watchdog!Results, Watchdog!Runs
<1>3. Simple
  BY
     DEF Watchdog!Init, Watchdog!Unset, Simple, AllAsAsked, Scaled, Resulting,
         Enabled
<1> QED BY <1>2, <1>3 DEF Watchdog!Init, Watchdog!Unset, WdogInv

-----------------------------------------------------------------------------
(* The scale in the register is the one that is reckoned with.               *)
LEMMA ScaleIsKnown == WdogInv => wdogScale = Watchdog!ScaleNow
<1> SUFFICES ASSUME WdogInv PROVE wdogScale = Watchdog!ScaleNow OBVIOUS
<1>. USE DEF Watchdog!ScaleNow, Watchdog!BetweenScales
<1>1. CASE Simple \/ Comparing
  <2>1. Scaled
    BY <1>1 DEF Simple, Comparing, AllAsAsked
  <2>2. todo # <<>> => Head(todo).reg \in {"feed", "ip", "cmp"}
    BY <1>1 DEF Simple, Comparing, Watchdog!W
  <2> QED BY <2>1, <2>2 DEF Scaled
<1>2. CASE Setting \/ Running
  <2>1. Scaled
    BY <1>2 DEF Setting, Running
  <2>2. Head(todo).reg \in {"result", "enable", "feed"}
    BY <1>2 DEF Setting, Running, Watchdog!W
  <2> QED BY <2>1, <2>2 DEF Scaled
<1>3. CASE Rating
  <2>1. todo # <<>> /\ Head(todo).reg = "scale"
    BY <1>3 DEF Rating, Watchdog!W
  <2>2. (first /\ Scaled) \/ (~first /\ wdogScale = 0)
    BY <1>3, Zenon DEF Rating
  <2> QED BY <2>1, <2>2 DEF Scaled
<1> QED BY <1>1, <1>2, <1>3 DEF WdogInv

(* The watchdog fires, in a tick, no earlier than was asked, even when a     *)
(* call has written some of its registers only.                              *)
LEMMA WdogTickStep ==
    ASSUME WdogInv, Watchdog!Tick
    PROVE  WdogInv' /\ (bites' # bites => bites' >= wdogAsked.cmp * 2 ^ Watchdog!ScaleNow)
<1>0. WdogTyped /\ wdogCmp = wdogAsked.cmp /\ rest = wdogCount
  BY DEF WdogInv, Watchdog!Tick
<1>1. /\ wdogEnable # "stop" /\ wdogCount < WdogMaxCount
      /\ UNCHANGED <<unlocked, seenIp, wdogScale, result, wdogEnable, wdogCmp, todo, first, wdogAsked>>
  BY DEF Watchdog!Tick
<1>. DEFINE fires == Watchdog!Matches(wdogCount + 1)
            zeroed == fires /\ result = "interrupt"
<1>2. /\ wdogIp' = (wdogIp \/ fires)
      /\ wdogCount' = IF zeroed THEN 0 ELSE wdogCount + 1
      /\ rest' = IF zeroed THEN 0 ELSE rest + 1
      /\ bites' = IF fires /\ ~wdogIp THEN rest + 1 ELSE bites
  BY DEF Watchdog!Tick
<1>3. wdogCount \in Nat /\ wdogCount + 1 \in 0 .. WdogMaxCount /\ wdogScale \in 0 .. WdogMaxScale /\ wdogCmp \in Nat
      /\ bites \in -1 .. WdogMaxCount + 1
  BY <1>0, <1>1, WdogConsts DEF WdogTyped
<1>4. wdogScale = Watchdog!ScaleNow
  BY ScaleIsKnown
<1>5. fires => wdogCmp * 2 ^ wdogScale <= wdogCount + 1
  BY <1>3, Reached
<1>. HIDE DEF fires
<1>6. /\ wdogCount' \in 0 .. WdogMaxCount /\ rest' = wdogCount'
      /\ bites' \in -1 .. WdogMaxCount + 1 /\ (bites' # bites => fires /\ bites' = wdogCount + 1)
  <2>1. CASE zeroed
    BY <1>0, <1>2, <1>3, <2>1, WdogConsts
  <2>2. CASE ~zeroed /\ fires /\ ~wdogIp
    <3>1. wdogCount' = wdogCount + 1 /\ rest' = rest + 1 /\ bites' = rest + 1
      BY <1>2, <2>2, Zenon
    <3>2. wdogCount' \in 0 .. WdogMaxCount /\ rest' = wdogCount' /\ bites' \in -1 .. WdogMaxCount + 1 /\ bites' = wdogCount + 1
      BY <1>0, <1>3, <3>1, WdogConsts
    <3>3. fires
      BY <2>2
    <3> QED BY <3>2, <3>3, Zenon
  <2>3. CASE ~zeroed /\ ~(fires /\ ~wdogIp)
    BY <1>0, <1>2, <1>3, <2>3
  <2> QED BY <2>1, <2>2, <2>3
<1>7. WdogBits'
  <2>1. wdogIp' \in BOOLEAN
    BY <1>2, Zenon
  <2> QED BY <1>0, <1>1, <2>1 DEF WdogBits, WdogTyped
<1>8. WdogTyped'
  BY <1>0, <1>1, <1>6, <1>7 DEF WdogTyped
<1>9. (Simple \/ Comparing \/ Rating \/ Setting \/ Running)'
  <2>1. ASSUME NEW o \in Watchdog!Runs, todo = <<Watchdog!W("enable", o)>>,
               wdogEnable = "stop"
        PROVE  FALSE
    BY <1>1, <2>1
  <2>2. Scaled' = Scaled /\ Resulting' = Resulting /\ Enabled' = Enabled /\ AllAsAsked' = AllAsAsked
    BY <1>1 DEF Scaled, Resulting, Enabled, AllAsAsked
  <2>3. CASE Simple
    BY <1>1, <2>2, <2>3 DEF Simple
  <2>4. CASE Comparing
    BY <1>1, <2>2, <2>4 DEF Comparing
  <2>5. CASE Rating
    BY <1>1, <2>2, <2>5 DEF Rating
  <2>6. CASE Setting
    BY <1>1, <2>2, <2>6 DEF Setting
  <2>7. CASE Running
    BY <1>1, <2>1, <2>2, <2>7 DEF Running
  <2> QED BY <2>3, <2>4, <2>5, <2>6, <2>7 DEF WdogInv
<1>10. wdogCmp' = wdogAsked'.cmp /\ (todo' = <<>> => first') /\ (wdogEnable' = "stop" => rest' = 0) /\ (wdogEnable' # "stop" => rest' = wdogCount')
  BY <1>0, <1>1, <1>6 DEF WdogInv
<1>11. bites' # bites => bites' >= wdogAsked.cmp * 2 ^ Watchdog!ScaleNow
  <2>1. 2 ^ wdogScale \in Nat \ {0}
    BY <1>3, WdogPowers
  <2>2. ASSUME bites' # bites
        PROVE  bites' >= wdogAsked.cmp * 2 ^ Watchdog!ScaleNow
    <3>1. bites' = wdogCount + 1 /\ wdogCmp * 2 ^ wdogScale <= wdogCount + 1
      BY <1>5, <1>6, <2>2
    <3>2. ASSUME NEW x \in Nat, x <= wdogCount + 1 PROVE wdogCount + 1 >= x
      BY <1>3, <3>2
    <3>3. wdogCmp * 2 ^ wdogScale \in Nat
      BY <1>3, <2>1
    <3> QED BY <1>0, <1>4, <3>1, <3>2, <3>3
  <2> QED BY <2>2
<1> QED BY <1>8, <1>9, <1>10, <1>11 DEF WdogInv

LEMMA WdogResetStep ==
    ASSUME WdogInv, Watchdog!Reset
    PROVE  WdogInv' /\ (bites' # bites => bites' >= wdogAsked.cmp * 2 ^ Watchdog!ScaleNow)
<1>0. WdogTyped /\ wdogCmp = wdogAsked.cmp /\ rest = wdogCount
  BY DEF WdogInv, Watchdog!Reset
<1>1. /\ wdogEnable # "stop" /\ Watchdog!Matches(wdogCount + 1)
      /\ unlocked' = FALSE /\ seenIp' = seenIp /\ wdogScale' = 0 /\ result' = "none"
      /\ wdogEnable' = "stop" /\ wdogIp' = FALSE
      /\ wdogCmp' = MaxCmp /\ wdogCount' = 0 /\ todo' = <<>> /\ first' = TRUE
      /\ rest' = 0
      /\ wdogAsked' = [scale |-> 0, result |-> "none", enable |-> "stop", cmp |-> MaxCmp]
      /\ bites' = rest + 1
  BY DEF Watchdog!Reset, Watchdog!Unset
<1>2. wdogCount \in Nat /\ wdogCount + 1 \in 1 .. WdogMaxCount + 1 /\ wdogScale \in 0 .. WdogMaxScale /\ wdogCmp \in Nat
  BY <1>0, WdogConsts DEF WdogTyped
<1>3. wdogScale = Watchdog!ScaleNow
  BY ScaleIsKnown
<1>4. bites' >= wdogAsked.cmp * 2 ^ Watchdog!ScaleNow
  <2>1. wdogCmp * 2 ^ wdogScale <= wdogCount + 1
    <3>1. wdogCount + 1 \in Nat
      BY <1>2
    <3> QED BY <1>1, <1>2, <3>1, Reached
  <2>2. 2 ^ wdogScale \in Nat \ {0}
    BY <1>2, WdogPowers
  <2>3. wdogCmp * 2 ^ wdogScale \in Nat
    BY <1>2, <2>2
  <2>4. ASSUME NEW x \in Nat, x <= wdogCount + 1 PROVE wdogCount + 1 >= x
    BY <1>2, <2>4
  <2> QED BY <1>0, <1>1, <1>3, <2>1, <2>3, <2>4
<1>5. wdogAsked' \in WdogAsked
  BY <1>1, WdogConsts DEF WdogAsked, Watchdog!Results, Watchdog!Runs
<1>6. WdogTyped'
  <2>1. wdogScale' \in 0 .. WdogMaxScale /\ wdogCmp' \in 0 .. MaxCmp /\ wdogCount' \in 0 .. WdogMaxCount /\ rest' \in 0 .. WdogMaxCount
    BY <1>1, WdogConsts
  <2>2. bites' \in -1 .. WdogMaxCount + 1
    BY <1>0, <1>1, <1>2, WdogConsts
  <2>3. WdogBits'
    BY <1>0, <1>1, Zenon DEF WdogBits, WdogTyped
  <2> QED
    BY <1>1, <1>5, <2>1, <2>2, <2>3 DEF WdogTyped, Watchdog!Results, Watchdog!Runs
<1>7. Simple'
  BY <1>1 DEF Simple, AllAsAsked, Scaled, Resulting, Enabled
<1> QED BY <1>1, <1>4, <1>6, <1>7 DEF WdogInv

-----------------------------------------------------------------------------
(* The scale that is chosen for a rate is one that the register has.         *)
LEMMA ClosestIsAScale ==
    ASSUME NEW rate \in Int
    PROVE  Watchdog!ClosestScale(rate) \in 0 .. WdogMaxScale
<1>. DEFINE D == 0 .. WdogMaxScale - 1
            F(s) == Watchdog!Abs(rate - Watchdog!RateWith(s))
            Best(s) == \A t \in D : F(s) <= F(t) /\ (t < s => F(s) < F(t))
<1>1. \A s \in D : F(s) \in Nat
  <2>1. SUFFICES ASSUME NEW s \in D PROVE F(s) \in Nat
    OBVIOUS
  <2>2. s \in 0 .. WdogMaxScale
    BY WdogConsts
  <2>3. Watchdog!RateWith(s) \in Nat
    BY <2>2, WdogPowers, DivNat, WdogConsts DEF Watchdog!RateWith
  <2> QED BY <2>3 DEF Watchdog!Abs
<1>2. D \subseteq Nat /\ 0 \in D
  BY WdogConsts
<1>. HIDE DEF F, D
<1>3. \E s \in D : Best(s)
  <2>. DEFINE V == {F(s) : s \in D}
  <2>1. V \in SUBSET Nat /\ V # {}
    BY <1>1, <1>2
  <2>2. PICK v \in V : \A y \in V : v <= y
    <3>. HIDE DEF V
    <3> QED BY <2>1, LeastExists
  <2>. DEFINE S == {s \in D : F(s) = v}
  <2>3. S \in SUBSET Nat /\ S # {}
    BY <1>2, <2>2
  <2>4. PICK s \in S : \A y \in S : s <= y
    <3>. HIDE DEF S
    <3> QED BY <2>3, LeastExists
  <2>5. s \in D /\ F(s) = v /\ s \in Nat /\ v \in Nat
    BY <1>1, <1>2
  <2>6. ASSUME NEW t \in D PROVE F(s) <= F(t) /\ (t < s => F(s) < F(t))
    <3>1. F(t) \in V /\ F(t) \in Nat /\ t \in Nat
      BY <1>1, <1>2
    <3>2. v <= F(t)
      BY <2>2, <3>1
    <3>3. t < s => t \notin S
      <4>1. t \in S => s <= t
        BY <2>4
      <4> QED BY <2>5, <3>1, <4>1
    <3>4. t < s => F(t) # v
      BY <3>3
    <3> QED BY <2>5, <3>1, <3>2, <3>4
  <2> QED BY <2>5, <2>6
<1>4. Watchdog!ClosestScale(rate) = IF rate >= ClockRate THEN 0 ELSE CHOOSE s \in D : Best(s)
  BY DEF Watchdog!ClosestScale, F, D
<1>. HIDE DEF Best
<1>5. (CHOOSE s \in D : Best(s)) \in D
  BY <1>3
<1>6. D \subseteq 0 .. WdogMaxScale /\ 0 \in 0 .. WdogMaxScale
  BY WdogConsts DEF D
<1> QED BY <1>4, <1>5, <1>6

\* A call is made when there is nothing left to write.
LEMMA WdogCallStep ==
    ASSUME WdogInv, NEW writes, Watchdog!Call(writes)
    PROVE  /\ UNCHANGED <<unlocked, seenIp, wdogScale, result, wdogEnable, wdogIp, wdogCmp, wdogCount, first, wdogAsked, rest, bites>>
           /\ todo' = writes /\ first' /\ AllAsAsked /\ AllAsAsked' /\ Scaled'
           /\ Resulting' /\ Enabled' /\ wdogAsked \in WdogAsked
           /\ (Simple \/ Comparing \/ Rating \/ Setting \/ Running)' => WdogInv'
<1>1. /\ todo = <<>> /\ todo' = writes
      /\ UNCHANGED <<unlocked, seenIp, wdogScale, result, wdogEnable, wdogIp, wdogCmp, wdogCount, first, wdogAsked, rest, bites>>
  BY DEF Watchdog!Call, Watchdog!cfg
<1>2. AllAsAsked
  BY <1>1 DEF WdogInv, Simple, Comparing, Rating, Setting, Running
<1>3. AllAsAsked' /\ Scaled' /\ Resulting' /\ Enabled'
  BY <1>1, <1>2 DEF AllAsAsked, Scaled, Resulting, Enabled
<1>4. WdogTyped'
  BY <1>1 DEF WdogInv, WdogTyped, WdogBits
<1>5. wdogAsked \in WdogAsked /\ first'
  BY <1>1 DEF WdogInv, WdogTyped
<1> QED BY <1>1, <1>2, <1>3, <1>4, <1>5 DEF WdogInv

LEMMA WdogCallsStep ==
    ASSUME WdogInv,
           \/ Watchdog!Feed \/ Watchdog!ClearInterrupt
           \/ \E rate \in {ClockRate, ClockRate \div 2, ClockRate \div 3, 1} : Watchdog!SetRate(rate)
           \/ \E timeout \in 0 .. MaxCmp + 1 : Watchdog!SetTimeout(timeout)
           \/ \E r \in Watchdog!Results : Watchdog!SetResult(r)
           \/ \E option \in Watchdog!Runs : Watchdog!Run(option)
    PROVE  WdogInv' /\ bites' = bites
<1>1. CASE Watchdog!Feed
  <2>1. Watchdog!Call(<<Watchdog!W("feed", 0)>>)
    BY <1>1 DEF Watchdog!Feed
  <2>2. Simple'
    BY <2>1, WdogCallStep DEF Simple
  <2> QED BY <2>1, <2>2, WdogCallStep
<1>2. CASE Watchdog!ClearInterrupt
  <2>1. Watchdog!Call(<<Watchdog!W("ip", 0)>>)
    BY <1>2 DEF Watchdog!ClearInterrupt
  <2>2. Simple'
    BY <2>1, WdogCallStep DEF Simple
  <2> QED BY <2>1, <2>2, WdogCallStep
<1>3. ASSUME NEW rate \in {ClockRate, ClockRate \div 2, ClockRate \div 3, 1},
             Watchdog!SetRate(rate)
      PROVE  WdogInv' /\ bites' = bites
  <2>1. rate \in Int
    BY WdogConsts
  <2>2. PICK writes : /\ Watchdog!Call(writes)
                      /\ \/ writes = <<Watchdog!W("scale", 0)>>
                         \/ writes = <<Watchdog!W("scale", 0), Watchdog!W("scale", Watchdog!ClosestScale(rate))>>
    BY <1>3, Zenon DEF Watchdog!SetRate
  <2>3. 0 \in 0 .. WdogMaxScale /\ Watchdog!ClosestScale(rate) \in 0 .. WdogMaxScale
    BY <2>1, ClosestIsAScale, WdogConsts
  <2>4. /\ todo' = writes /\ first' /\ Scaled' /\ Resulting' /\ Enabled' /\ wdogAsked' = wdogAsked /\ bites' = bites
    BY <2>2, WdogCallStep
  <2>5. Rating'
    <3>2. CASE writes = <<Watchdog!W("scale", 0)>>
      BY <2>3, <2>4, <3>2, Zenon DEF Rating
    <3>3. CASE writes = <<Watchdog!W("scale", 0), Watchdog!W("scale", Watchdog!ClosestScale(rate))>>
      BY <2>3, <2>4, <3>3, Zenon DEF Rating
    <3> QED BY <2>2, <3>2, <3>3
  <2> QED BY <2>2, <2>4, <2>5, WdogCallStep
<1>4. ASSUME NEW timeout \in 0 .. MaxCmp + 1, Watchdog!SetTimeout(timeout)
      PROVE  WdogInv' /\ bites' = bites
  <2>. DEFINE t == IF timeout > MaxCmp THEN MaxCmp ELSE timeout
  <2>1. Watchdog!Call(<<Watchdog!W("cmp", t)>>)
    BY <1>4 DEF Watchdog!SetTimeout, Watchdog!CompareWrites
  <2>2. t \in 0 .. MaxCmp
    BY WdogConsts
  <2>. HIDE DEF t
  <2>3. todo' = <<Watchdog!W("cmp", t)>> /\ AllAsAsked' /\ bites' = bites
    BY <2>1, WdogCallStep
  <2>4. Comparing'
    BY <2>2, <2>3, Zenon DEF Comparing
  <2> QED BY <2>1, <2>3, <2>4, WdogCallStep
<1>5. ASSUME NEW r \in Watchdog!Results, Watchdog!SetResult(r)
      PROVE  WdogInv' /\ bites' = bites
  <2>1. PICK writes : /\ Watchdog!Call(writes)
                      /\ writes = <<Watchdog!W("result", r)>> \/ writes = <<Watchdog!W("result", "none"), Watchdog!W("result", r)>>
    BY <1>5, Zenon DEF Watchdog!SetResult
  <2>2. todo' = writes /\ Scaled' /\ Resulting' /\ Enabled' /\ bites' = bites
    BY <2>1, WdogCallStep
  <2>3. Setting'
    BY <2>1, <2>2, Zenon DEF Setting
  <2> QED BY <2>1, <2>2, <2>3, WdogCallStep
<1>6. ASSUME NEW option \in Watchdog!Runs, Watchdog!Run(option)
      PROVE  WdogInv' /\ bites' = bites
  <2>1. PICK writes : /\ Watchdog!Call(writes)
                      /\ \/ option = "stop" /\ writes = <<Watchdog!W("enable", option)>>
                         \/ writes = <<Watchdog!W("enable", "stop"), Watchdog!W("feed", 0), Watchdog!W("enable", option)>>
    BY <1>6, Zenon DEF Watchdog!Run, Watchdog!RunWrites
  <2>2. todo' = writes /\ Scaled' /\ Resulting' /\ Enabled' /\ bites' = bites
    BY <2>1, WdogCallStep
  <2>3. Running'
    BY <2>1, <2>2, Zenon DEF Running
  <2> QED BY <2>1, <2>2, <2>3, WdogCallStep
<1> QED BY <1>1, <1>2, <1>3, <1>4, <1>5, <1>6

-----------------------------------------------------------------------------
(* The write after this one is the first of its call, or a later one.        *)
AtFirst == first = TRUE
AtLater == first = FALSE

\* The next write, of the last of a call and of one that is followed by others.
WdogEffect(w) ==
    /\ wdogScale' = IF w.reg = "scale" THEN w.value ELSE wdogScale
    /\ result' = IF w.reg = "result" THEN w.value ELSE result
    /\ wdogEnable' = IF w.reg = "enable" THEN w.value ELSE wdogEnable
    /\ wdogIp' = CASE w.reg = "ip" -> FALSE
                 [] w.reg \in {"scale", "result", "enable"} -> seenIp
                 [] OTHER -> wdogIp
    /\ wdogCmp' = IF w.reg = "cmp" THEN w.value ELSE wdogCmp
    /\ wdogCount' = IF w.reg = "feed" THEN 0 ELSE wdogCount
    /\ rest' = IF w.reg = "feed" \/ wdogEnable' = "stop" THEN 0 ELSE rest
    /\ unlocked' = FALSE /\ seenIp' = seenIp /\ bites' = bites

LEMMA LastWrite ==
    ASSUME Watchdog!Write, NEW w, todo = <<w>>
    PROVE  /\ WdogEffect(w) /\ todo' = <<>> /\ AtFirst'
           /\ wdogAsked' = IF w.reg \in DOMAIN wdogAsked THEN [wdogAsked EXCEPT ![w.reg] = w.value] ELSE wdogAsked
<1>1. Head(todo) = w /\ Len(todo) = 1 /\ Tail(todo) = <<>>
  OBVIOUS
<1>2. first' = (Len(todo) = 1)
  BY DEF Watchdog!Write
<1>3. AtFirst'
  BY <1>1, <1>2 DEF AtFirst
<1> QED
  BY <1>1, <1>3 DEF Watchdog!Write, WdogEffect, Watchdog!Unlocks

LEMMA FirstWrite ==
    ASSUME Watchdog!Write, NEW w, NEW v, todo = <<w, v>>
    PROVE  WdogEffect(w) /\ todo' = <<v>> /\ AtLater' /\ wdogAsked' = wdogAsked
<1>1. Head(todo) = w /\ Len(todo) = 2 /\ Tail(todo) = <<v>>
  OBVIOUS
<1>2. first' = (Len(todo) = 1)
  BY DEF Watchdog!Write
<1>3. AtLater'
  <2>1. Len(todo) # 1
    BY <1>1
  <2> QED BY <1>2, <2>1, Zenon DEF AtLater
<1>4. Watchdog!Write /\ unlocked
  BY DEF Watchdog!Write, Watchdog!Unlocks
<1>5. WdogEffect(w)
  BY <1>1, <1>4 DEF Watchdog!Write, WdogEffect
<1>6. todo' = Tail(todo) /\ (Len(todo) # 1 => wdogAsked' = wdogAsked)
  BY DEF Watchdog!Write
<1> QED
  BY <1>1, <1>3, <1>5, <1>6

LEMMA FirstOfThree ==
    ASSUME Watchdog!Write, NEW w, NEW v, NEW u, todo = <<w, v, u>>
    PROVE  WdogEffect(w) /\ todo' = <<v, u>> /\ AtLater' /\ wdogAsked' = wdogAsked
<1>1. Head(todo) = w /\ Len(todo) = 3 /\ Tail(todo) = <<v, u>>
  OBVIOUS
<1>2. first' = (Len(todo) = 1)
  BY DEF Watchdog!Write
<1>3. AtLater'
  <2>1. Len(todo) # 1
    BY <1>1
  <2> QED BY <1>2, <2>1, Zenon DEF AtLater
<1>4. Watchdog!Write /\ unlocked
  BY DEF Watchdog!Write, Watchdog!Unlocks
<1>5. WdogEffect(w)
  BY <1>1, <1>4 DEF Watchdog!Write, WdogEffect
<1>6. todo' = Tail(todo) /\ (Len(todo) # 1 => wdogAsked' = wdogAsked)
  BY DEF Watchdog!Write
<1> QED
  BY <1>1, <1>3, <1>5, <1>6

LEMMA WdogWrite ==
    ASSUME NEW reg, NEW value
    PROVE  Watchdog!W(reg, value).reg = reg /\ Watchdog!W(reg, value).value = value
  BY DEF Watchdog!W

(* The same, of a register and a value.                                      *)
LEMMA WdogEffects ==
    ASSUME NEW reg, NEW value, WdogEffect(Watchdog!W(reg, value)), WdogTyped
    PROVE  /\ wdogScale' = IF reg = "scale" THEN value ELSE wdogScale
           /\ result' = IF reg = "result" THEN value ELSE result
           /\ wdogEnable' = IF reg = "enable" THEN value ELSE wdogEnable
           /\ wdogCmp' = IF reg = "cmp" THEN value ELSE wdogCmp
           /\ wdogCount' = IF reg = "feed" THEN 0 ELSE wdogCount
           /\ rest' = IF reg = "feed" \/ wdogEnable' = "stop" THEN 0 ELSE rest
           /\ bites' = bites /\ WdogBits'
<1>. DEFINE w == Watchdog!W(reg, value)
<1>1. w.reg = reg /\ w.value = value /\ WdogEffect(w)
  BY WdogWrite
<1>. HIDE DEF w
<1>2. unlocked' = FALSE /\ seenIp' = seenIp /\ (wdogIp' = FALSE \/ wdogIp' = seenIp \/ wdogIp' = wdogIp)
  BY <1>1, Zenon DEF WdogEffect
<1>3. WdogBits'
  BY <1>2, Zenon DEF WdogBits, WdogTyped
<1> QED BY <1>1, <1>3 DEF WdogEffect

LEMMA WdogAskedFields ==
    ASSUME wdogAsked \in WdogAsked
    PROVE  /\ DOMAIN wdogAsked = {"scale", "result", "enable", "cmp"}
           /\ wdogAsked.scale \in 0 .. WdogMaxScale
           /\ wdogAsked.result \in Watchdog!Results
           /\ wdogAsked.enable \in Watchdog!Runs
           /\ wdogAsked.cmp \in 0 .. MaxCmp
           /\ \A s \in 0 .. WdogMaxScale : LET a == [wdogAsked EXCEPT !["scale"] = s] IN
                 /\ a \in WdogAsked /\ a.scale = s
                 /\ a.result = wdogAsked.result
                 /\ a.enable = wdogAsked.enable /\ a.cmp = wdogAsked.cmp
           /\ \A r \in Watchdog!Results : LET a == [wdogAsked EXCEPT !["result"] = r] IN
                 /\ a \in WdogAsked /\ a.scale = wdogAsked.scale
                 /\ a.result = r
                 /\ a.enable = wdogAsked.enable /\ a.cmp = wdogAsked.cmp
           /\ \A o \in Watchdog!Runs : LET a == [wdogAsked EXCEPT !["enable"] = o] IN
                 /\ a \in WdogAsked /\ a.scale = wdogAsked.scale
                 /\ a.result = wdogAsked.result
                 /\ a.enable = o /\ a.cmp = wdogAsked.cmp
           /\ \A t \in 0 .. MaxCmp : LET a == [wdogAsked EXCEPT !["cmp"] = t] IN
                 /\ a \in WdogAsked /\ a.scale = wdogAsked.scale
                 /\ a.result = wdogAsked.result
                 /\ a.enable = wdogAsked.enable /\ a.cmp = t
  BY DEF WdogAsked

(* A last write that changes none of the registers that are asked for.       *)
LEMMA SimpleEnd ==
    ASSUME WdogInv, AllAsAsked,
           UNCHANGED <<wdogScale, result, wdogEnable, wdogCmp, wdogAsked, bites>>,
           todo' = <<>>,
           WdogBits', AtFirst',
           (wdogCount' = 0 /\ rest' = 0) \/ (wdogCount' = wdogCount /\ rest' = rest)
    PROVE  WdogInv'
<1>1. 0 \in 0 .. WdogMaxCount
  BY WdogConsts
<1>2. WdogTyped'
  BY <1>1 DEF WdogInv, WdogTyped, AtFirst, AtLater
<1>3. Simple'
  BY DEF Simple, AllAsAsked, Scaled, Resulting, Enabled
<1>4. (wdogEnable' = "stop" => rest' = 0) /\ (wdogEnable' # "stop" => rest' = wdogCount') /\ wdogCmp' = wdogAsked'.cmp
  BY DEF WdogInv
<1> QED BY <1>2, <1>3, <1>4 DEF WdogInv, AtFirst, AtLater

(* The steps of the calls: feed, clear, compare value, rate, result, run.    *)
LEMMA SimpleStep ==
    WdogInv /\ Simple /\ Watchdog!Write => WdogInv' /\ bites' = bites
<1> SUFFICES ASSUME WdogInv, Simple, Watchdog!Write
             PROVE  WdogInv' /\ bites' = bites OBVIOUS
<1>0. WdogTyped /\ wdogCmp = wdogAsked.cmp /\ wdogAsked \in WdogAsked /\ todo # <<>> /\ AllAsAsked
      /\ (wdogEnable = "stop" => rest = 0) /\ (wdogEnable # "stop" => rest = wdogCount)
  BY DEF WdogInv, WdogTyped, Watchdog!Write, Simple
<1>1. todo = <<Watchdog!W("feed", 0)>> \/ todo = <<Watchdog!W("ip", 0)>>
  BY <1>0 DEF Simple
<1>2. CASE todo = <<Watchdog!W("feed", 0)>>
  <2>1. WdogEffect(Watchdog!W("feed", 0)) /\ todo' = <<>> /\ AtFirst' /\ wdogAsked' = wdogAsked
    BY <1>0, <1>2, LastWrite, WdogAskedFields, WdogWrite
  <2>2. /\ UNCHANGED <<wdogScale, result, wdogEnable, wdogCmp, bites>> 
        /\ WdogBits' /\ wdogCount' = 0 /\ rest' = 0
    BY <1>0, <2>1, WdogEffects
  <2> QED BY <1>0, <2>1, <2>2, SimpleEnd
<1>3. CASE todo = <<Watchdog!W("ip", 0)>>
  <2>1. WdogEffect(Watchdog!W("ip", 0)) /\ todo' = <<>> /\ AtFirst' /\ wdogAsked' = wdogAsked
    BY <1>0, <1>3, LastWrite, WdogAskedFields, WdogWrite
  <2>2. /\ UNCHANGED <<wdogScale, result, wdogEnable, wdogCmp, wdogCount, bites>> 
        /\ WdogBits' /\ rest' = IF wdogEnable = "stop" THEN 0 ELSE rest
    BY <1>0, <2>1, WdogEffects
  <2>3. rest' = rest
    BY <1>0, <2>2
  <2> QED BY <1>0, <2>1, <2>2, <2>3, SimpleEnd
<1> QED BY <1>1, <1>2, <1>3

LEMMA ComparingStep ==
    WdogInv /\ Comparing /\ Watchdog!Write => WdogInv' /\ bites' = bites
<1> SUFFICES ASSUME WdogInv, Comparing, Watchdog!Write
             PROVE  WdogInv' /\ bites' = bites OBVIOUS
<1>0. WdogTyped /\ wdogAsked \in WdogAsked /\ AllAsAsked
      /\ (wdogEnable = "stop" => rest = 0) /\ (wdogEnable # "stop" => rest = wdogCount)
  BY DEF WdogInv, WdogTyped, Comparing
<1>1. PICK t \in 0 .. MaxCmp : todo = <<Watchdog!W("cmp", t)>>
  BY DEF Comparing
<1>2. WdogEffect(Watchdog!W("cmp", t)) /\ todo' = <<>> /\ AtFirst' /\ wdogAsked' = [wdogAsked EXCEPT !["cmp"] = t]
  BY <1>0, <1>1, LastWrite, WdogAskedFields, WdogWrite
<1>3. /\ wdogCmp' = t /\ UNCHANGED <<wdogScale, result, wdogEnable, wdogCount, bites>>
      /\ WdogBits' /\ rest' = rest
  BY <1>0, <1>2, WdogEffects
<1>4. /\ wdogAsked' \in WdogAsked /\ wdogAsked'.scale = wdogAsked.scale /\ wdogAsked'.result = wdogAsked.result
      /\ wdogAsked'.enable = wdogAsked.enable /\ wdogAsked'.cmp = t
  BY <1>0, <1>2, WdogAskedFields
<1>a. t \in 0 .. MaxCmp
  BY WdogConsts
<1>5. WdogTyped'
  BY <1>0, <1>2, <1>3, <1>4, <1>a DEF WdogTyped, AtFirst, AtLater
<1>6. Simple'
  BY <1>0, <1>2, <1>3, <1>4 DEF Simple, AllAsAsked, Scaled, Resulting, Enabled
<1> QED BY <1>0, <1>2, <1>3, <1>4, <1>5, <1>6 DEF WdogInv, AtFirst, AtLater

LEMMA RatingStep ==
    WdogInv /\ Rating /\ Watchdog!Write => WdogInv' /\ bites' = bites
<1> SUFFICES ASSUME WdogInv, Rating, Watchdog!Write
             PROVE  WdogInv' /\ bites' = bites OBVIOUS
<1>0. WdogTyped /\ wdogAsked \in WdogAsked /\ wdogCmp = wdogAsked.cmp /\ Resulting /\ Enabled
      /\ (wdogEnable = "stop" => rest = 0) /\ (wdogEnable # "stop" => rest = wdogCount) /\ 0 \in 0 .. WdogMaxScale
  BY WdogConsts DEF WdogInv, WdogTyped, Rating, Enabled
<1>1. PICK s \in 0 .. WdogMaxScale : \/ todo = <<Watchdog!W("scale", 0), Watchdog!W("scale", s)>>
                                 \/ todo = <<Watchdog!W("scale", s)>>
  BY DEF Rating
<1>2. CASE todo = <<Watchdog!W("scale", s)>>
  <2>1. WdogEffect(Watchdog!W("scale", s)) /\ todo' = <<>> /\ AtFirst' /\ wdogAsked' = [wdogAsked EXCEPT !["scale"] = s]
    BY <1>0, <1>2, LastWrite, WdogAskedFields, WdogWrite
  <2>2. /\ wdogScale' = s /\ UNCHANGED <<wdogCmp, result, wdogEnable, wdogCount, bites>>
        /\ WdogBits' /\ rest' = rest
    BY <1>0, <2>1, WdogEffects
  <2>3. /\ wdogAsked' \in WdogAsked /\ wdogAsked'.scale = s /\ wdogAsked'.result = wdogAsked.result
        /\ wdogAsked'.enable = wdogAsked.enable
        /\ wdogAsked'.cmp = wdogAsked.cmp
    BY <1>0, <2>1, WdogAskedFields
  <2>4. WdogTyped'
    BY <1>0, <2>1, <2>2, <2>3, WdogConsts DEF WdogTyped, AtFirst, AtLater
  <2>5. Simple'
    BY <1>0, <2>1, <2>2, <2>3
       DEF Simple, AllAsAsked, Scaled, Resulting, Enabled
  <2> QED BY <1>0, <2>1, <2>2, <2>3, <2>4, <2>5 DEF WdogInv, AtFirst, AtLater
<1>3. CASE todo = <<Watchdog!W("scale", 0), Watchdog!W("scale", s)>>
  <2>1. WdogEffect(Watchdog!W("scale", 0)) /\ todo' = <<Watchdog!W("scale", s)>> /\ AtLater' /\ wdogAsked' = wdogAsked
    BY <1>3, FirstWrite
  <2>2. /\ wdogScale' = 0 /\ UNCHANGED <<wdogCmp, result, wdogEnable, wdogCount, bites>>
        /\ WdogBits' /\ rest' = rest
    BY <1>0, <2>1, WdogEffects
  <2>3. WdogTyped'
    BY <1>0, <2>1, <2>2, WdogConsts DEF WdogTyped, AtFirst, AtLater
  <2>4. Resulting' /\ Enabled'
    BY <1>0, <2>1, <2>2 DEF Resulting, Enabled
  <2>5. Rating'
    BY <1>1, <2>1, <2>2, <2>4, Zenon DEF Rating, AtFirst, AtLater
  <2> QED BY <1>0, <2>1, <2>2, <2>3, <2>5 DEF WdogInv, AtFirst, AtLater
<1> QED BY <1>1, <1>2, <1>3

LEMMA SettingStep ==
    WdogInv /\ Setting /\ Watchdog!Write => WdogInv' /\ bites' = bites
<1> SUFFICES ASSUME WdogInv, Setting, Watchdog!Write
             PROVE  WdogInv' /\ bites' = bites OBVIOUS
<1>0. WdogTyped /\ wdogAsked \in WdogAsked /\ wdogCmp = wdogAsked.cmp /\ Scaled /\ Enabled
      /\ (wdogEnable = "stop" => rest = 0) /\ (wdogEnable # "stop" => rest = wdogCount)
  BY DEF WdogInv, WdogTyped, Setting
<1>1. PICK r \in Watchdog!Results : \/ todo = <<Watchdog!W("result", "none"), Watchdog!W("result", r)>>
                           \/ todo = <<Watchdog!W("result", r)>>
  BY DEF Setting
<1>2. CASE todo = <<Watchdog!W("result", r)>>
  <2>1. WdogEffect(Watchdog!W("result", r)) /\ todo' = <<>> /\ AtFirst' /\ wdogAsked' = [wdogAsked EXCEPT !["result"] = r]
    BY <1>0, <1>2, LastWrite, WdogAskedFields, WdogWrite
  <2>2. /\ result' = r /\ UNCHANGED <<wdogCmp, wdogScale, wdogEnable, wdogCount, bites>>
        /\ WdogBits' /\ rest' = rest
    BY <1>0, <2>1, WdogEffects
  <2>3. /\ wdogAsked' \in WdogAsked /\ wdogAsked'.scale = wdogAsked.scale /\ wdogAsked'.result = r
        /\ wdogAsked'.enable = wdogAsked.enable
        /\ wdogAsked'.cmp = wdogAsked.cmp
    BY <1>0, <2>1, WdogAskedFields
  <2>4. WdogTyped'
    BY <1>0, <2>1, <2>2, <2>3, WdogConsts DEF WdogTyped, AtFirst, AtLater
  <2>5. Simple'
    BY <1>0, <2>1, <2>2, <2>3
       DEF Simple, AllAsAsked, Scaled, Resulting, Enabled
  <2> QED BY <1>0, <2>1, <2>2, <2>3, <2>4, <2>5 DEF WdogInv, AtFirst, AtLater
<1>3. CASE todo = <<Watchdog!W("result", "none"), Watchdog!W("result", r)>>
  <2>1. WdogEffect(Watchdog!W("result", "none")) /\ todo' = <<Watchdog!W("result", r)>> /\ AtLater' /\ wdogAsked' = wdogAsked
    BY <1>3, FirstWrite
  <2>2. /\ result' = "none" /\ UNCHANGED <<wdogCmp, wdogScale, wdogEnable, wdogCount, bites>>
        /\ WdogBits' /\ rest' = rest
    BY <1>0, <2>1, WdogEffects
  <2>3. WdogTyped'
    BY <1>0, <2>1, <2>2, WdogConsts DEF WdogTyped, Watchdog!Results, AtLater
  <2>4. Scaled' /\ Enabled'
    BY <1>0, <2>1, <2>2 DEF Scaled, Enabled
  <2>5. Setting'
    BY <1>1, <2>1, <2>4, Zenon DEF Setting
  <2> QED BY <1>0, <2>1, <2>2, <2>3, <2>5 DEF WdogInv, AtFirst, AtLater
<1> QED BY <1>1, <1>2, <1>3

LEMMA RunningStep ==
    WdogInv /\ Running /\ Watchdog!Write => WdogInv' /\ bites' = bites
<1> SUFFICES ASSUME WdogInv, Running, Watchdog!Write
             PROVE  WdogInv' /\ bites' = bites OBVIOUS
<1>0. WdogTyped /\ wdogAsked \in WdogAsked /\ wdogCmp = wdogAsked.cmp /\ Scaled /\ Resulting
      /\ (wdogEnable = "stop" => rest = 0) /\ (wdogEnable # "stop" => rest = wdogCount) /\ "stop" \in Watchdog!Runs
      /\ 0 \in 0 .. WdogMaxCount
  BY WdogConsts DEF WdogInv, WdogTyped, Running, Watchdog!Runs
<1>1. PICK o \in Watchdog!Runs :
        \/ todo = <<Watchdog!W("enable", "stop"), Watchdog!W("feed", 0), Watchdog!W("enable", o)>>
        \/ todo = <<Watchdog!W("feed", 0), Watchdog!W("enable", o)>> /\ wdogEnable = "stop"
        \/ todo = <<Watchdog!W("enable", o)>> /\ wdogEnable = "stop" /\ wdogCount = 0
        \/ todo = <<Watchdog!W("enable", o)>> /\ o = "stop"
  BY DEF Running
<1>2. CASE todo = <<Watchdog!W("enable", o)>> /\ (o = "stop" \/ (wdogEnable = "stop" /\ wdogCount = 0))
  <2>1. WdogEffect(Watchdog!W("enable", o)) /\ todo' = <<>> /\ AtFirst' /\ wdogAsked' = [wdogAsked EXCEPT !["enable"] = o]
    BY <1>0, <1>2, LastWrite, WdogAskedFields, WdogWrite
  <2>2. /\ wdogEnable' = o /\ UNCHANGED <<wdogCmp, wdogScale, result, wdogCount, bites>>
        /\ WdogBits'
        /\ rest' = IF o = "stop" THEN 0 ELSE rest
    BY <1>0, <2>1, WdogEffects
  <2>3. /\ wdogAsked' \in WdogAsked /\ wdogAsked'.scale = wdogAsked.scale /\ wdogAsked'.result = wdogAsked.result
        /\ wdogAsked'.enable = o /\ wdogAsked'.cmp = wdogAsked.cmp
    BY <1>0, <2>1, WdogAskedFields
  <2>4. rest' \in 0 .. WdogMaxCount /\ (o = "stop" => rest' = 0) /\ (o # "stop" => rest' = wdogCount)
    BY <1>0, <1>2, <2>2 DEF WdogTyped
  <2>5. WdogTyped'
    BY <1>0, <2>1, <2>2, <2>3, <2>4 DEF WdogTyped, AtFirst, AtLater
  <2>6. Simple'
    BY <1>0, <2>1, <2>2, <2>3
       DEF Simple, AllAsAsked, Scaled, Resulting, Enabled
  <2> QED BY <1>0, <2>1, <2>2, <2>3, <2>4, <2>5, <2>6 DEF WdogInv, AtFirst, AtLater
<1>3. CASE todo = <<Watchdog!W("feed", 0), Watchdog!W("enable", o)>> /\ wdogEnable = "stop"
  <2>1. WdogEffect(Watchdog!W("feed", 0)) /\ todo' = <<Watchdog!W("enable", o)>> /\ AtLater' /\ wdogAsked' = wdogAsked
    BY <1>3, FirstWrite
  <2>2. /\ UNCHANGED <<wdogCmp, wdogScale, result, wdogEnable, bites>> /\ wdogCount' = 0
        /\ WdogBits' /\ rest' = 0
    BY <1>0, <2>1, WdogEffects
  <2>3. WdogTyped'
    BY <1>0, <2>1, <2>2 DEF WdogTyped, AtFirst, AtLater
  <2>4. Scaled' /\ Resulting'
    BY <1>0, <2>1, <2>2 DEF Scaled, Resulting
  <2>5. wdogEnable' = "stop"
    BY <1>3, <2>2
  <2>6. Running'
    BY <1>1, <2>1, <2>2, <2>4, <2>5, Zenon DEF Running
  <2> QED BY <1>0, <2>1, <2>2, <2>3, <2>5, <2>6 DEF WdogInv, AtFirst, AtLater
<1>4. CASE todo = <<Watchdog!W("enable", "stop"), Watchdog!W("feed", 0), Watchdog!W("enable", o)>>
  <2>1. WdogEffect(Watchdog!W("enable", "stop")) /\ todo' = <<Watchdog!W("feed", 0), Watchdog!W("enable", o)>> /\ AtLater' /\ wdogAsked' = wdogAsked
    BY <1>4, FirstOfThree
  <2>2. /\ UNCHANGED <<wdogCmp, wdogScale, result, wdogCount, bites>> /\ wdogEnable' = "stop"
        /\ WdogBits' /\ rest' = 0
    BY <1>0, <2>1, WdogEffects
  <2>3. WdogTyped'
    BY <1>0, <2>1, <2>2 DEF WdogTyped, AtFirst, AtLater
  <2>4. Scaled' /\ Resulting'
    BY <1>0, <2>1, <2>2 DEF Scaled, Resulting
  <2>5. Running'
    BY <1>1, <2>1, <2>2, <2>4, Zenon DEF Running
  <2> QED BY <1>0, <2>1, <2>2, <2>3, <2>5 DEF WdogInv, AtFirst, AtLater
<1>5. CASE todo = <<Watchdog!W("enable", o)>> /\ wdogEnable = "stop" /\ wdogCount = 0
  BY <1>2, <1>5
<1>6. CASE todo = <<Watchdog!W("enable", o)>> /\ o = "stop"
  BY <1>2, <1>6
<1> QED BY <1>1, <1>3, <1>4, <1>5, <1>6, Zenon

(* The invariant is kept, and the watchdog never fires early (NeverEarly).   *)
LEMMA WdogInductive ==
    ASSUME WdogInv, [Watchdog!Next]_Watchdog!vars
    PROVE  WdogInv' /\ (bites' # bites => bites' >= wdogAsked.cmp * 2 ^ Watchdog!ScaleNow)
<1>1. CASE Watchdog!Write
  BY <1>1, SimpleStep, ComparingStep, RatingStep, SettingStep, RunningStep
     DEF WdogInv
<1>2. CASE Watchdog!Unlock \/ UNCHANGED Watchdog!vars
  <2>1. /\ unlocked' \in BOOLEAN /\ seenIp' \in BOOLEAN
        /\ UNCHANGED <<wdogScale, result, wdogEnable, wdogIp, wdogCmp, wdogCount, todo, first, wdogAsked, rest, bites>>
    BY <1>2 DEF Watchdog!Unlock, Watchdog!vars, Watchdog!cfg, WdogInv, WdogTyped, WdogBits
  <2>2. WdogTyped'
    BY <2>1 DEF WdogInv, WdogTyped, WdogBits
  <2>3. (Simple \/ Comparing \/ Rating \/ Setting \/ Running)'
    BY <2>1
       DEF WdogInv, Simple, Comparing, Rating, Setting, Running, AllAsAsked,
           Scaled, Resulting, Enabled
  <2> QED BY <2>1, <2>2, <2>3 DEF WdogInv
<1> QED
  BY <1>1, <1>2, WdogTickStep, WdogResetStep, WdogCallsStep DEF Watchdog!Next

(* When no call runs the registers hold what was asked for.                  *)
LEMMA WdogFollows == WdogInv => Watchdog!TypeOK /\ Watchdog!CallsTakeEffect
<1> SUFFICES ASSUME WdogInv
             PROVE  Watchdog!TypeOK /\ Watchdog!CallsTakeEffect OBVIOUS
<1>1. Len(todo) <= 3
  <2>1. \E a, b, c : todo = <<>> \/ todo = <<a>> \/ todo = <<a, b>> \/ todo = <<a, b, c>>
    BY Zenon DEF WdogInv, Simple, Comparing, Rating, Setting, Running
  <2>2. PICK a, b, c : todo = <<>> \/ todo = <<a>> \/ todo = <<a, b>> \/ todo = <<a, b, c>>
    BY <2>1
  <2>3. Len(<<>>) = 0 /\ Len(<<a>>) = 1 /\ Len(<<a, b>>) = 2 /\ Len(<<a, b, c>>) = 3
    OBVIOUS
  <2>4. Len(todo) = 0 \/ Len(todo) = 1 \/ Len(todo) = 2 \/ Len(todo) = 3
    BY <2>2, <2>3, Zenon
  <2>5. \A n : n = 0 \/ n = 1 \/ n = 2 \/ n = 3 => n <= 3
    OBVIOUS
  <2> QED BY <2>4, <2>5, Zenon
<1>2. Watchdog!TypeOK
  BY <1>1 DEF WdogInv, WdogTyped, WdogBits, Watchdog!TypeOK, WdogAsked
<1>3. todo = <<>> => Simple
  <2>1. ASSUME NEW a, NEW b, NEW c
        PROVE  <<a>> # <<>> /\ <<a, b>> # <<>> /\ <<a, b, c>> # <<>>
    OBVIOUS
  <2>2. Comparing \/ Rating \/ Setting \/ Running => todo # <<>>
    BY <2>1, Zenon DEF Comparing, Rating, Setting, Running
  <2> QED BY <2>2 DEF WdogInv
<1>4. Watchdog!CallsTakeEffect
  BY <1>3
     DEF WdogInv, Watchdog!CallsTakeEffect, Simple, AllAsAsked, Scaled,
         Resulting, Enabled
<1> QED BY <1>2, <1>4

-----------------------------------------------------------------------------
(* The RTC.                                                                   *)

LEMMA RtcAssumed == Rtc!RtcAssumption
  BY Instances

(* The compare values are those that one shift brings into the register.  A  *)
(* larger one is the disagreement that the README names (sifive_rtc0.c:60).  *)
LEMMA RtcComparesFit == \A c \in Compares : c < 2 * RtcWord
  BY Instances


-----------------------------------------------------------------------------
RtcWords == 0 .. RtcWord - 1
RtcOps == [at : {"idle", "compare", "read", "low"}, value : Nat, high : RtcWords]
RtcCounts == {0, RtcWord - 1, RtcMaxCount}

RtcTyped ==
    /\ rtcHi \in RtcWords /\ rtcLo \in RtcWords /\ rtcOn \in BOOLEAN
    /\ rtcScale \in 0 .. RtcMaxScale /\ rtcCmp \in RtcWords /\ rtcOp \in RtcOps
    /\ rtcAsked \in Compares \cup {0}
    /\ rtcSeen \in [value : 0 .. RtcWord * RtcWord - 1, count : 0 .. RtcMaxCount]

\* The compare register, and what a call has written of it.
RtcComparing ==
    /\ rtcOp.at = "compare" => rtcOp.value \in Compares /\ rtcScale = Rtc!Times(rtcOp.value) % (RtcMaxScale + 1)
    /\ rtcOp.at # "compare" => rtcCmp * 2 ^ rtcScale <= rtcAsked /\ rtcAsked < (rtcCmp + 1) * 2 ^ rtcScale

\* The two words of the count: what is set, with the clock stopped, and what is
\* read, of which the upper word is not ahead.
RtcCounting ==
    /\ rtcOp.at = "low" => ~rtcOn /\ rtcOp.value \in RtcCounts /\ rtcHi = rtcOp.value \div RtcWord
    /\ rtcOp.at # "low" => Rtc!Count <= RtcMaxCount
    /\ rtcOp.at = "read" => rtcOp.high <= rtcHi

(* The invariant of the RTC: a count that is read is not ahead.              *)
RtcInv == RtcTyped /\ RtcComparing /\ RtcCounting /\ rtcSeen.value <= rtcSeen.count

(* What the assumption says of the constants.                                *)
LEMMA RtcConsts ==
    /\ RtcWord \in Nat \ {0} /\ RtcWord > 1 /\ RtcMaxScale \in Nat
    /\ RtcMaxScale > 0 /\ RtcMaxCount \in Nat
    /\ RtcWord - 1 <= RtcMaxCount /\ RtcMaxCount < RtcWord * RtcWord
    /\ RtcWord * RtcWord \in Nat /\ Compares \subseteq Nat
<1>1. RtcWord \in Nat /\ RtcWord > 1 /\ RtcMaxScale \in Nat /\ RtcMaxScale > 0 /\ RtcMaxCount \in Nat
      /\ RtcWord - 1 <= RtcMaxCount /\ RtcMaxCount < RtcWord * RtcWord
      /\ Compares \subseteq Nat
  BY RtcAssumed DEF Rtc!RtcAssumption
<1> QED BY <1>1

LEMMA RtcPowers == 2 ^ 0 = 1 /\ 2 ^ 1 = 2
<1>1. 2 ^ 0 = 1
  BY SMT
<1>2. 2 ^ 1 = 2
  BY SMT
<1> QED BY <1>1, <1>2

LEMMA RtcValueOf ==
    ASSUME NEW h \in RtcWords, NEW l \in RtcWords
    PROVE  h * RtcWord + l \in 0 .. RtcWord * RtcWord - 1 /\ h * RtcWord \in Nat
<1>. DEFINE W == RtcWord
<1>1. W \in Nat /\ W > 1 /\ h \in 0 .. W - 1 /\ l \in 0 .. W - 1
  BY RtcConsts DEF RtcWords
<1>. HIDE DEF W
<1>2. h * W <= (W - 1) * W /\ h * W \in Nat
  BY <1>1
<1>3. (W - 1) * W = W * W - W /\ W * W \in Nat
  BY <1>1
<1>4. h * W + l \in 0 .. W * W - 1
  BY <1>1, <1>2, <1>3
<1> QED BY <1>2, <1>4 DEF W

\* A value that fits is not shifted; one that needs a bit more is, once.
LEMMA ShiftsOnce ==
    ASSUME NEW v \in Compares
    PROVE  \/ v < RtcWord /\ Rtc!Times(v) = 0
           \/ v \div 2 < RtcWord /\ Rtc!Times(v) = 1
<1>. DEFINE P(k) == v \div 2 ^ ((k * (k + 1)) \div 2) < RtcWord
            S == {k \in 0 .. 6 : P(k)}
<1>1. Rtc!Times(v) = Rtc!Min(S)
  BY DEF Rtc!Times
<1>2. v \in Nat /\ v < 2 * RtcWord
  BY RtcComparesFit, RtcConsts
<1>3. P(0) <=> v < RtcWord
  <2>1. (0 * (0 + 1)) \div 2 = 0
    BY SMT
  <2>2. v \div 1 = v
    BY <1>2
  <2> QED BY <2>1, <2>2, RtcPowers
<1>4. P(1) <=> v \div 2 < RtcWord
  <2>1. (1 * (1 + 1)) \div 2 = 1
    BY SMT
  <2> QED BY <2>1, RtcPowers
<1>5. v \div 2 < RtcWord
  BY <1>2, RtcConsts
<1>6. 1 \in S /\ S \subseteq 0 .. 6 /\ (0 \in S <=> v < RtcWord)
  BY <1>3, <1>4, <1>5
<1>. HIDE DEF S, P
<1>7. CASE v < RtcWord
  <2>1. 0 \in S /\ \A y \in S : 0 <= y
    BY <1>6, <1>7
  <2>2. \A x \in S : (\A y \in S : x <= y) => x = 0
    BY <1>6, <2>1
  <2>3. Rtc!Min(S) = 0
    BY <2>1, <2>2 DEF Rtc!Min
  <2> QED BY <1>1, <1>7, <2>3
<1>8. CASE ~(v < RtcWord)
  <2>1. 1 \in S /\ \A y \in S : 1 <= y
    BY <1>6, <1>8
  <2>2. \A x \in S : (\A y \in S : x <= y) => x = 1
    BY <1>6, <2>1
  <2>3. Rtc!Min(S) = 1
    BY <2>1, <2>2 DEF Rtc!Min
  <2> QED BY <1>1, <1>5, <2>3
<1> QED BY <1>7, <1>8

LEMMA RtcOpWith ==
    ASSUME NEW a \in {"idle", "compare", "read", "low"}, NEW v \in Nat,
           NEW h \in RtcWords
    PROVE  [at |-> a, value |-> v, high |-> h] \in RtcOps
  BY DEF RtcOps

LEMMA RtcZero ==
    0 \in RtcWords /\ 0 \in 0 .. RtcWord * RtcWord - 1 /\ 0 \in 0 .. RtcMaxCount
  BY RtcConsts DEF RtcWords

LEMMA RtcInitially == Rtc!Init => RtcInv
<1> SUFFICES ASSUME Rtc!Init PROVE RtcInv OBVIOUS
<1>1. rtcHi = 0 /\ rtcLo = 0 /\ rtcOn = FALSE /\ rtcScale = 0 /\ rtcCmp = 0 /\ rtcAsked = 0
      /\ rtcOp = [at |-> "idle", value |-> 0, high |-> 0]
      /\ rtcSeen = [value |-> 0, count |-> 0]
  BY DEF Rtc!Init, Rtc!Idle
<1>a. rtcOp \in RtcOps /\ rtcSeen \in [value : 0 .. RtcWord * RtcWord - 1, count : 0 .. RtcMaxCount]
  BY <1>1, RtcZero, RtcOpWith
<1>2. RtcTyped
  <2>1. rtcScale \in 0 .. RtcMaxScale
    BY <1>1, RtcConsts
  <2>2. rtcHi \in RtcWords /\ rtcLo \in RtcWords /\ rtcCmp \in RtcWords
    BY <1>1, RtcZero
  <2>3. rtcOn \in BOOLEAN /\ rtcAsked \in Compares \cup {0}
    BY <1>1
  <2> QED BY <1>a, <2>1, <2>2, <2>3 DEF RtcTyped
<1>3. RtcComparing
  BY <1>1, RtcPowers DEF RtcComparing
<1>4. Rtc!Count = 0
  BY <1>1, RtcConsts DEF Rtc!Count
<1>5. RtcCounting
  BY <1>1, <1>4, RtcConsts DEF RtcCounting
<1> QED BY <1>1, <1>2, <1>3, <1>5 DEF RtcInv

LEMMA RtcTickStep == RtcInv /\ Rtc!Tick => RtcInv'
<1> SUFFICES ASSUME RtcInv, Rtc!Tick PROVE RtcInv' OBVIOUS
<1>0. RtcTyped /\ RtcComparing /\ RtcCounting /\ rtcSeen.value <= rtcSeen.count
  BY DEF RtcInv
<1>1. /\ rtcOn /\ Rtc!Count < RtcMaxCount /\ rtcLo' = (rtcLo + 1) % RtcWord
      /\ rtcHi' = IF rtcLo + 1 = RtcWord THEN rtcHi + 1 ELSE rtcHi
      /\ UNCHANGED <<rtcOn, rtcScale, rtcCmp, rtcOp, rtcAsked, rtcSeen>>
  BY DEF Rtc!Tick
<1>2. rtcHi \in RtcWords /\ rtcLo \in RtcWords /\ rtcHi * RtcWord \in Nat /\ rtcHi \in Nat /\ rtcLo \in Nat /\ rtcLo < RtcWord
  BY <1>0, RtcValueOf, RtcConsts DEF RtcTyped, RtcWords
<1>3. CASE rtcLo + 1 < RtcWord
  <2>1. rtcLo' = rtcLo + 1 /\ rtcHi' = rtcHi
    BY <1>1, <1>2, <1>3, RtcConsts
  <2>2. rtcLo' \in RtcWords /\ rtcHi' \in RtcWords
    BY <1>2, <1>3, <2>1, RtcConsts DEF RtcWords
  <2>3. Rtc!Count' <= RtcMaxCount
    BY <1>1, <1>2, <2>1, RtcConsts DEF Rtc!Count
  <2>4. RtcTyped' /\ RtcComparing'
    BY <1>0, <1>1, <2>2 DEF RtcTyped, RtcComparing
  <2>5. RtcCounting'
    BY <1>0, <1>1, <2>1, <2>3 DEF RtcCounting
  <2> QED BY <1>0, <1>1, <2>4, <2>5 DEF RtcInv
<1>4. CASE rtcLo + 1 = RtcWord
  <2>1. rtcLo' = 0 /\ rtcHi' = rtcHi + 1
    BY <1>1, <1>2, <1>4, RtcConsts
  <2>2. (rtcHi + 1) * RtcWord = rtcHi * RtcWord + RtcWord
    BY <1>2, RtcConsts
  <2>3. (rtcHi + 1) * RtcWord <= RtcMaxCount
    BY <1>1, <1>2, <1>4, <2>2, RtcConsts DEF Rtc!Count
  <2>4. rtcHi + 1 < RtcWord
    <3>1. SUFFICES ASSUME RtcWord <= rtcHi + 1 PROVE FALSE
      BY <1>2, RtcConsts
    <3>2. RtcWord * RtcWord <= (rtcHi + 1) * RtcWord
      BY <1>2, <3>1, RtcConsts
    <3> QED BY <1>2, <2>2, <2>3, <3>2, RtcConsts
  <2>5. rtcLo' \in RtcWords /\ rtcHi' \in RtcWords
    BY <1>2, <2>1, <2>4, RtcZero, RtcConsts DEF RtcWords
  <2>6. Rtc!Count' <= RtcMaxCount
    BY <1>2, <2>1, <2>2, <2>3, RtcConsts DEF Rtc!Count
  <2>7. RtcTyped' /\ RtcComparing'
    BY <1>0, <1>1, <2>5 DEF RtcTyped, RtcComparing
  <2>8. rtcOp.at = "read" => rtcOp.high <= rtcHi + 1
    <3>1. rtcOp.high \in Nat
      BY <1>0, RtcConsts DEF RtcTyped, RtcOps, RtcWords
    <3> QED BY <1>0, <1>2, <3>1 DEF RtcCounting
  <2>9. RtcCounting'
    BY <1>0, <1>1, <2>1, <2>6, <2>8 DEF RtcCounting
  <2> QED BY <1>0, <1>1, <2>7, <2>9 DEF RtcInv
<1> QED BY <1>2, <1>3, <1>4, RtcConsts

LEMMA SetCompareStep ==
    ASSUME RtcInv, NEW compare \in Compares, Rtc!SetCompare(compare)
    PROVE  RtcInv'
<1>0. RtcTyped /\ RtcCounting /\ rtcSeen.value <= rtcSeen.count
  BY DEF RtcInv
<1>1. /\ rtcOp = Rtc!Idle /\ rtcScale' = Rtc!Times(compare) % (RtcMaxScale + 1)
      /\ rtcOp' = [at |-> "compare", value |-> compare, high |-> 0]
      /\ UNCHANGED <<rtcHi, rtcLo, rtcOn, rtcCmp, rtcAsked, rtcSeen>>
  BY DEF Rtc!SetCompare, Rtc!Idle, Rtc!counter
<1>2. Rtc!Times(compare) \in Nat
  BY ShiftsOnce
<1>3. rtcScale' \in 0 .. RtcMaxScale
  BY <1>1, <1>2, RtcConsts
<1>4. rtcOp' \in RtcOps /\ rtcOp'.at = "compare" /\ rtcOp'.value = compare
  BY <1>1, RtcZero, RtcOpWith, RtcConsts
<1>5. RtcTyped'
  BY <1>0, <1>1, <1>3, <1>4 DEF RtcTyped
<1>6. RtcComparing'
  BY <1>1, <1>4 DEF RtcComparing, Rtc!Times
<1>7. RtcCounting'
  BY <1>0, <1>1, <1>4 DEF RtcCounting, Rtc!Idle, Rtc!Count
<1> QED BY <1>0, <1>1, <1>5, <1>6, <1>7 DEF RtcInv

LEMMA WriteCompareStep == RtcInv /\ Rtc!WriteCompare => RtcInv'
<1> SUFFICES ASSUME RtcInv, Rtc!WriteCompare PROVE RtcInv' OBVIOUS
<1>. DEFINE k == Rtc!Times(rtcOp.value)
            v == rtcOp.value
            c == (v \div 2 ^ ((k * (k + 1)) \div 2)) % RtcWord
<1>0. RtcTyped /\ RtcComparing /\ RtcCounting /\ rtcSeen.value <= rtcSeen.count
  BY DEF RtcInv
<1>1. /\ rtcOp.at = "compare" /\ rtcCmp' = c /\ rtcAsked' = v
      /\ rtcOp' = [at |-> "idle", value |-> 0, high |-> 0]
      /\ UNCHANGED <<rtcHi, rtcLo, rtcOn, rtcScale, rtcSeen>>
  BY DEF Rtc!WriteCompare, Rtc!Idle, Rtc!counter
<1>2. v \in Compares /\ v \in Nat /\ rtcScale = k % (RtcMaxScale + 1)
  BY <1>0, <1>1, RtcConsts DEF RtcComparing
<1>3. c \in RtcWords /\ c * 2 ^ rtcScale <= v /\ v < (c + 1) * 2 ^ rtcScale
  <2>1. CASE v < RtcWord /\ k = 0
    <3>1. (0 * (0 + 1)) \div 2 = 0
      BY SMT
    <3>2. v \div 1 = v
      BY <1>2
    <3>3. c = v % RtcWord
      BY <2>1, <3>1, <3>2, RtcPowers
    <3>4. c = v
      BY <1>2, <2>1, <3>3, RtcConsts
    <3>5. rtcScale = 0
      BY <1>2, <2>1, RtcConsts
    <3>. HIDE DEF c
    <3>6. c \in RtcWords
      BY <1>2, <2>1, <3>4, RtcConsts DEF RtcWords
    <3>7. 2 ^ rtcScale = 1
      BY <3>5, RtcPowers
    <3>8. v * 1 <= v /\ v < (v + 1) * 1
      BY <1>2
    <3> QED BY <3>4, <3>6, <3>7, <3>8
  <2>2. CASE v \div 2 < RtcWord /\ k = 1
    <3>. DEFINE q == v \div 2
    <3>1. (1 * (1 + 1)) \div 2 = 1
      BY SMT
    <3>2. c = q % RtcWord
      BY <2>2, <3>1, RtcPowers
    <3>3. q \in Nat /\ q < RtcWord /\ 2 * q <= v /\ v < 2 * (q + 1)
      BY <1>2, <2>2
    <3>4. rtcScale = 1
      BY <1>2, <2>2, RtcConsts
    <3>. HIDE DEF c, q
    <3>5. c = q
      BY <3>2, <3>3, RtcConsts
    <3>6. c \in RtcWords
      BY <3>3, <3>5, RtcConsts DEF RtcWords
    <3>7. 2 ^ rtcScale = 2
      BY <3>4, RtcPowers
    <3>8. q * 2 <= v /\ v < (q + 1) * 2
      BY <1>2, <3>3
    <3> QED BY <3>5, <3>6, <3>7, <3>8
  <2> QED BY <1>2, <2>1, <2>2, ShiftsOnce
<1>4. rtcOp' \in RtcOps /\ rtcOp'.at = "idle"
  BY <1>1, RtcZero, RtcOpWith
<1>. HIDE DEF c, k
<1>5. RtcTyped'
  BY <1>0, <1>1, <1>2, <1>3, <1>4 DEF RtcTyped
<1>6. RtcComparing'
  BY <1>1, <1>3, <1>4 DEF RtcComparing
<1>7. RtcCounting'
  BY <1>0, <1>1, <1>4 DEF RtcCounting, Rtc!Count
<1> QED BY <1>0, <1>1, <1>5, <1>6, <1>7 DEF RtcInv

LEMMA SetCountStep ==
    ASSUME RtcInv, NEW n \in RtcCounts, ~rtcOn, Rtc!SetCount(n)
    PROVE  RtcInv'
<1>0. RtcTyped /\ RtcComparing /\ RtcCounting /\ rtcSeen.value <= rtcSeen.count
  BY DEF RtcInv
<1>1. /\ rtcOp = Rtc!Idle /\ rtcHi' = n \div RtcWord /\ rtcOp' = [at |-> "low", value |-> n, high |-> 0]
      /\ UNCHANGED <<rtcLo, rtcOn, rtcScale, rtcCmp, rtcAsked, rtcSeen>>
  BY DEF Rtc!SetCount, Rtc!Idle
<1>2. n \in Nat /\ n < RtcWord * RtcWord
  <2>1. n = 0 \/ n = RtcWord - 1 \/ n = RtcMaxCount
    BY DEF RtcCounts
  <2>2. 0 < RtcWord * RtcWord /\ RtcWord - 1 < RtcWord * RtcWord
    BY RtcConsts
  <2> QED BY <2>1, <2>2, RtcConsts
<1>3. n \div RtcWord \in RtcWords
  <2>. DEFINE q == n \div RtcWord  r == n % RtcWord
  <2>1. q \in Nat /\ r \in 0 .. RtcWord - 1 /\ n = RtcWord * q + r
    BY <1>2, DivNat, RtcConsts
  <2>. HIDE DEF q, r
  <2>2. SUFFICES ASSUME RtcWord <= q PROVE FALSE
    BY <2>1, RtcConsts DEF RtcWords, q
  <2>3. RtcWord * RtcWord <= RtcWord * q
    BY <2>1, <2>2, RtcConsts
  <2> QED BY <1>2, <2>1, <2>3, RtcConsts
<1>4. rtcOp' \in RtcOps /\ rtcOp'.at = "low" /\ rtcOp'.value = n
  BY <1>1, <1>2, RtcZero, RtcOpWith
<1>5. RtcTyped'
  BY <1>0, <1>1, <1>3, <1>4 DEF RtcTyped
<1>6. RtcComparing'
  BY <1>0, <1>1, <1>4 DEF RtcComparing, Rtc!Idle
<1>7. RtcCounting'
  BY <1>1, <1>4 DEF RtcCounting, RtcCounts
<1> QED BY <1>0, <1>1, <1>5, <1>6, <1>7 DEF RtcInv

LEMMA WriteLowStep == RtcInv /\ Rtc!WriteLow => RtcInv'
<1> SUFFICES ASSUME RtcInv, Rtc!WriteLow PROVE RtcInv' OBVIOUS
<1>. DEFINE n == rtcOp.value
<1>0. RtcTyped /\ RtcComparing /\ RtcCounting /\ rtcSeen.value <= rtcSeen.count
  BY DEF RtcInv
<1>1. /\ rtcOp.at = "low" /\ rtcLo' = n % RtcWord
      /\ rtcOp' = [at |-> "read", value |-> 0, high |-> rtcHi]
      /\ UNCHANGED <<rtcHi, rtcOn, rtcScale, rtcCmp, rtcAsked, rtcSeen>>
  BY DEF Rtc!WriteLow, Rtc!Idle
<1>2. n \in RtcCounts /\ rtcHi = n \div RtcWord /\ rtcHi \in RtcWords /\ n \in Nat /\ n <= RtcMaxCount
  BY <1>0, <1>1, RtcConsts DEF RtcCounting, RtcTyped, RtcCounts
<1>3. rtcLo' \in RtcWords /\ n = RtcWord * rtcHi + rtcLo'
  BY <1>1, <1>2, DivNat, RtcConsts DEF RtcWords
<1>4. Rtc!Count' = n
  <2>1. RtcWord * rtcHi = rtcHi * RtcWord
    BY <1>2, RtcConsts DEF RtcWords
  <2> QED BY <1>1, <1>3, <2>1 DEF Rtc!Count
<1>5. rtcOp' \in RtcOps /\ rtcOp'.at = "read" /\ rtcOp'.high = rtcHi
  BY <1>1, <1>2, RtcOpWith
<1>6. RtcTyped'
  BY <1>0, <1>1, <1>3, <1>5 DEF RtcTyped
<1>7. RtcComparing'
  BY <1>0, <1>1, <1>5 DEF RtcComparing
<1>8. RtcCounting'
  <2>1. rtcHi <= rtcHi
    BY <1>2 DEF RtcWords
  <2> QED BY <1>1, <1>2, <1>4, <1>5, <2>1 DEF RtcCounting
<1> QED BY <1>0, <1>1, <1>6, <1>7, <1>8 DEF RtcInv

LEMMA EndGetCountStep == RtcInv /\ Rtc!EndGetCount => RtcInv'
<1> SUFFICES ASSUME RtcInv, Rtc!EndGetCount PROVE RtcInv' OBVIOUS
<1>. DEFINE n == rtcOp.high * RtcWord + rtcLo
<1>0. RtcTyped /\ RtcComparing /\ RtcCounting /\ rtcSeen.value <= rtcSeen.count
  BY DEF RtcInv
<1>1. /\ rtcOp.at = "read" /\ rtcSeen' = [value |-> n, count |-> Rtc!Count]
      /\ rtcOp' = [at |-> "idle", value |-> 0, high |-> 0]
      /\ UNCHANGED <<rtcHi, rtcLo, rtcOn, rtcScale, rtcCmp, rtcAsked>>
  BY DEF Rtc!EndGetCount, Rtc!FirstRead, Rtc!Idle, Rtc!counter
<1>2. rtcOp.high \in RtcWords /\ rtcHi \in RtcWords /\ rtcLo \in RtcWords /\ rtcOp.high <= rtcHi /\ Rtc!Count <= RtcMaxCount
  BY <1>0, <1>1 DEF RtcTyped, RtcOps, RtcCounting
<1>3. n \in 0 .. RtcWord * RtcWord - 1 /\ Rtc!Count \in 0 .. RtcMaxCount /\ n <= Rtc!Count
  <2>1. n \in 0 .. RtcWord * RtcWord - 1 /\ Rtc!Count \in 0 .. RtcWord * RtcWord - 1
    BY <1>2, RtcValueOf DEF Rtc!Count
  <2>2. rtcOp.high * RtcWord <= rtcHi * RtcWord
    BY <1>2, RtcConsts DEF RtcWords
  <2>3. n <= Rtc!Count
    BY <1>2, <2>2, RtcValueOf, RtcConsts DEF Rtc!Count, RtcWords
  <2>4. Rtc!Count \in 0 .. RtcMaxCount
    BY <1>2, <2>1, RtcConsts
  <2> QED BY <2>1, <2>3, <2>4
<1>4. rtcOp' \in RtcOps /\ rtcOp'.at = "idle"
  BY <1>1, RtcZero, RtcOpWith
<1>. HIDE DEF n
<1>5. rtcSeen' \in [value : 0 .. RtcWord * RtcWord - 1, count : 0 .. RtcMaxCount] /\ rtcSeen'.value <= rtcSeen'.count
  BY <1>1, <1>3
<1>6. RtcTyped'
  BY <1>0, <1>1, <1>4, <1>5 DEF RtcTyped
<1>7. RtcComparing'
  BY <1>0, <1>1, <1>4 DEF RtcComparing
<1>8. RtcCounting'
  BY <1>0, <1>1, <1>4 DEF RtcCounting, Rtc!Count
<1> QED BY <1>5, <1>6, <1>7, <1>8 DEF RtcInv

(* The invariant is kept by the clock and by every step of a call.           *)
LEMMA RtcInductive == RtcInv /\ [Rtc!Next]_Rtc!vars => RtcInv'
<1> SUFFICES ASSUME RtcInv, [Rtc!Next]_Rtc!vars PROVE RtcInv' OBVIOUS
<1>0. RtcTyped /\ RtcComparing /\ RtcCounting /\ rtcSeen.value <= rtcSeen.count
  BY DEF RtcInv
<1>1. ASSUME NEW option \in BOOLEAN, Rtc!Run(option) PROVE RtcInv'
  <2>1. rtcOp = Rtc!Idle /\ rtcOn' = option /\ UNCHANGED <<rtcHi, rtcLo, rtcScale, rtcCmp, rtcOp, rtcAsked, rtcSeen>>
    BY <1>1 DEF Rtc!Run, Rtc!counter
  <2>2. RtcTyped' /\ RtcComparing'
    BY <1>0, <2>1 DEF RtcTyped, RtcComparing
  <2>3. RtcCounting'
    BY <1>0, <2>1 DEF RtcCounting, Rtc!Idle, Rtc!Count
  <2> QED BY <1>0, <2>1, <2>2, <2>3 DEF RtcInv
<1>2. CASE Rtc!BeginGetCount
  <2>1. rtcOp = Rtc!Idle /\ rtcOp' = [at |-> "read", value |-> 0, high |-> rtcHi]
        /\ UNCHANGED <<rtcHi, rtcLo, rtcOn, rtcScale, rtcCmp, rtcAsked, rtcSeen>>
    BY <1>2 DEF Rtc!BeginGetCount, Rtc!FirstRead, Rtc!Idle, Rtc!counter
  <2>2. rtcOp' \in RtcOps /\ rtcOp'.at = "read" /\ rtcOp'.high = rtcHi /\ rtcHi <= rtcHi
    BY <1>0, <2>1, RtcOpWith, RtcConsts DEF RtcTyped, RtcWords
  <2>3. RtcTyped' /\ RtcComparing'
    BY <1>0, <2>1, <2>2 DEF RtcTyped, RtcComparing, Rtc!Idle
  <2>4. RtcCounting'
    BY <1>0, <2>1, <2>2 DEF RtcCounting, Rtc!Idle, Rtc!Count
  <2> QED BY <1>0, <2>1, <2>3, <2>4 DEF RtcInv
<1>3. CASE UNCHANGED Rtc!vars
  BY <1>0, <1>3
     DEF Rtc!vars, RtcInv, RtcTyped, RtcComparing, RtcCounting, Rtc!Count
<1> QED
  BY <1>1, <1>2, <1>3, RtcTickStep, SetCompareStep, WriteCompareStep,
     SetCountStep, WriteLowStep,
           EndGetCountStep DEF Rtc!Next, RtcCounts

(* The compare register is what was asked, as far as its scale can say; a    *)
(* count that is read is not ahead of the clock.                             *)
LEMMA RtcFollows ==
    RtcInv => Rtc!TypeOK /\ Rtc!CompareIsAsked /\ Rtc!NeverAhead
<1> SUFFICES ASSUME RtcInv
             PROVE  Rtc!TypeOK /\ Rtc!CompareIsAsked /\ Rtc!NeverAhead OBVIOUS
<1>1. Rtc!TypeOK
  BY DEF RtcInv, RtcTyped, Rtc!TypeOK, RtcOps, RtcWords
<1>2. Rtc!CompareIsAsked /\ Rtc!NeverAhead
  BY DEF RtcInv, RtcComparing, Rtc!CompareIsAsked, Rtc!NeverAhead
<1> QED BY <1>1, <1>2

-----------------------------------------------------------------------------
(* The GPIO.                                                                  *)

LEMMA GpioAssumed == Gpio!GpioAssumption
  BY Instances

\* The pins that a type is enabled for are those that are configured for it.
EnabledWanted == \A p \in Pins, t \in PinTypes : p \in ie[t] <=> t \in gpioWants[p]

GpioOpTyped ==
    /\ gpioOp = [todo |-> gpioOp.todo, pin |-> gpioOp.pin, read |-> gpioOp.read, seen |-> gpioOp.seen]
    /\ gpioOp.pin \in Pins /\ gpioOp.read \in BOOLEAN
    /\ gpioOp.seen \in SUBSET Pins
    /\ gpioOp.todo \in Seq(PinTypes) /\ (gpioOp.read => gpioOp.todo # <<>>)

GpioTyped ==
    /\ input \in SUBSET Pins /\ output \in SUBSET Pins /\ port \in SUBSET Pins
    /\ mux \in SUBSET Pins /\ sel \in SUBSET Pins /\ high \in SUBSET Pins
    /\ ie \in [PinTypes -> SUBSET Pins] /\ gpioIp \in [PinTypes -> SUBSET Pins]
    /\ gpioAsked \in [Leds -> {1, 2}]
    /\ gpioWants \in [Pins -> SUBSET PinTypes]
    /\ GpioOpTyped

(* The invariant of the GPIO.                                                *)
GpioInv == GpioTyped /\ EnabledWanted /\ Gpio!PinHasItsFunction

LEMMA GpioIdleTyped ==
    /\ Gpio!Idle.todo = <<>> /\ Gpio!Idle.pin \in Pins
    /\ Gpio!Idle.read = FALSE /\ Gpio!Idle.seen = {}
    /\ Gpio!Idle = [todo |-> Gpio!Idle.todo, pin |-> Gpio!Idle.pin, read |-> Gpio!Idle.read, seen |-> Gpio!Idle.seen]
    /\ Gpio!Idle.todo \in Seq(PinTypes)
<1>1. <<>> \in Seq(PinTypes)
  OBVIOUS
<1> QED BY <1>1, GpioAssumed DEF Gpio!GpioAssumption, Gpio!Idle

LEMMA GpioInitially == Gpio!Init => GpioInv
<1> SUFFICES ASSUME Gpio!Init PROVE GpioInv OBVIOUS
<1>1. GpioOpTyped
  BY GpioIdleTyped DEF Gpio!Init, GpioOpTyped
<1>2. GpioTyped
  BY <1>1 DEF Gpio!Init, GpioTyped
<1> QED BY <1>2 DEF Gpio!Init, GpioInv, EnabledWanted, Gpio!PinHasItsFunction

(* A step that leaves interrupts and functions alone.                        *)
LEMMA GpioQuietStep ==
    ASSUME GpioInv, Gpio!Quiet,
           UNCHANGED <<ie, gpioWants, mux, sel, gpioAsked>>,
           input' \in SUBSET Pins, output' \in SUBSET Pins, port' \in SUBSET Pins
    PROVE  GpioInv'
  BY
     DEF GpioInv, GpioTyped, Gpio!Quiet, GpioOpTyped, EnabledWanted,
         Gpio!PinHasItsFunction

(* A step that changes the enables or the pending bits.                      *)
LEMMA GpioInterruptStep ==
    ASSUME GpioInv, UNCHANGED <<Gpio!pinout, high>>, GpioOpTyped',
           EnabledWanted',
           ie' \in [PinTypes -> SUBSET Pins],
           gpioIp' \in [PinTypes -> SUBSET Pins],
           gpioWants' \in [Pins -> SUBSET PinTypes]
    PROVE  GpioInv'
  BY DEF GpioInv, GpioTyped, Gpio!pinout, Gpio!PinHasItsFunction

(* A step that gives a pin a function, or takes it.                          *)
LEMMA GpioMuxStep ==
    ASSUME GpioInv, NEW p \in Leds, NEW on \in BOOLEAN,
           gpioAsked' = [gpioAsked EXCEPT ![p] = IF on THEN 1 ELSE 2],
           mux' = IF on THEN mux \cup {p} ELSE mux \ {p},
           sel' = IF on THEN sel \cup {p} ELSE sel,
           Gpio!Quiet, UNCHANGED <<input, output, port, ie, gpioWants>>
    PROVE  GpioInv'
<1>0. GpioTyped /\ EnabledWanted /\ Gpio!PinHasItsFunction /\ p \in Pins
  BY GpioAssumed DEF GpioInv, Gpio!GpioAssumption
<1>1. /\ gpioAsked' \in [Leds -> {1, 2}] /\ gpioAsked'[p] = (IF on THEN 1 ELSE 2)
      /\ \A q \in Leds : q # p => gpioAsked'[q] = gpioAsked[q]
  BY <1>0 DEF GpioTyped
<1>2. Gpio!PinHasItsFunction'
  <2> SUFFICES ASSUME NEW q \in Leds, gpioAsked'[q] # 2
               PROVE  q \in mux' /\ (q \in sel' <=> gpioAsked'[q] = 1)
    BY DEF Gpio!PinHasItsFunction
  <2>1. CASE q = p
    BY <2>1, <1>1
  <2>2. CASE q # p
    BY <2>2, <1>0, <1>1 DEF Gpio!PinHasItsFunction
  <2> QED BY <2>1, <2>2
<1>3. mux' \in SUBSET Pins /\ sel' \in SUBSET Pins
  BY <1>0 DEF GpioTyped
<1>4. GpioOpTyped'
  BY <1>0 DEF GpioTyped, GpioOpTyped, Gpio!Quiet
<1> QED
  BY <1>0, <1>1, <1>2, <1>3, <1>4
     DEF GpioInv, GpioTyped, Gpio!Quiet, EnabledWanted

GpioTypes == {"rise", "fall", "high", "low"}

LEMMA GpioKindTypes ==
    ASSUME NEW kind \in Gpio!Kinds
    PROVE  Gpio!InTypes(kind) \subseteq PinTypes /\ Gpio!TypesOf(kind) \in Seq(PinTypes)
<1>1. Gpio!InTypes(kind) \subseteq PinTypes /\ kind \in Gpio!AllKinds
  BY DEF Gpio!Kinds
<1>2. Gpio!TypesOf(kind) \in Seq(GpioTypes)
  <2>1. /\ <<"rise">> \in Seq(GpioTypes) /\ <<"fall">> \in Seq(GpioTypes) /\ <<"rise", "fall">> \in Seq(GpioTypes)
        /\ <<"high">> \in Seq(GpioTypes) /\ <<"low">> \in Seq(GpioTypes)
        /\ <<"high", "low">> \in Seq(GpioTypes)
    BY DEF GpioTypes
  <2>2. <<"rise", "fall", "high", "low">> \in Seq(GpioTypes)
    BY DEF GpioTypes
  <2> QED BY <1>1, <2>1, <2>2 DEF Gpio!TypesOf, Gpio!AllKinds
<1>3. \A i \in 1 .. Len(Gpio!TypesOf(kind)) : Gpio!TypesOf(kind)[i] \in PinTypes
  BY <1>1 DEF Gpio!InTypes
<1> QED BY <1>1, <1>2, <1>3

(* The invariant is kept by the pins and by every call.                      *)
LEMMA GpioInductive == GpioInv /\ [Gpio!Next]_Gpio!vars => GpioInv'
<1> SUFFICES ASSUME GpioInv, [Gpio!Next]_Gpio!vars PROVE GpioInv' OBVIOUS
<1>0. GpioTyped /\ EnabledWanted /\ Gpio!PinHasItsFunction /\ GpioOpTyped /\ Leds \subseteq Pins
  BY GpioAssumed DEF GpioInv, GpioTyped, Gpio!GpioAssumption
<1>1. CASE Gpio!ReadPending
  <2>1. GpioOpTyped'
    <3>1. gpioOp' = [gpioOp EXCEPT !.read = TRUE, !.seen = gpioIp[Head(gpioOp.todo)]]
      BY <1>1 DEF Gpio!ReadPending
    <3>2. Head(gpioOp.todo) \in PinTypes /\ gpioOp.todo # <<>>
      BY <1>0, <1>1 DEF Gpio!ReadPending, GpioOpTyped
    <3>3. gpioIp[Head(gpioOp.todo)] \in SUBSET Pins
      BY <1>0, <3>2 DEF GpioTyped
    <3> QED BY <1>0, <3>1, <3>2, <3>3 DEF GpioOpTyped
  <2> QED
    BY <1>0, <1>1, <2>1, GpioInterruptStep
       DEF Gpio!ReadPending, GpioTyped, EnabledWanted
<1>2. CASE Gpio!WriteOnes
  <2>1. GpioOpTyped'
    <3>1. CASE gpioOp' = Gpio!Idle
      BY <3>1, GpioIdleTyped DEF GpioOpTyped
    <3>2. CASE gpioOp' = [gpioOp EXCEPT !.todo = Tail(@), !.read = FALSE, !.seen = {}]
      <4>1. Tail(gpioOp.todo) \in Seq(PinTypes)
        BY <1>0, <1>2 DEF GpioOpTyped, Gpio!WriteOnes
      <4> QED BY <3>2, <4>1, <1>0 DEF GpioOpTyped
    <3> QED BY <3>1, <3>2, <1>2 DEF Gpio!WriteOnes
  <2>2. PICK S \in SUBSET Pins : gpioIp' = [gpioIp EXCEPT ![Head(gpioOp.todo)] = S]
    <3>. DEFINE t == Head(gpioOp.todo)
    <3>1. gpioIp' = [gpioIp EXCEPT ![t] = {p \in Pins : Gpio!StillHolds(t, p) \/ p \in gpioIp[t] \ Gpio!OnesWritten}]
      BY <1>2 DEF Gpio!WriteOnes
    <3> QED BY <3>1
  <2>3. gpioIp' \in [PinTypes -> SUBSET Pins]
    BY <2>2, <1>0 DEF GpioTyped
  <2> QED
    BY <1>0, <1>2, <2>1, <2>3, GpioInterruptStep
       DEF Gpio!WriteOnes, GpioTyped, EnabledWanted
<1>3. ASSUME NEW p \in Pins, Gpio!Edge(p) PROVE GpioInv'
  <2>1. gpioIp' \in [PinTypes -> SUBSET Pins] /\ high' \in SUBSET Pins
    BY <1>0, <1>3 DEF Gpio!Edge, GpioTyped
  <2> QED
    BY <1>0, <1>3, <2>1
       DEF Gpio!Edge, Gpio!pinout, GpioInv, GpioTyped, EnabledWanted,
           Gpio!PinHasItsFunction, GpioOpTyped
<1>4. ASSUME NEW p \in Pins, Gpio!DisableInt(p) PROVE GpioInv'
  <2>1. /\ ie' = [t \in PinTypes |-> ie[t] \ {p}] /\ gpioWants' = [gpioWants EXCEPT ![p] = {}]
        /\ UNCHANGED <<Gpio!pinout, gpioIp, high, gpioOp>>
    BY <1>4 DEF Gpio!DisableInt, Gpio!Quiet
  <2>2. ie' \in [PinTypes -> SUBSET Pins] /\ gpioWants' \in [Pins -> SUBSET PinTypes]
        /\ gpioWants'[p] = {} /\ \A q \in Pins : q # p => gpioWants'[q] = gpioWants[q]
    BY <2>1, <1>0 DEF GpioTyped
  <2>3. EnabledWanted'
    BY <2>1, <2>2, <1>0 DEF EnabledWanted
  <2> QED
    BY <1>0, <2>1, <2>2, <2>3, GpioInterruptStep DEF GpioTyped, GpioOpTyped
<1>5. ASSUME NEW p \in Pins, NEW kind \in Gpio!Kinds, Gpio!ConfigInt(p, kind)
      PROVE  GpioInv'
  <2>1. /\ ie' = [t \in PinTypes |-> IF t \in Gpio!InTypes(kind) THEN ie[t] \cup {p} ELSE ie[t]]
        /\ gpioWants' = [gpioWants EXCEPT ![p] = gpioWants[p] \cup Gpio!InTypes(kind)]
        /\ UNCHANGED <<Gpio!pinout, gpioIp, high, gpioOp>>
    BY <1>5 DEF Gpio!ConfigInt, Gpio!Configured, Gpio!Quiet
  <2>2. ie' \in [PinTypes -> SUBSET Pins] /\ gpioWants' \in [Pins -> SUBSET PinTypes]
        /\ gpioWants'[p] = gpioWants[p] \cup Gpio!InTypes(kind) /\ \A q \in Pins : q # p => gpioWants'[q] = gpioWants[q]
    BY <2>1, <1>0, GpioKindTypes DEF GpioTyped
  <2>3. EnabledWanted'
    BY <2>1, <2>2, <1>0 DEF EnabledWanted
  <2> QED
    BY <1>0, <2>1, <2>2, <2>3, GpioInterruptStep DEF GpioTyped, GpioOpTyped
<1>6. ASSUME NEW p \in Pins, NEW kind \in Gpio!Kinds, Gpio!BeginClear(p, kind)
      PROVE  GpioInv'
  <2>1. gpioOp' = [Gpio!Idle EXCEPT !.todo = Gpio!TypesOf(kind), !.pin = p] /\ UNCHANGED <<Gpio!pinout, ie, gpioIp, high, gpioWants>>
    BY <1>6 DEF Gpio!BeginClear
  <2>2. GpioOpTyped'
    BY <2>1, GpioIdleTyped, GpioKindTypes DEF GpioOpTyped
  <2> QED BY <1>0, <2>1, <2>2, GpioInterruptStep DEF GpioTyped, EnabledWanted
<1>7. ASSUME NEW p \in Leds,
             \/ Gpio!TogglePin(p) \/ Gpio!EnableLed(p)
             \/ \E on \in BOOLEAN : Gpio!EnableInput(p, on) \/ Gpio!EnableOutput(p, on) \/ Gpio!SetPin(p, on)
      PROVE  GpioInv'
  <2>1. \A S \in SUBSET Pins, on \in BOOLEAN : Gpio!With(S, p, on) \in SUBSET Pins
    BY <1>0 DEF Gpio!With
  <2>2. (p \notin port) \in BOOLEAN
    OBVIOUS
  <2>3. CASE Gpio!TogglePin(p) \/ \E on \in BOOLEAN : Gpio!SetPin(p, on)
    BY <2>1, <2>2, <2>3, <1>0, GpioQuietStep
       DEF Gpio!TogglePin, Gpio!SetPin, GpioTyped
  <2>4. CASE Gpio!EnableLed(p)
    BY <2>4, <1>0, GpioQuietStep DEF Gpio!EnableLed, GpioTyped
  <2>5. CASE \E on \in BOOLEAN : Gpio!EnableInput(p, on) \/ Gpio!EnableOutput(p, on)
    BY <2>1, <2>5, <1>0, GpioQuietStep
       DEF Gpio!EnableInput, Gpio!EnableOutput, GpioTyped
  <2> QED BY <1>7, <2>3, <2>4, <2>5
<1>8. ASSUME NEW p \in Leds, Gpio!DisablePinmux(p) PROVE GpioInv'
  BY <1>8, GpioMuxStep DEF Gpio!DisablePinmux
<1>9. ASSUME NEW p \in Leds, NEW f \in {1}, Gpio!EnablePinmux(p, f)
      PROVE  GpioInv'
  <2>1. f = 1
    BY GpioAssumed
  <2>2. /\ mux' = mux \cup {p} /\ sel' = sel \cup {p} /\ gpioAsked' = [gpioAsked EXCEPT ![p] = 1]
        /\ Gpio!Quiet /\ UNCHANGED <<input, output, port, ie, gpioWants>>
    BY <2>1, <1>9 DEF Gpio!EnablePinmux, Gpio!PinmuxBits
  <2> QED BY <2>1, <2>2, GpioMuxStep
<1>10. CASE UNCHANGED Gpio!vars
  BY <1>0, <1>10
     DEF Gpio!vars, Gpio!pinout, GpioInv, GpioTyped, EnabledWanted,
         Gpio!PinHasItsFunction, GpioOpTyped
<1> QED
  BY <1>1, <1>2, <1>3, <1>4, <1>5, <1>6, <1>7, <1>8, <1>9, <1>10 DEF Gpio!Next

(* Pins have their function, and interrupts for what was asked.              *)
LEMMA GpioFollows ==
    GpioInv => Gpio!TypeOK /\ Gpio!InterruptsAsAsked /\ Gpio!PinHasItsFunction
<1> SUFFICES ASSUME GpioInv
             PROVE  Gpio!TypeOK /\ Gpio!InterruptsAsAsked /\ Gpio!PinHasItsFunction OBVIOUS
<1>0. GpioTyped /\ EnabledWanted /\ GpioOpTyped
  BY DEF GpioInv, GpioTyped
<1>1. Gpio!TypeOK
  BY <1>0 DEF GpioTyped, GpioOpTyped, Gpio!TypeOK
<1>2. Gpio!InterruptsAsAsked
  <2> SUFFICES ASSUME NEW p \in Pins
               PROVE  p \in Gpio!Interrupting <=> \E t \in gpioWants[p] : p \in gpioIp[t]
    BY DEF Gpio!InterruptsAsAsked
  <2>1. gpioWants[p] \subseteq PinTypes
    BY <1>0 DEF GpioTyped
  <2> QED BY <1>0, <2>1 DEF Gpio!Interrupting, EnabledWanted
<1> QED BY <1>1, <1>2 DEF GpioInv

(* An edge that was seen of a pin is lost only by a call that names the pin, *)
(* or by one that has seen it.                                               *)
LEMMA GpioEdges ==
    ASSUME GpioInv, [Gpio!Next]_Gpio!vars, NEW t \in PinTypes, NEW p \in Pins,
           p \in gpioIp[t], p \notin gpioIp'[t]
    PROVE  p = gpioOp.pin \/ p \in gpioOp.seen
<1>0. GpioTyped
  BY DEF GpioInv
<1>1. CASE Gpio!WriteOnes
  <2>. DEFINE h == Head(gpioOp.todo)
  <2>1. gpioIp' = [gpioIp EXCEPT ![h] = {q \in Pins : Gpio!StillHolds(h, q) \/ q \in gpioIp[h] \ Gpio!OnesWritten}]
    BY <1>1 DEF Gpio!WriteOnes
  <2>. HIDE DEF h
  <2>2. p \in Gpio!OnesWritten
    BY <1>0, <2>1 DEF GpioTyped
  <2> QED BY <2>2 DEF Gpio!OnesWritten
<1>2. ASSUME NEW q \in Pins, Gpio!Edge(q) PROVE FALSE
  BY <1>2 DEF Gpio!Edge
<1>3. ASSUME gpioIp' = gpioIp PROVE FALSE
  BY <1>3
<1> QED
  BY <1>1, <1>2, <1>3
     DEF Gpio!Next, Gpio!vars, Gpio!ReadPending, Gpio!DisableInt,
         Gpio!ConfigInt, Gpio!BeginClear,
      Gpio!TogglePin, Gpio!EnableLed, Gpio!DisablePinmux, Gpio!EnableInput, Gpio!EnableOutput, Gpio!SetPin, Gpio!EnablePinmux, Gpio!Quiet

-----------------------------------------------------------------------------
(* The caches.                                                                *)

LEMMA CacheAssumed == Cache!CacheAssumption
  BY Instances

CacheLines == [state : {"none", "dirty"}, lost : BOOLEAN,
          call : [pc : {"idle", "instruction", "restore"},
                  what : {"flush", "discard"}, hit : BOOLEAN]]

\* What the steps of the ways keep, and those of the line.
WaysInv ==
    /\ enabled \in 1 .. NumWays /\ started \in 0 .. 3 /\ cleanEvict \in BOOLEAN
    /\ Cache!UsedLimIsKept

LineInv ==
    /\ l1 \in CacheLines /\ vector \in {"program", "label"} /\ mie \in BOOLEAN
    /\ Cache!At("idle") => vector = "program"
    /\ Cache!At("instruction") => vector = "label" /\ ~l1.call.hit
    /\ Cache!At("restore") /\ ~l1.call.hit =>
          l1.state = "none" /\ (l1.call.what = "flush" => ~l1.lost)

(* The invariant of the caches.                                              *)
CacheInv == lim \in Lims /\ bss \in Bss /\ WaysInv /\ LineInv

(* Two halves of a way make one, rounded up.                                 *)
LEMMA HalfWays ==
    ASSUME NEW n \in Nat
    PROVE  /\ Cache!WaysInUse(n) \in Nat /\ n <= 2 * Cache!WaysInUse(n) /\ 2 * Cache!WaysInUse(n) <= n + 1
  BY DEF Cache!WaysInUse

(* The ways that the LIM leaves are at least one.                            *)
LEMMA CacheSizes ==
    ASSUME lim \in Lims, bss \in Bss
    PROVE  /\ NumWays \in Nat \ {0} /\ lim \in Nat /\ bss \in Nat
           /\ lim + bss <= 2 * (NumWays - 1)
           /\ Cache!WaysInUse(lim) \in 0 .. NumWays - 1
           /\ lim <= 2 * Cache!WaysInUse(lim)
<1>1. NumWays \in Nat \ {0} /\ lim \in Nat /\ bss \in Nat /\ lim + bss <= 2 * (NumWays - 1)
  BY CacheAssumed DEF Cache!CacheAssumption
<1> QED BY <1>1, HalfWays

LEMMA CacheInitially == Cache!Init => CacheInv
<1> SUFFICES ASSUME Cache!Init PROVE CacheInv OBVIOUS
<1>1. l1 = [state |-> "none", lost |-> FALSE, call |-> [pc |-> "idle", what |-> "flush", hit |-> FALSE]]
  BY DEF Cache!Init, Cache!NoCall
<1>2. l1 \in CacheLines
  BY <1>1 DEF CacheLines
<1>3. LineInv
  BY <1>1, <1>2 DEF Cache!Init, LineInv, Cache!At
<1>4. lim \in Lims /\ bss \in Bss
  BY DEF Cache!Init
<1>5. WaysInv
  <2>1. Cache!UsedLimIsKept
    BY DEF Cache!Init, Cache!UsedLimIsKept
  <2>2. enabled \in 1 .. NumWays /\ started \in 0 .. 3
    BY CacheAssumed DEF Cache!Init, Cache!CacheAssumption
  <2>3. cleanEvict \in BOOLEAN
    BY DEF Cache!Init
  <2> QED BY <2>1, <2>2, <2>3 DEF WaysInv
<1> QED BY <1>3, <1>4, <1>5 DEF CacheInv

(* The calls about the ways do not enable one that the LIM uses.             *)
LEMMA WaysStep ==
    ASSUME lim \in Lims, bss \in Bss, WaysInv, UNCHANGED <<lim, bss>>,
           Cache!Pl2Init \/ Cache!CcacheInit \/ \E n \in 0 .. NumWays : Cache!SetEnabledWays(n)
    PROVE  WaysInv' /\ UNCHANGED Cache!line
<1>1. CASE Cache!Pl2Init
  BY <1>1
     DEF Cache!Pl2Init, WaysInv, Cache!UsedLimIsKept, Cache!line, Cache!LimLeft
<1>2. CASE Cache!CcacheInit
  <2>. DEFINE w == Cache!WaysInUse(lim)
              n == NumWays - w
  <2>1. /\ NumWays \in Nat \ {0} /\ lim \in Nat /\ bss \in Nat
        /\ lim + bss <= 2 * (NumWays - 1) /\ w \in 0 .. NumWays - 1
        /\ lim <= 2 * w
        /\ n \in 1 .. NumWays /\ enabled \in 1 .. NumWays
    BY CacheSizes DEF WaysInv
  <2>2. w' = w /\ n' = n
    OBVIOUS
  <2>3. /\ enabled' = Cache!Configured.ways /\ cleanEvict' = (cleanEvict /\ Cache!Configured.rc = 0)
        /\ started' = started + 1 /\ started \in 1 .. 2 /\ UNCHANGED Cache!line
    BY <1>2 DEF Cache!CcacheInit
  <2>4. CASE Cache!BssInLim(n) \/ enabled > n
    <3>1. Cache!Configured = [ways |-> enabled, rc |-> -1]
      BY <2>4 DEF Cache!Configured, Cache!SetWays
    <3>2. Cache!Configured.ways = enabled /\ Cache!Configured.rc # 0
      BY <3>1
    <3>3. enabled' = enabled /\ cleanEvict' = FALSE
      BY <2>3, <3>2
    <3> QED
      BY <2>1, <2>3, <3>3
         DEF WaysInv, Cache!UsedLimIsKept, Cache!LimLeft, Cache!WaysInUse
  <2>5. CASE ~Cache!BssInLim(n) /\ ~(enabled > n)
    <3>1. Cache!Configured = [ways |-> n, rc |-> 0]
      BY <2>5 DEF Cache!Configured, Cache!SetWays
    <3>2. enabled' = n /\ cleanEvict' = cleanEvict
      BY <2>3, <3>1 DEF WaysInv
    <3>3. ~(bss > 0 /\ lim < 2 * n)
      BY <2>5 DEF Cache!BssInLim
    <3>4. lim <= Cache!LimLeft(n) /\ (lim < 2 * n => lim + bss <= Cache!LimLeft(n))
      <4>. HIDE DEF w
      <4> QED BY <2>1, <3>3 DEF Cache!LimLeft
    <3>5. Cache!UsedLimIsKept'
      <4>1. NumWays - Cache!WaysInUse(lim') = n
        OBVIOUS
      <4>. HIDE DEF n
      <4> QED BY <2>1, <3>2, <3>4, <4>1 DEF Cache!UsedLimIsKept, Cache!LimLeft
    <3>6. enabled' \in 1 .. NumWays /\ started' \in 0 .. 3 /\ cleanEvict' \in BOOLEAN
      <4>. HIDE DEF n
      <4> QED BY <2>1, <2>3, <3>2 DEF WaysInv
    <3> QED BY <2>3, <3>5, <3>6 DEF WaysInv
  <2> QED BY <2>4, <2>5
<1>3. ASSUME NEW n \in 0 .. NumWays, Cache!SetEnabledWays(n)
      PROVE  WaysInv' /\ UNCHANGED Cache!line
  <2>1. /\ NumWays \in Nat \ {0} /\ lim \in Nat /\ bss \in Nat
        /\ Cache!WaysInUse(lim) \in 0 .. NumWays - 1
        /\ enabled \in 1 .. NumWays
    BY CacheSizes DEF WaysInv
  <2>2. lim + bss <= Cache!LimLeft(n) /\ UNCHANGED <<cleanEvict, started, Cache!line>>
    BY <1>3 DEF Cache!SetEnabledWays
  <2>3. enabled' = enabled \/ (enabled' = n /\ enabled <= n)
    BY <1>3, <2>1 DEF Cache!SetEnabledWays, Cache!SetWays
  <2>4. CASE enabled' = enabled
    BY <2>2, <2>4
       DEF WaysInv, Cache!UsedLimIsKept, Cache!LimLeft, Cache!WaysInUse
  <2>5. CASE enabled' = n /\ enabled <= n
    <3>. DEFINE w == Cache!WaysInUse(lim)
    <3>1. Cache!WaysInUse(lim') = w
      OBVIOUS
    <3>. HIDE DEF w
    <3> QED
      BY <2>1, <2>2, <2>5, <3>1
         DEF WaysInv, Cache!UsedLimIsKept, Cache!LimLeft, w
  <2> QED BY <2>3, <2>4, <2>5
<1> QED BY <1>1, <1>2, <1>3

LEMMA LineFields ==
    ASSUME l1 \in CacheLines
    PROVE  /\ l1.state \in {"none", "dirty"} /\ l1.lost \in BOOLEAN
           /\ l1.call.pc \in {"idle", "instruction", "restore"}
           /\ l1.call.what \in {"flush", "discard"} /\ l1.call.hit \in BOOLEAN
           /\ l1.call \in [pc : {"idle", "instruction", "restore"},
                           what : {"flush", "discard"}, hit : BOOLEAN]
  BY DEF CacheLines

(* The calls about a line, their traps and the interrupts.                   *)
LEMMA LineStep ==
    ASSUME LineInv,
           \/ Cache!Write \/ Cache!Instruction \/ Cache!Restore \/ Cache!Interrupt \/ Cache!EnableInterrupts
           \/ \E what \in {"flush", "discard"}, hartid \in WithDcache :
                 Cache!Call(what, hartid) \/ Cache!EmptyAll(what, hartid)
    PROVE  LineInv' /\ UNCHANGED Cache!ways
<1>0. l1 \in CacheLines
  BY DEF LineInv
<1>1. CASE Cache!Write
  BY <1>0, <1>1, LineFields DEF Cache!Write, LineInv, CacheLines, Cache!At
<1>2. CASE Cache!Instruction
  <2>1. l1' = [l1 EXCEPT !.state = "none", !.lost = (l1.call.what = "discard" /\ l1.state = "dirty"),
                         !.call = [l1.call EXCEPT !.pc = "restore"]]
    BY <1>0, <1>2 DEF Cache!Instruction, Cache!Emptied, CacheLines
  <2>. DEFINE lost == l1.call.what = "discard" /\ l1.state = "dirty"
              call == [l1.call EXCEPT !.pc = "restore"]
  <2>2. lost \in BOOLEAN /\ call \in [pc : {"idle", "instruction", "restore"},
                                     what : {"flush", "discard"}, hit : BOOLEAN]
        /\ call.pc = "restore" /\ call.what = l1.call.what
        /\ call.hit = l1.call.hit
    BY <1>0, LineFields
  <2>3. call.what = "flush" => ~lost
    BY <2>2
  <2>. HIDE DEF lost, call
  <2>4. l1' = [l1 EXCEPT !.state = "none", !.lost = lost, !.call = call]
    BY <2>1 DEF lost, call
  <2>5. l1' \in CacheLines /\ l1'.call = call /\ l1'.lost = lost /\ l1'.state = "none"
    BY <1>0, <2>2, <2>4 DEF CacheLines
  <2>6. UNCHANGED <<Cache!ways, vector, mie>>
    BY <1>2 DEF Cache!Instruction
  <2> QED BY <2>2, <2>3, <2>5, <2>6 DEF LineInv, Cache!At
<1>3. CASE Cache!Restore
  BY <1>0, <1>3, LineFields
     DEF Cache!Restore, Cache!Goto, Cache!Restored, LineInv, CacheLines,
         Cache!At
<1>4. CASE Cache!Interrupt
  BY <1>0, <1>4, LineFields
     DEF Cache!Interrupt, Cache!Goto, LineInv, CacheLines, Cache!At
<1>5. CASE Cache!EnableInterrupts
  BY <1>0, <1>5, LineFields
     DEF Cache!EnableInterrupts, Cache!NoCall, LineInv, CacheLines, Cache!At
<1>6. ASSUME NEW what \in {"flush", "discard"}, NEW hartid \in WithDcache,
             Cache!Call(what, hartid)
      PROVE  LineInv' /\ UNCHANGED Cache!ways
  BY <1>0, <1>6, LineFields DEF Cache!Call, LineInv, CacheLines, Cache!At
<1>7. ASSUME NEW what \in {"flush", "discard"}, NEW hartid \in WithDcache,
             Cache!EmptyAll(what, hartid)
      PROVE  LineInv' /\ UNCHANGED Cache!ways
  BY <1>0, <1>7, LineFields
     DEF Cache!EmptyAll, Cache!Emptied, LineInv, CacheLines, Cache!At
<1> QED BY <1>1, <1>2, <1>3, <1>4, <1>5, <1>6, <1>7

LEMMA CacheInductive == CacheInv /\ [Cache!Next]_Cache!vars => CacheInv'
<1> SUFFICES ASSUME CacheInv, [Cache!Next]_Cache!vars PROVE CacheInv' OBVIOUS
<1>0. lim \in Lims /\ bss \in Bss /\ WaysInv /\ LineInv
  BY DEF CacheInv
<1>1. UNCHANGED <<lim, bss>>
  BY
     DEF Cache!Next, Cache!vars, Cache!ways, Cache!Pl2Init, Cache!CcacheInit,
         Cache!SetEnabledWays, Cache!Write, Cache!Instruction, Cache!Restore,
         Cache!Interrupt,
         Cache!EnableInterrupts, Cache!Call, Cache!EmptyAll
<1>2. UNCHANGED Cache!ways => WaysInv'
  BY <1>0
     DEF Cache!ways, WaysInv, Cache!UsedLimIsKept, Cache!LimLeft,
         Cache!WaysInUse
<1>3. UNCHANGED Cache!line => LineInv'
  BY <1>0 DEF Cache!line, LineInv, Cache!At
<1>4. WaysInv' /\ LineInv'
  BY <1>0, <1>1, <1>2, <1>3, WaysStep, LineStep DEF Cache!Next, Cache!vars
<1> QED BY <1>0, <1>1, <1>4 DEF CacheInv

(* No memory in use becomes cache, and a flushed line is written.            *)
LEMMA CacheFollows ==
    CacheInv => Cache!TypeOK /\ Cache!UsedLimIsKept /\ Cache!LineIsFlushed
<1> SUFFICES ASSUME CacheInv
             PROVE  Cache!TypeOK /\ Cache!UsedLimIsKept /\ Cache!LineIsFlushed OBVIOUS
<1>1. Cache!TypeOK
  BY LineFields DEF CacheInv, WaysInv, LineInv, Cache!TypeOK
<1> QED BY <1>1 DEF CacheInv, WaysInv, LineInv, Cache!LineIsFlushed

-----------------------------------------------------------------------------
(* The counters of the caches.                                                *)

LEMMA MonAssumed == Monitor!CacheMonitorAssumption
  BY Instances

-----------------------------------------------------------------------------
MonPcs == {"idle", "clear", "clear high", "high", "low", "again", "done"}
MonCalls == [pc : MonPcs, unit : Caches \cup {"none"}, id : Nat, high : Nat, low : Nat,
          during : Nat, value : Nat]
MonBounds == [least : Nat, most : Nat]

MonTyped ==
    /\ select \in [Caches -> [Monitor!Existing -> SUBSET Hits]]
    /\ filter \in [Caches -> SUBSET Clients]
    /\ pmCount \in [Caches -> [Monitor!Existing -> Nat]]
    /\ since \in [Caches -> [Monitor!Existing -> MonBounds]]
    /\ pmCall \in MonCalls /\ happened \in 0 .. MaxEvents
    /\ ~Monitor!Idle => pmCall.unit \in Caches /\ pmCall.id \in Monitor!Existing

\* A counter that is not half cleared has what happened since it was cleared.
MonInBounds ==
    \A u \in Caches, i \in Monitor!Existing :
        \/ Monitor!At("clear high") /\ pmCall.unit = u /\ pmCall.id = i
        \/ since[u][i].least <= pmCount[u][i] /\ pmCount[u][i] <= since[u][i].most

\* What a call has so far of a counter that holds n, and what it returned.
MonGoesOn(c, n, s) ==
    /\ c.pc = "clear high" => n % MonitorWord <= c.during
    /\ c.pc \in {"high", "low", "again"} => c.during <= s.least
    /\ c.pc \in {"low", "again"} => c.high <= n \div MonitorWord
    /\ c.pc = "again" => /\ (c.high * MonitorWord) + c.low <= n
                         /\ n \div MonitorWord = c.high => c.during <= (c.high * MonitorWord) + c.low
    /\ c.pc = "done" => c.value \in c.during .. s.most

(* The invariant of the counters of the caches.                              *)
MonInv ==
    /\ MonTyped /\ MonInBounds
    /\ ~Monitor!Idle => MonGoesOn(pmCall, pmCount[pmCall.unit][pmCall.id], since[pmCall.unit][pmCall.id])

(* What the assumption says of the constants.                                *)
LEMMA MonConsts ==
    MonitorWord \in Nat \ {0} /\ Monitor!Existing \subseteq Nat /\ MaxEvents \in Nat
  BY MonAssumed DEF Monitor!CacheMonitorAssumption, Monitor!Existing

LEMMA MonInitially == Monitor!Init => MonInv
<1> SUFFICES ASSUME Monitor!Init PROVE MonInv OBVIOUS
<1>1. pmCall \in MonCalls /\ Monitor!Idle
  BY
     DEF Monitor!Init, Monitor!NoCall, MonCalls, MonPcs, Monitor!Idle,
         Monitor!At
<1>2. MonTyped
  BY <1>1, MonConsts DEF Monitor!Init, MonTyped, MonBounds
<1>3. ASSUME NEW u \in Caches, NEW i \in Monitor!Existing
      PROVE  pmCount[u][i] = 0 /\ since[u][i] = [least |-> 0, most |-> 0]
  BY DEF Monitor!Init
<1>4. ASSUME NEW u \in Caches, NEW i \in Monitor!Existing
      PROVE  since[u][i].least <= pmCount[u][i] /\ pmCount[u][i] <= since[u][i].most
  BY <1>3
<1>5. MonInBounds
  BY <1>4, Zenon DEF MonInBounds
<1> QED BY <1>1, <1>2, <1>5 DEF MonInv

\* A call that begins, or goes on, while the counters stay.
LEMMA MonCallStep ==
    ASSUME MonInv, UNCHANGED <<pmCount, since>>,
           select' \in [Caches -> [Monitor!Existing -> SUBSET Hits]],
           filter' \in [Caches -> SUBSET Clients],
           happened' = happened, pmCall' \in MonCalls,
           pmCall.pc # "clear high", pmCall'.pc # "clear high",
           pmCall'.pc = "idle" \/
             /\ pmCall'.unit \in Caches /\ pmCall'.id \in Monitor!Existing
             /\ MonGoesOn(pmCall', pmCount[pmCall'.unit][pmCall'.id], since[pmCall'.unit][pmCall'.id])
    PROVE  MonInv'
<1>1. MonTyped'
  BY DEF MonInv, MonTyped, Monitor!Idle, Monitor!At
<1>2. MonInBounds'
  BY DEF MonInv, MonInBounds, Monitor!At
<1>3. ~Monitor!Idle' => MonGoesOn(pmCall, pmCount[pmCall.unit][pmCall.id], since[pmCall.unit][pmCall.id])'
  BY DEF MonGoesOn, Monitor!Idle, Monitor!At
<1> QED BY <1>1, <1>2, <1>3 DEF MonInv

(* Below its last value a low word counts without a carry.                   *)
LEMMA SuccWithoutCarry ==
    ASSUME NEW n \in Nat, n % MonitorWord < MonitorWord - 1
    PROVE  (n + 1) % MonitorWord = (n % MonitorWord) + 1
<1>1. n \div MonitorWord \in Nat /\ n % MonitorWord \in 0 .. MonitorWord - 1 /\ n = MonitorWord * (n \div MonitorWord) + (n % MonitorWord)
  BY DivNat, MonConsts
<1>. DEFINE q == n \div MonitorWord  r == (n % MonitorWord) + 1  m == n + 1
<1>2. q \in Int /\ r \in 0 .. MonitorWord - 1 /\ m \in Int /\ m = MonitorWord * q + r
  BY <1>1, MonConsts
<1>. HIDE DEF q, r, m
<1>3. m % MonitorWord = r
  BY <1>2, DivUnique, MonConsts
<1> QED BY <1>3 DEF m, r

\* The lower word does not run over while the upper one is being cleared.
MonRoom(c, n) == c.pc = "clear high" => n % MonitorWord < MonitorWord - 1

\* An event counts once, in the counter and in its bounds.
LEMMA MonEventFollows ==
    ASSUME NEW c \in MonCalls, NEW n \in Nat, NEW s \in MonBounds,
           NEW t \in MonBounds, MonGoesOn(c, n, s),
           t.least = s.least + 1, t.most = s.most + 1,
           MonRoom(c, n)
    PROVE  /\ MonGoesOn(c, n, s) /\ c.pc \notin {"clear", "clear high"} => MonGoesOn(c, n + 1, t)
           /\ MonGoesOn([c EXCEPT !.during = @ + 1], n + 1, t) \/ c.pc \notin {"clear", "clear high"}
<1>1. c.during \in Nat /\ c.high \in Nat /\ c.low \in Nat /\ c.value \in Nat /\ s.least \in Nat /\ s.most \in Nat
      /\ c.pc \in MonPcs
  BY DEF MonCalls, MonBounds
<1>w. MonitorWord \in Nat \ {0}
  BY MonConsts
<1>2. n \div MonitorWord \in Nat /\ (n + 1) \div MonitorWord \in Nat /\ n \div MonitorWord <= (n + 1) \div MonitorWord
  <2>. DEFINE m == n + 1
  <2>1. m \in Nat /\ n <= m
    OBVIOUS
  <2>. HIDE DEF m
  <2>2. n \div MonitorWord \in Nat /\ m \div MonitorWord \in Nat
    BY <1>w, <2>1, DivNat
  <2>3. n \div MonitorWord <= m \div MonitorWord
    BY <1>w, <2>1, DivMonotone
  <2> QED BY <2>2, <2>3 DEF m
<1>3. (c.high * MonitorWord) + c.low \in Nat
  BY <1>1, <1>w
<1>a. /\ c.pc = "clear high" => n % MonitorWord <= c.during
      /\ c.pc \in {"high", "low", "again"} => c.during <= s.least
      /\ c.pc \in {"low", "again"} => c.high <= n \div MonitorWord
      /\ c.pc = "again" => /\ (c.high * MonitorWord) + c.low <= n
                           /\ n \div MonitorWord = c.high => c.during <= (c.high * MonitorWord) + c.low
      /\ c.pc = "done" => c.value \in c.during .. s.most
  BY Zenon DEF MonGoesOn
<1>4. ASSUME c.pc \notin {"clear", "clear high"} PROVE MonGoesOn(c, n + 1, t)
  <2>1. c.pc \in {"high", "low", "again"} => c.during <= t.least
    <3>1. c.during <= s.least => c.during <= t.least
      BY <1>1
    <3> QED BY <1>a, <3>1
  <2>2. c.pc \in {"low", "again"} => c.high <= (n + 1) \div MonitorWord
    <3>1. c.high <= n \div MonitorWord => c.high <= (n + 1) \div MonitorWord
      BY <1>1, <1>2
    <3> QED BY <1>a, <3>1
  <2>3. c.pc = "again" => (c.high * MonitorWord) + c.low <= n + 1
    BY <1>a, <1>3
  <2>4. c.pc = "again" /\ (n + 1) \div MonitorWord = c.high => n \div MonitorWord = c.high
    <3>1. c.high <= n \div MonitorWord /\ (n + 1) \div MonitorWord = c.high => n \div MonitorWord = c.high
      BY <1>1, <1>2
    <3> QED BY <1>a, <3>1
  <2>5. c.pc = "done" => c.value \in c.during .. t.most
    BY <1>a, <1>1
  <2>6. c.pc = "again" /\ (n + 1) \div MonitorWord = c.high => c.during <= (c.high * MonitorWord) + c.low
    BY <1>a, <2>4
  <2> QED BY <1>4, <2>1, <2>2, <2>3, <2>5, <2>6 DEF MonGoesOn
<1>5. ASSUME c.pc \in {"clear", "clear high"}
      PROVE  MonGoesOn([c EXCEPT !.during = @ + 1], n + 1, t)
  <2>. DEFINE d == [c EXCEPT !.during = @ + 1]
  <2>1. d.pc = c.pc /\ d.during = c.during + 1
    BY DEF MonCalls
  <2>2. c.pc = "clear high" => (n + 1) % MonitorWord <= c.during + 1
    <3>1. n % MonitorWord \in 0 .. MonitorWord - 1
      BY <1>w, DivNat
    <3>2. c.pc = "clear high" => (n + 1) % MonitorWord = (n % MonitorWord) + 1
      BY SuccWithoutCarry DEF MonRoom
    <3>3. c.pc = "clear high" => n % MonitorWord <= c.during
      BY <1>a
    <3>4. n % MonitorWord <= c.during => (n % MonitorWord) + 1 <= c.during + 1
      BY <1>1, <3>1
    <3> QED BY <3>2, <3>3, <3>4
  <2>. HIDE DEF d
  <2>3. MonGoesOn(d, n + 1, t)
    BY <1>5, <2>1, <2>2 DEF MonGoesOn
  <2> QED BY <2>3 DEF d
<1> QED BY <1>4, <1>5

(* An event is counted, whatever a call has read or written so far.          *)
LEMMA MonEventStep ==
    ASSUME MonInv, NEW u \in Caches, NEW e \in Hits, NEW c \in Clients,
           Monitor!Event(u, e, c)
    PROVE  MonInv'
<1>. DEFINE Counts(i) == e \in Monitor!Selector(u, i) /\ c \notin Monitor!Excluded(u)
            mine == ~Monitor!Idle /\ pmCall.unit = u /\ Counts(pmCall.id)
            Clear == pmCall.pc \in {"clear", "clear high"}
            Next1(v, i) == v = u /\ Counts(i)
<1>0. MonTyped /\ MonInBounds
  BY DEF MonInv
<1>1. /\ happened < MaxEvents /\ happened' = happened + 1 /\ UNCHANGED <<select, filter>>
      /\ mine /\ pmCall.pc = "clear high" => (pmCount[u][pmCall.id] % MonitorWord) < MonitorWord - 1
      /\ pmCall' = IF mine /\ Clear THEN [pmCall EXCEPT !.during = @ + 1] ELSE pmCall
  BY DEF Monitor!Event, Monitor!At
<1>2. /\ pmCount' = [pmCount EXCEPT ![u] = [i \in Monitor!Existing |-> @[i] + IF Counts(i) THEN 1 ELSE 0]]
      /\ since' = [since EXCEPT ![u] =
                        [i \in Monitor!Existing |->
                            [least |-> @[i].least + IF Counts(i) THEN 1 ELSE 0,
                             most |-> @[i].most + IF Counts(i) THEN 1 ELSE 0]]]
  BY DEF Monitor!Event
<1>. HIDE DEF Counts
<1>3. pmCount' \in [Caches -> [Monitor!Existing -> Nat]] /\ since' \in [Caches -> [Monitor!Existing -> MonBounds]]
  <2>1. [i \in Monitor!Existing |-> pmCount[u][i] + IF Counts(i) THEN 1 ELSE 0] \in [Monitor!Existing -> Nat]
    BY <1>0 DEF MonTyped
  <2>2. [i \in Monitor!Existing |-> [least |-> since[u][i].least + IF Counts(i) THEN 1 ELSE 0,
                             most |-> since[u][i].most + IF Counts(i) THEN 1 ELSE 0]]
        \in [Monitor!Existing -> MonBounds]
    BY <1>0 DEF MonTyped, MonBounds
  <2>3. pmCount' \in [Caches -> [Monitor!Existing -> Nat]]
    BY <1>0, <1>2, <2>1 DEF MonTyped
  <2>4. since' \in [Caches -> [Monitor!Existing -> MonBounds]]
    BY <1>0, <1>2, <2>2 DEF MonTyped
  <2> QED BY <2>3, <2>4
<1>4. ASSUME NEW v \in Caches, NEW i \in Monitor!Existing
      PROVE  /\ pmCount[v][i] \in Nat /\ since[v][i] \in MonBounds
             /\ Next1(v, i) => /\ pmCount'[v][i] = pmCount[v][i] + 1
                               /\ since'[v][i].least = since[v][i].least + 1
                               /\ since'[v][i].most = since[v][i].most + 1
             /\ ~Next1(v, i) => pmCount'[v][i] = pmCount[v][i] /\ since'[v][i] = since[v][i]
  <2>1. pmCount[v][i] \in Nat /\ since[v][i] \in MonBounds
    BY <1>0 DEF MonTyped
  <2>2. CASE v # u
    BY <1>0, <1>2, <2>1, <2>2 DEF MonTyped
  <2>3. CASE v = u
    <3>1. pmCount'[u] = [j \in Monitor!Existing |-> pmCount[u][j] + IF Counts(j) THEN 1 ELSE 0]
          /\ since'[u] = [j \in Monitor!Existing |->
                [least |-> since[u][j].least + IF Counts(j) THEN 1 ELSE 0,
                 most |-> since[u][j].most + IF Counts(j) THEN 1 ELSE 0]]
      BY <1>0, <1>2 DEF MonTyped
    <3>2. CASE Counts(i)
      BY <2>1, <2>3, <3>1, <3>2 DEF MonBounds
    <3>3. CASE ~Counts(i)
      BY <2>1, <2>3, <3>1, <3>3 DEF MonBounds
    <3> QED BY <3>2, <3>3
  <2> QED BY <2>2, <2>3
<1>5. pmCall' \in MonCalls /\ pmCall'.pc = pmCall.pc /\ pmCall'.unit = pmCall.unit /\ pmCall'.id = pmCall.id
  <2>1. pmCall \in MonCalls
    BY <1>0 DEF MonTyped
  <2>2. pmCall' = pmCall \/ pmCall' = [pmCall EXCEPT !.during = pmCall.during + 1]
    BY <1>1
  <2>3. ASSUME NEW d \in Nat, pmCall' = [pmCall EXCEPT !.during = d]
        PROVE  pmCall' \in MonCalls /\ pmCall'.pc = pmCall.pc /\ pmCall'.unit = pmCall.unit /\ pmCall'.id = pmCall.id
    BY <2>1, <2>3 DEF MonCalls
  <2>4. pmCall.during + 1 \in Nat
    BY <2>1 DEF MonCalls
  <2> QED BY <2>1, <2>2, <2>3, <2>4
<1>6. MonTyped'
  <2>1. happened' \in 0 .. MaxEvents
    <3>1. happened \in 0 .. MaxEvents /\ happened < MaxEvents /\ happened' = happened + 1
      BY <1>0, <1>1 DEF MonTyped
    <3> QED BY <3>1, MonConsts
  <2>2. select' \in [Caches -> [Monitor!Existing -> SUBSET Hits]] /\ filter' \in [Caches -> SUBSET Clients]
    BY <1>0, <1>1 DEF MonTyped
  <2>3. ~Monitor!Idle' => pmCall'.unit \in Caches /\ pmCall'.id \in Monitor!Existing
    BY <1>0, <1>5 DEF MonTyped, Monitor!Idle, Monitor!At
  <2> QED BY <1>3, <1>5, <2>1, <2>2, <2>3 DEF MonTyped
<1>7. MonInBounds'
  <2>1. ASSUME NEW v \in Caches, NEW i \in Monitor!Existing,
               since[v][i].least <= pmCount[v][i], pmCount[v][i] <= since[v][i].most
        PROVE  since'[v][i].least <= pmCount'[v][i] /\ pmCount'[v][i] <= since'[v][i].most
    <3>1. since[v][i].least \in Nat /\ since[v][i].most \in Nat /\ pmCount[v][i] \in Nat
      BY <1>4 DEF MonBounds
    <3>2. CASE Next1(v, i)
      <4>1. /\ pmCount'[v][i] = pmCount[v][i] + 1
            /\ since'[v][i].least = since[v][i].least + 1
            /\ since'[v][i].most = since[v][i].most + 1
        BY <1>4, <3>2, Zenon
      <4> QED BY <2>1, <3>1, <4>1
    <3>3. CASE ~Next1(v, i)
      <4>1. pmCount'[v][i] = pmCount[v][i] /\ since'[v][i] = since[v][i]
        BY <1>4, <3>3, Zenon
      <4> QED BY <2>1, <4>1
    <3> QED BY <3>2, <3>3
  <2>2. Monitor!At("clear high")' = Monitor!At("clear high") /\ pmCall'.unit = pmCall.unit /\ pmCall'.id = pmCall.id
    BY <1>5 DEF Monitor!At
  <2> QED BY <1>0, <2>1, <2>2, Zenon DEF MonInBounds
<1>8. ASSUME ~Monitor!Idle
      PROVE  MonGoesOn(pmCall', pmCount'[pmCall.unit][pmCall.id], since'[pmCall.unit][pmCall.id])
  <2>1. pmCall.unit \in Caches /\ pmCall.id \in Monitor!Existing /\ pmCall \in MonCalls
    BY <1>0, <1>8 DEF MonTyped
  <2>. DEFINE n == pmCount[pmCall.unit][pmCall.id]
              s == since[pmCall.unit][pmCall.id]
              t == since'[pmCall.unit][pmCall.id]
  <2>2. n \in Nat /\ s \in MonBounds /\ t \in MonBounds /\ MonGoesOn(pmCall, n, s)
    BY <1>3, <1>8, <2>1, <1>4 DEF MonInv
  <2>3. CASE mine
    <3>1. pmCount'[pmCall.unit][pmCall.id] = n + 1 /\ t.least = s.least + 1 /\ t.most = s.most + 1
      BY <1>4, <2>1, <2>3
    <3>2. MonRoom(pmCall, n)
      BY <1>1, <2>3 DEF MonRoom
    <3>. HIDE DEF n, s, t, mine
    <3>3. CASE Clear
      BY <1>1, <2>1, <2>2, <2>3, <3>1, <3>2, <3>3, MonEventFollows DEF t
    <3>4. CASE ~Clear
      BY <1>1, <2>1, <2>2, <2>3, <3>1, <3>2, <3>4, MonEventFollows DEF t
    <3> QED BY <3>3, <3>4
  <2>4. CASE ~mine
    <3>1. pmCount'[pmCall.unit][pmCall.id] = n /\ t = s
      BY <1>4, <1>8, <2>1, <2>4
    <3>2. pmCall' = pmCall
      BY <1>1, <2>4
    <3> QED BY <2>2, <3>1, <3>2
  <2> QED BY <2>3, <2>4
<1>9. Monitor!Idle' = Monitor!Idle
  BY <1>5 DEF Monitor!Idle, Monitor!At
<1> QED BY <1>5, <1>6, <1>7, <1>8, <1>9 DEF MonInv, MonGoesOn

(* The invariant is kept by events and by every step of a call.              *)
LEMMA MonInductive == MonInv /\ [Monitor!Next]_Monitor!vars => MonInv'
<1> SUFFICES ASSUME MonInv, [Monitor!Next]_Monitor!vars PROVE MonInv' OBVIOUS
<1>0. MonTyped /\ MonInBounds /\ pmCall \in MonCalls
  BY DEF MonInv, MonTyped
<1>1. ~Monitor!Idle => /\ pmCall.unit \in Caches /\ pmCall.id \in Monitor!Existing
               /\ pmCount[pmCall.unit][pmCall.id] \in Nat
               /\ since[pmCall.unit][pmCall.id] \in MonBounds
               /\ MonGoesOn(pmCall, pmCount[pmCall.unit][pmCall.id], since[pmCall.unit][pmCall.id])
  BY <1>0 DEF MonInv, MonTyped
<1>2. pmCall.pc \in MonPcs /\ pmCall.unit \in Caches \cup {"none"} /\ pmCall.id \in Nat /\ pmCall.high \in Nat
      /\ pmCall.low \in Nat /\ pmCall.during \in Nat /\ pmCall.value \in Nat
  BY <1>0 DEF MonCalls
<1>3. ASSUME Monitor!ClearLow PROVE MonInv'
  <2>. DEFINE u == pmCall.unit  i == pmCall.id  n == pmCount[pmCall.unit][pmCall.id]
              m == n - (n % MonitorWord)
  <2>1. /\ pmCall.pc = "clear" /\ pmCount' = [pmCount EXCEPT ![u][i] = m]
        /\ pmCall' = [pmCall EXCEPT !.pc = "clear high"]
        /\ UNCHANGED <<select, filter, since, happened>>
    BY <1>3 DEF Monitor!ClearLow, Monitor!At
  <2>2. u \in Caches /\ i \in Monitor!Existing /\ n \in Nat
    BY <1>1, <2>1 DEF Monitor!Idle, Monitor!At
  <2>3. m \in Nat /\ m % MonitorWord = 0
    <3>1. n \div MonitorWord \in Nat /\ n % MonitorWord \in 0 .. MonitorWord - 1 /\ n = MonitorWord * (n \div MonitorWord) + (n % MonitorWord)
      BY <2>2, DivNat, MonConsts
    <3>. DEFINE q == n \div MonitorWord
    <3>. DEFINE r == n % MonitorWord
    <3>a. /\ q \in Nat /\ n \in Nat /\ r \in 0 .. MonitorWord - 1 /\ n = MonitorWord * q + r /\ m = n - r
          /\ MonitorWord \in Nat \ {0}
      BY <2>2, <3>1, MonConsts
    <3>. HIDE DEF q, m, r, n
    <3>b. MonitorWord * q \in Nat
      BY <3>a
    <3>2. q \in Nat /\ m = MonitorWord * q + 0 /\ m \in Nat /\ 0 \in 0 .. MonitorWord - 1
      BY <3>a, <3>b
    <3> QED BY <3>2, DivUnique, MonConsts
  <2>. HIDE DEF m
  <2>4. /\ pmCount' \in [Caches -> [Monitor!Existing -> Nat]] /\ pmCount'[u][i] = m
        /\ \A v \in Caches, j \in Monitor!Existing : v # u \/ j # i => pmCount'[v][j] = pmCount[v][j]
    <3>1. pmCount' = [pmCount EXCEPT ![u] = [pmCount[u] EXCEPT ![i] = m]]
      BY <2>1
    <3>2. [pmCount[u] EXCEPT ![i] = m] \in [Monitor!Existing -> Nat]
      BY <1>0, <2>2, <2>3 DEF MonTyped
    <3> QED BY <1>0, <2>2, <3>1, <3>2 DEF MonTyped
  <2>5. pmCall' \in MonCalls /\ pmCall'.pc = "clear high" /\ pmCall'.unit = u /\ pmCall'.id = i /\ pmCall'.during = pmCall.during
    BY <1>2, <2>1, <1>0 DEF MonCalls, MonPcs
  <2>6. MonTyped'
    BY <1>0, <2>1, <2>2, <2>4, <2>5 DEF MonTyped
  <2>7. MonInBounds'
    <3> SUFFICES ASSUME NEW v \in Caches, NEW j \in Monitor!Existing,
                        v # u \/ j # i
                 PROVE  since'[v][j].least <= pmCount'[v][j] /\ pmCount'[v][j] <= since'[v][j].most
      BY <2>5 DEF MonInBounds, Monitor!At
    <3> QED BY <1>0, <2>1, <2>4 DEF MonInBounds, Monitor!At
  <2>c. pmCall'.pc = "clear high" /\ m % MonitorWord <= pmCall'.during
    <3>1. 0 <= pmCall.during
      BY <1>2
    <3> QED BY <2>3, <2>5, <3>1
  <2>8. MonGoesOn(pmCall', m, since[u][i])
    BY <2>c, Zenon DEF MonGoesOn
  <2> QED BY <2>1, <2>4, <2>5, <2>6, <2>7, <2>8 DEF MonInv, MonGoesOn
<1>4. ASSUME Monitor!ClearHigh PROVE MonInv'
  <2>. DEFINE u == pmCall.unit  i == pmCall.id  n == pmCount[pmCall.unit][pmCall.id]
              m == n % MonitorWord  b == [least |-> 0, most |-> pmCall.during]
  <2>1. /\ pmCall.pc = "clear high" /\ pmCount' = [pmCount EXCEPT ![u][i] = m]
        /\ since' = [since EXCEPT ![u][i] = b]
        /\ pmCall' = Monitor!NoCall /\ UNCHANGED <<select, filter, happened>>
    BY <1>4 DEF Monitor!ClearHigh, Monitor!At, Monitor!WithoutHigh
  <2>2. u \in Caches /\ i \in Monitor!Existing /\ n \in Nat /\ n % MonitorWord <= pmCall.during
    BY <1>1, <2>1 DEF Monitor!Idle, Monitor!At, MonGoesOn
  <2>3. m \in Nat /\ b \in MonBounds /\ b.least <= m /\ m <= b.most
    <3>1. MonitorWord \in Nat \ {0}
      BY MonConsts
    <3>0. n \in Nat
      BY <2>2
    <3>. HIDE DEF n
    <3>p. n % MonitorWord \in 0 .. MonitorWord - 1
      BY <3>0, <3>1, DivNat
    <3>2. m \in Nat
      BY <3>1, <3>p
    <3>3. pmCall.during \in Nat
      BY <1>2
    <3>. HIDE DEF m
    <3>4. b \in MonBounds /\ b.least = 0 /\ b.most = pmCall.during
      BY <3>3 DEF MonBounds
    <3>5. m <= pmCall.during
      BY <2>2 DEF m
    <3> QED BY <3>2, <3>4, <3>5
  <2>. HIDE DEF m, b
  <2>4. /\ pmCount' \in [Caches -> [Monitor!Existing -> Nat]] /\ pmCount'[u][i] = m
        /\ \A v \in Caches, j \in Monitor!Existing : v # u \/ j # i => pmCount'[v][j] = pmCount[v][j]
    <3>1. pmCount' = [pmCount EXCEPT ![u] = [pmCount[u] EXCEPT ![i] = m]]
      BY <2>1
    <3>2. [pmCount[u] EXCEPT ![i] = m] \in [Monitor!Existing -> Nat]
      BY <1>0, <2>2, <2>3 DEF MonTyped
    <3> QED BY <1>0, <2>2, <3>1, <3>2 DEF MonTyped
  <2>5. /\ since' \in [Caches -> [Monitor!Existing -> MonBounds]] /\ since'[u][i] = b
        /\ \A v \in Caches, j \in Monitor!Existing : v # u \/ j # i => since'[v][j] = since[v][j]
    <3>1. since' = [since EXCEPT ![u] = [since[u] EXCEPT ![i] = b]]
      BY <2>1
    <3>2. [since[u] EXCEPT ![i] = b] \in [Monitor!Existing -> MonBounds]
      BY <1>0, <2>2, <2>3 DEF MonTyped
    <3> QED BY <1>0, <2>2, <3>1, <3>2 DEF MonTyped
  <2>6. pmCall' \in MonCalls /\ pmCall'.pc = "idle"
    BY <2>1 DEF Monitor!NoCall, MonCalls, MonPcs
  <2>7. MonTyped'
    BY <1>0, <2>1, <2>4, <2>5, <2>6 DEF MonTyped, Monitor!Idle, Monitor!At
  <2>8. MonInBounds'
    <3> SUFFICES ASSUME NEW v \in Caches, NEW j \in Monitor!Existing
                 PROVE  since'[v][j].least <= pmCount'[v][j] /\ pmCount'[v][j] <= since'[v][j].most
      BY DEF MonInBounds
    <3>1. CASE v = u /\ j = i
      BY <2>3, <2>4, <2>5, <3>1
    <3>2. CASE v # u \/ j # i
      BY <1>0, <2>4, <2>5, <3>2 DEF MonInBounds
    <3> QED BY <3>1, <3>2
  <2> QED BY <2>6, <2>7, <2>8 DEF MonInv, Monitor!Idle, Monitor!At
<1>5. ASSUME Monitor!ReadHigh PROVE MonInv'
  <2>1. /\ pmCall.pc = "high" /\ pmCall' = [pmCall EXCEPT !.pc = "low", !.high = pmCount[pmCall.unit][pmCall.id] \div MonitorWord]
        /\ UNCHANGED <<select, filter, pmCount, since, happened>>
    BY <1>5 DEF Monitor!ReadHigh, Monitor!At
  <2>2. pmCount[pmCall.unit][pmCall.id] \in Nat /\ pmCount[pmCall.unit][pmCall.id] \div MonitorWord \in Nat
    BY <1>1, <2>1, DivNat, MonConsts DEF Monitor!Idle, Monitor!At
  <2>3. /\ pmCall' \in MonCalls /\ pmCall'.pc = "low" /\ pmCall'.unit = pmCall.unit /\ pmCall'.id = pmCall.id
        /\ pmCall'.during = pmCall.during
        /\ pmCall'.high = pmCount[pmCall.unit][pmCall.id] \div MonitorWord
    BY <1>0, <2>1, <2>2 DEF MonCalls, MonPcs
  <2>4. MonGoesOn(pmCall', pmCount[pmCall'.unit][pmCall'.id], since[pmCall'.unit][pmCall'.id])
    BY <1>1, <2>1, <2>2, <2>3 DEF MonGoesOn, Monitor!Idle, Monitor!At
  <2> QED
    BY <1>0, <1>1, <2>1, <2>3, <2>4, MonCallStep
       DEF MonTyped, Monitor!Idle, Monitor!At
<1>6. ASSUME Monitor!ReadLow PROVE MonInv'
  <2>. DEFINE n == pmCount[pmCall.unit][pmCall.id]
  <2>1. /\ pmCall.pc = "low" /\ pmCall' = [pmCall EXCEPT !.pc = "again", !.low = n % MonitorWord]
        /\ UNCHANGED <<select, filter, pmCount, since, happened>>
    BY <1>6 DEF Monitor!ReadLow, Monitor!At
  <2>2. n \in Nat /\ n \div MonitorWord \in Nat /\ n % MonitorWord \in 0 .. MonitorWord - 1 /\ n = MonitorWord * (n \div MonitorWord) + (n % MonitorWord)
    BY <1>1, <2>1, DivNat, MonConsts DEF Monitor!Idle, Monitor!At
  <2>3. /\ pmCall' \in MonCalls /\ pmCall'.pc = "again" /\ pmCall'.unit = pmCall.unit /\ pmCall'.id = pmCall.id
        /\ pmCall'.during = pmCall.during /\ pmCall'.high = pmCall.high
        /\ pmCall'.low = n % MonitorWord
    <3>1. n % MonitorWord \in Nat
      BY <2>2, MonConsts
    <3>2. ASSUME NEW l \in Nat,
                 pmCall' = [pmCall EXCEPT !.pc = "again", !.low = l]
          PROVE  /\ pmCall' \in MonCalls /\ pmCall'.pc = "again" /\ pmCall'.unit = pmCall.unit /\ pmCall'.id = pmCall.id
                 /\ pmCall'.during = pmCall.during
                 /\ pmCall'.high = pmCall.high /\ pmCall'.low = l
      BY <1>0, <3>2 DEF MonCalls, MonPcs
    <3> QED BY <2>1, <3>1, <3>2
  <2>4. /\ pmCall.during <= since[pmCall.unit][pmCall.id].least /\ pmCall.high <= n \div MonitorWord
        /\ since[pmCall.unit][pmCall.id].least <= n
        /\ since[pmCall.unit][pmCall.id].least \in Nat
    BY <1>0, <1>1, <2>1
       DEF MonGoesOn, Monitor!Idle, Monitor!At, MonInBounds, MonBounds
  <2>5. (pmCall.high * MonitorWord) + (n % MonitorWord) <= n
    <3>. DEFINE q == n \div MonitorWord  r == n % MonitorWord  h == pmCall.high
    <3>1. q \in Nat /\ r \in Nat /\ h \in Nat /\ h <= q /\ n = MonitorWord * q + r /\ MonitorWord \in Nat \ {0}
      BY <1>2, <2>2, <2>4, MonConsts
    <3>. HIDE DEF q, r, h, n
    <3>2. h * MonitorWord <= q * MonitorWord
      BY <3>1
    <3>3. h * MonitorWord + r <= n
      BY <3>1, <3>2
    <3> QED BY <3>3 DEF r, h
  <2>6. n \div MonitorWord = pmCall.high => pmCall.during <= (pmCall.high * MonitorWord) + (n % MonitorWord)
    BY <1>2, <2>2, <2>4, MonConsts
  <2>7. MonGoesOn(pmCall', n, since[pmCall.unit][pmCall.id])
    BY <2>3, <2>4, <2>5, <2>6 DEF MonGoesOn
  <2> QED
    BY <1>0, <1>1, <2>1, <2>3, <2>7, MonCallStep
       DEF MonTyped, Monitor!Idle, Monitor!At
<1>7. ASSUME Monitor!ReadAgain PROVE MonInv'
  <2>. DEFINE n == pmCount[pmCall.unit][pmCall.id]
              v == (pmCall.high * MonitorWord) + pmCall.low
  <2>1. /\ pmCall.pc = "again" /\ UNCHANGED <<select, filter, pmCount, since, happened>>
        /\ pmCall' = IF Monitor!Changed THEN [pmCall EXCEPT !.pc = "high"] ELSE [pmCall EXCEPT !.pc = "done", !.value = v]
    BY <1>7 DEF Monitor!ReadAgain, Monitor!At
  <2>2. /\ n \in Nat /\ v \in Nat /\ since[pmCall.unit][pmCall.id].most \in Nat
        /\ n <= since[pmCall.unit][pmCall.id].most /\ v <= n
    BY <1>0, <1>1, <1>2, <2>1, MonConsts
       DEF MonGoesOn, Monitor!Idle, Monitor!At, MonInBounds, MonBounds
  <2>3. CASE Monitor!Changed
    <3>1. pmCall' \in MonCalls /\ pmCall'.pc = "high" /\ pmCall'.unit = pmCall.unit /\ pmCall'.id = pmCall.id
          /\ pmCall'.during = pmCall.during
      BY <1>0, <2>1, <2>3 DEF MonCalls, MonPcs
    <3>2. MonGoesOn(pmCall', n, since[pmCall.unit][pmCall.id])
      BY <1>1, <2>1, <3>1 DEF MonGoesOn, Monitor!Idle, Monitor!At
    <3> QED
      BY <1>0, <1>1, <2>1, <3>1, <3>2, MonCallStep
         DEF MonTyped, Monitor!Idle, Monitor!At
  <2>4. CASE ~Monitor!Changed
    <3>1. pmCall' \in MonCalls /\ pmCall'.pc = "done" /\ pmCall'.unit = pmCall.unit /\ pmCall'.id = pmCall.id
          /\ pmCall'.during = pmCall.during /\ pmCall'.value = v
      BY <1>0, <2>1, <2>2, <2>4 DEF MonCalls, MonPcs
    <3>2. pmCall.during <= v
      BY <1>1, <2>1, <2>4
         DEF MonGoesOn, Monitor!Idle, Monitor!At, Monitor!Changed
    <3>3. MonGoesOn(pmCall', n, since[pmCall.unit][pmCall.id])
      BY <1>2, <2>2, <3>1, <3>2 DEF MonGoesOn
    <3> QED
      BY <1>0, <1>1, <2>1, <3>1, <3>3, MonCallStep
         DEF MonTyped, Monitor!Idle, Monitor!At
  <2> QED BY <2>3, <2>4
<1>8. ASSUME Monitor!EndRead PROVE MonInv'
  <2>1. pmCall.pc = "done" /\ pmCall' = Monitor!NoCall /\ UNCHANGED <<select, filter, pmCount, since, happened>>
    BY <1>8 DEF Monitor!EndRead, Monitor!At
  <2>2. pmCall' \in MonCalls /\ pmCall'.pc = "idle"
    BY <2>1 DEF Monitor!NoCall, MonCalls, MonPcs
  <2> QED BY <1>0, <2>1, <2>2, MonCallStep DEF MonTyped
<1>9. ASSUME NEW u \in Caches, NEW i \in MonitorIds,
             NEW clients \in SUBSET Hits, Monitor!SetSelector(u, i, clients)
      PROVE  MonInv'
  <2>1. /\ pmCall.pc = "idle" /\ UNCHANGED <<filter, pmCount, since, pmCall, happened>>
        /\ select' = IF i < Monitors THEN [select EXCEPT ![u][i] = clients] ELSE select
    BY <1>9 DEF Monitor!SetSelector, Monitor!Idle, Monitor!At
  <2>2. select' \in [Caches -> [Monitor!Existing -> SUBSET Hits]]
    <3>1. CASE i < Monitors
      <4>1. i \in Monitor!Existing
        BY <3>1 DEF Monitor!Existing
      <4>2. [select[u] EXCEPT ![i] = clients] \in [Monitor!Existing -> SUBSET Hits]
        BY <1>0, <4>1 DEF MonTyped
      <4>3. select' = [select EXCEPT ![u] = [select[u] EXCEPT ![i] = clients]]
        BY <2>1, <3>1
      <4> QED BY <1>0, <4>2, <4>3 DEF MonTyped
    <3> QED BY <1>0, <2>1, <3>1 DEF MonTyped
  <2> QED BY <1>0, <2>1, <2>2, MonCallStep DEF MonTyped
<1>10. ASSUME NEW u \in Caches, NEW clients \in SUBSET Clients,
              Monitor!SetFilter(u, clients)
       PROVE  MonInv'
  <2>1. /\ pmCall.pc = "idle" /\ UNCHANGED <<select, pmCount, since, pmCall, happened>>
        /\ filter' = [filter EXCEPT ![u] = clients]
    BY <1>10 DEF Monitor!SetFilter, Monitor!Idle, Monitor!At
  <2>2. filter' \in [Caches -> SUBSET Clients]
    BY <1>0, <2>1 DEF MonTyped
  <2> QED BY <1>0, <2>1, <2>2, MonCallStep DEF MonTyped
<1>11. ASSUME NEW u \in Caches, NEW i \in MonitorIds, Monitor!BeginClear(u, i)
       PROVE  MonInv'
  <2>1. /\ pmCall.pc = "idle" /\ i < Monitors /\ UNCHANGED <<select, filter, pmCount, since, happened>>
        /\ pmCall' = [Monitor!NoCall EXCEPT !.pc = "clear", !.unit = u, !.id = i]
    BY <1>11 DEF Monitor!BeginClear, Monitor!Begin, Monitor!Idle, Monitor!At
  <2>2. i \in Monitor!Existing /\ i \in Nat
    BY <2>1, MonConsts DEF Monitor!Existing
  <2>3. pmCall' \in MonCalls /\ pmCall'.pc = "clear" /\ pmCall'.unit = u /\ pmCall'.id = i
    BY <2>1, <2>2 DEF Monitor!NoCall, MonCalls, MonPcs
  <2>4. MonGoesOn(pmCall', pmCount[u][i], since[u][i])
    BY <2>3 DEF MonGoesOn
  <2> QED BY <1>0, <2>1, <2>2, <2>3, <2>4, MonCallStep DEF MonTyped
<1>12. ASSUME NEW u \in Caches, NEW i \in MonitorIds, Monitor!BeginRead(u, i)
       PROVE  MonInv'
  <2>1. /\ pmCall.pc = "idle" /\ i < Monitors /\ UNCHANGED <<select, filter, pmCount, since, happened>>
        /\ pmCall' = [Monitor!NoCall EXCEPT !.pc = "high", !.unit = u, !.id = i, !.during = since[u][i].least]
    BY <1>12 DEF Monitor!BeginRead, Monitor!Idle, Monitor!At
  <2>2. i \in Monitor!Existing /\ i \in Nat /\ since[u][i].least \in Nat
    <3>1. i \in Monitor!Existing
      BY <2>1 DEF Monitor!Existing
    <3> QED BY <1>0, <3>1, MonConsts DEF MonTyped, MonBounds
  <2>3. pmCall' \in MonCalls /\ pmCall'.pc = "high" /\ pmCall'.unit = u /\ pmCall'.id = i /\ pmCall'.during = since[u][i].least
    BY <2>1, <2>2 DEF Monitor!NoCall, MonCalls, MonPcs
  <2>4. MonGoesOn(pmCall', pmCount[u][i], since[u][i])
    BY <2>2, <2>3 DEF MonGoesOn
  <2> QED BY <1>0, <2>1, <2>2, <2>3, <2>4, MonCallStep DEF MonTyped
<1>13. CASE UNCHANGED Monitor!vars
  BY <1>13
     DEF Monitor!vars, MonInv, MonTyped, MonInBounds, MonGoesOn, Monitor!Idle,
         Monitor!At
<1> QED
  BY <1>3, <1>4, <1>5, <1>6, <1>7, <1>8, <1>9, <1>10, <1>11, <1>12, <1>13,
     MonEventStep DEF Monitor!Next

(* A counter has what was selected since it was cleared, and is read whole.  *)
LEMMA MonFollows == MonInv => Monitor!TypeOK /\ Monitor!CounterIsExact
<1> SUFFICES ASSUME MonInv
             PROVE  Monitor!TypeOK /\ Monitor!CounterIsExact OBVIOUS
<1>1. Monitor!TypeOK
  BY DEF MonInv, MonTyped, MonCalls, MonPcs, Monitor!TypeOK
<1>2. Monitor!CounterIsExact
  BY DEF MonInv, Monitor!CounterIsExact, MonGoesOn, Monitor!Idle, Monitor!At
<1> QED BY <1>1, <1>2

-----------------------------------------------------------------------------
(* The bus-error unit.                                                        *)

LEMMA BeuAssumed == BusError!BusErrorAssumption
  BY Instances

(* The lines by which errors reach harts.                                    *)
Lines == {"platform", "local"}

BeuTyped ==
    /\ beuEnable \in SUBSET Errors /\ accrued \in SUBSET Errors
    /\ platform \in SUBSET Errors
    /\ local \in SUBSET Errors /\ rc \in SUBSET Errors
    /\ recorded \in SUBSET Errors
    /\ cause \in Errors \cup {BusError!None}
    /\ beuOp \in [pc : {"idle", "write"}, events : SUBSET Errors, seen : SUBSET Errors]
    /\ beuWants \in [Lines -> SUBSET Errors]

(* The invariant of the bus-error unit: the lines have what was asked for.   *)
BeuInv ==
    /\ BeuTyped /\ beuEnable = recorded
    /\ platform = beuWants["platform"] /\ local = beuWants["local"]

LEMMA BeuInitially == BusError!Init => BeuInv
  BY DEF BusError!Init, BeuInv, BeuTyped, BusError!NoOp, Lines

(* What a call makes of the errors of a line.                                *)
LEMMA BeuChangeTyped ==
    ASSUME NEW S \in SUBSET Errors, NEW named \in SUBSET Errors,
           NEW on \in BOOLEAN
    PROVE  BusError!Change(S, named, on) \in SUBSET Errors
  BY DEF BusError!Change

LEMMA BeuInductive == BeuInv /\ [BusError!Next]_BusError!vars => BeuInv'
<1> SUFFICES ASSUME BeuInv, [BusError!Next]_BusError!vars PROVE BeuInv' OBVIOUS
<1>0. BeuTyped /\ Masks \subseteq SUBSET Errors
  BY BeuAssumed DEF BeuInv, BusError!BusErrorAssumption
<1>1. ASSUME NEW e \in Errors, BusError!Occurs(e) PROVE BeuInv'
  BY <1>1 DEF BusError!Occurs, BeuInv, BeuTyped
<1>2. ASSUME NEW named \in Masks, BusError!BeginClear(named) PROVE BeuInv'
  BY <1>0, <1>2 DEF BusError!BeginClear, BeuInv, BeuTyped
<1>3. ASSUME NEW named \in Masks, NEW on \in BOOLEAN,
             BusError!SetEventEnabled(named, on)
      PROVE  BeuInv'
  <2>1. /\ beuEnable' \in SUBSET Errors /\ recorded' \in SUBSET Errors /\ rc' \in SUBSET Errors
        /\ beuEnable' = recorded'
    <3>1. /\ beuEnable' = BusError!Change(beuEnable, named, on) /\ recorded' = BusError!Change(recorded, named, on)
          /\ rc' = IF named \cap beuEnable' = {} THEN beuEnable' ELSE {}
      BY <1>3 DEF BusError!SetEventEnabled
    <3> QED BY <3>1, <1>0, BeuChangeTyped DEF BeuInv, BeuTyped
  <2> QED BY <1>3, <2>1 DEF BusError!SetEventEnabled, BeuInv, BeuTyped
<1>4. ASSUME NEW named \in Masks, NEW on \in BOOLEAN, NEW line \in Lines,
             BusError!SetInterrupt(line, named, on)
      PROVE  BeuInv'
  <2>1. beuWants' = [beuWants EXCEPT ![line] = BusError!Change(beuWants[line], named, on)]
    BY <1>4 DEF BusError!SetInterrupt
  <2>2. beuWants' \in [Lines -> SUBSET Errors]
    BY <2>1, <1>0, BeuChangeTyped DEF BeuTyped
  <2>3. beuWants'[line] = BusError!Change(beuWants[line], named, on) /\ \A l \in Lines \ {line} : beuWants'[l] = beuWants[l]
    BY <2>1, <1>0 DEF BeuTyped
  <2>4. platform' = beuWants'["platform"] /\ local' = beuWants'["local"]
    BY <2>3, <1>4 DEF BusError!SetInterrupt, BusError!LineOf, BeuInv, Lines
  <2>5. platform' \in SUBSET Errors /\ local' \in SUBSET Errors
    BY <2>2, <2>4 DEF Lines
  <2> QED BY <1>4, <2>2, <2>4, <2>5 DEF BusError!SetInterrupt, BeuInv, BeuTyped
<1>5. CASE BusError!ClearCause
  BY <1>5 DEF BusError!ClearCause, BeuInv, BeuTyped
<1>6. CASE BusError!WriteClear
  BY <1>6
     DEF BusError!WriteClear, BeuInv, BeuTyped, BusError!Kept, BusError!NoOp
<1>7. CASE UNCHANGED BusError!vars
  BY <1>7 DEF BusError!vars, BeuInv, BeuTyped
<1> QED BY <1>1, <1>2, <1>3, <1>4, <1>5, <1>6, <1>7 DEF BusError!Next, Lines

(* The lines are as asked.                                                   *)
LEMMA BeuFollows == BeuInv => BusError!TypeOK /\ BusError!LinesAsAsked
  BY DEF BeuInv, BeuTyped, BusError!TypeOK, BusError!LinesAsAsked

(* An error that has occurred is cleared only by a call that names it, or by *)
(* a write whose read had not seen it.                                       *)
LEMMA BeuEvents ==
    ASSUME [BusError!Next]_BusError!vars, NEW e \in Errors, e \in accrued,
           e \notin accrued'
    PROVE  e \in beuOp.events \/ e \notin beuOp.seen
  BY
     DEF BusError!Next, BusError!vars, BusError!Occurs, BusError!BeginClear,
         BusError!SetEventEnabled, BusError!SetInterrupt, BusError!ClearCause,
         BusError!WriteClear, BusError!Kept

-----------------------------------------------------------------------------
(* The remapper.                                                              *)

LEMMA RemapAssumed == Remapper!RemapperAssumption
  BY Instances

(* The entries s with those of a set enabled, or disabled.                   *)
ChangedTo(s, set, e) == IF e THEN s \cup set ELSE s \ set

(* Entry i is mapped as was asked.                                           *)
Mapped(i) == mapAsked[i] = [from |-> from[i], to |-> to[i]]
AllMapped == \A i \in MapEntries : Mapped(i)

(* The calls with the steps that they have still to do.  Enabling an entry   *)
(* reads its register and writes it with the key.                            *)
OneWrite(i, e) ==
    Remapper!Write(Remapper!Reg(i), IF e THEN Remapper!InReg(Remapper!Reg(i)) \cap {i} ELSE {}, Remapper!InReg(Remapper!Reg(i)) \cap {i})

InOneRemap(i, e) ==
    /\ loop = Remapper!NoLoop /\ AllMapped
    /\ mapOn = ChangedTo(valid, {i}, e)
    /\ \/ steps = <<Remapper!Key, Remapper!Read(Remapper!Reg(i)), OneWrite(i, e)>> /\ mapSeen = {}
       \/ steps = <<Remapper!Read(Remapper!Reg(i)), OneWrite(i, e)>> /\ key /\ mapSeen = {}
       \/ steps = <<OneWrite(i, e)>> /\ key /\ mapSeen = valid \cap Remapper!InReg(Remapper!Reg(i))

(* Enabling a set goes through the registers of valid bits.                  *)
InWrite(r, set, e) == Remapper!Write(r, IF e THEN Remapper!InReg(r) \cap set ELSE {}, Remapper!InReg(r) \cap set)

InRemaps(r, set, e) ==
    /\ loop = [next |-> r + 1, set |-> set, enable |-> e] /\ AllMapped
    /\ \A i \in MapEntries :
          i \in mapOn <=> i \in IF Remapper!Reg(i) < r THEN valid ELSE ChangedTo(valid, set, e)
    /\ \/ steps = <<Remapper!Read(r), Remapper!Key, InWrite(r, set, e)>> /\ mapSeen = {}
       \/ steps = <<Remapper!Key, InWrite(r, set, e)>> /\ mapSeen = valid \cap Remapper!InReg(r)
       \/ steps = <<InWrite(r, set, e)>> /\ key /\ mapSeen = valid \cap Remapper!InReg(r)

(* Setting a register of valid bits needs its value only.                    *)
InSetValid(r, set) ==
    /\ loop = Remapper!NoLoop /\ AllMapped /\ mapSeen = {}
    /\ mapOn = (valid \ Remapper!InReg(r)) \cup set
    /\ \/ steps = <<Remapper!Key, Remapper!Write(r, set, Remapper!InReg(r))>>
       \/ steps = <<Remapper!Write(r, set, Remapper!InReg(r))>> /\ key

InFlush ==
    /\ loop = Remapper!NoLoop /\ AllMapped /\ mapSeen = {} /\ mapOn = {}
    /\ \/ steps = <<Remapper!Key, [do |-> "flush"]>>
       \/ steps = <<[do |-> "flush"]>> /\ key

(* A mapping is changed while its entry is not valid, in two writes, each of *)
(* which needs the key again.                                                *)
InSetRemap(i, x, y) ==
    /\ loop = Remapper!NoLoop /\ mapSeen = {} /\ valid = mapOn
    /\ i \notin mapOn /\ mapAsked[i] = [from |-> x, to |-> y]
    /\ \A j \in MapEntries \ {i} : Mapped(j)
    /\ \/ steps = <<Remapper!Key, Remapper!From(i, x), Remapper!Key, Remapper!To(i, y)>>
       \/ steps = <<Remapper!From(i, x), Remapper!Key, Remapper!To(i, y)>> /\ key
       \/ steps = <<Remapper!Key, Remapper!To(i, y)>> /\ from[i] = x
       \/ steps = <<Remapper!To(i, y)>> /\ from[i] = x /\ key

(* A call is at one of its steps, or none runs and all is as asked.          *)
RemapProgress ==
    \/ steps = <<>> /\ loop = Remapper!NoLoop /\ valid = mapOn /\ mapSeen = {} /\ AllMapped
    \/ \E i \in MapEntries, e \in BOOLEAN : InOneRemap(i, e)
    \/ \E r \in Remapper!ValidRegs, set \in SUBSET MapEntries, e \in BOOLEAN : InRemaps(r, set, e)
    \/ \E r \in Remapper!ValidRegs : \E set \in SUBSET Remapper!InReg(r) : InSetValid(r, set)
    \/ InFlush
    \/ \E i \in MapEntries, x \in MapRegions, y \in MapRegions : InSetRemap(i, x, y)

RemapTyped ==
    /\ key \in BOOLEAN /\ valid \in SUBSET MapEntries
    /\ mapSeen \in SUBSET MapEntries
    /\ mapOn \in SUBSET MapEntries
    /\ from \in [MapEntries -> MapRegions \cup {Remapper!Unset}]
    /\ to \in [MapEntries -> MapRegions \cup {Remapper!Unset}]
    /\ mapAsked \in [MapEntries -> [from : MapRegions \cup {Remapper!Unset}, to : MapRegions \cup {Remapper!Unset}]]

(* The invariant of the remapper.                                            *)
RemapInv == RemapTyped /\ RemapProgress

(* The register of an entry is one of the registers.                         *)
LEMMA DivBound ==
    ASSUME NEW w \in Nat \ {0}, NEW r \in Nat, NEW i \in 0 .. (w * r) - 1
    PROVE  i \div w \in 0 .. r - 1
<1>1. i \div w \in Int /\ i % w \in 0 .. w - 1 /\ i = w * (i \div w) + (i % w)
  BY w * r \in Nat
<1>. DEFINE q == i \div w
<1>. HIDE DEF q
<1>2. ~(q < 0)
  <2> SUFFICES ASSUME q < 0 PROVE FALSE OBVIOUS
  <2>1. q \in Int /\ q <= -1 BY <1>1 DEF q
  <2>2. w * q <= -w BY <2>1
  <2> QED BY <1>1, <2>1, <2>2 DEF q
<1>3. ~(r <= q)
  <2> SUFFICES ASSUME r <= q PROVE FALSE OBVIOUS
  <2>1. q \in Int /\ w * r \in Nat BY <1>1 DEF q
  <2>2. w * r <= w * q BY <2>1
  <2> QED BY <1>1, <2>1, <2>2 DEF q
<1> QED BY <1>1, <1>2, <1>3 DEF q

(* Every entry has one register.                                             *)
LEMMA RemapRegisters ==
    /\ \A i \in MapEntries : Remapper!Reg(i) \in Remapper!ValidRegs /\ i \in Remapper!InReg(Remapper!Reg(i))
    /\ \A i \in MapEntries, r \in Remapper!ValidRegs : i \in Remapper!InReg(r) <=> Remapper!Reg(i) = r
    /\ \A r \in Remapper!ValidRegs : Remapper!InReg(r) \subseteq MapEntries
    /\ RegsNum \in Nat \ {0}
<1>1. ASSUME NEW i \in MapEntries PROVE Remapper!Reg(i) \in Remapper!ValidRegs
  BY RemapAssumed, DivBound
     DEF Remapper!RemapperAssumption, Remapper!Reg, Remapper!ValidRegs
<1> QED BY <1>1, RemapAssumed DEF Remapper!InReg, Remapper!RemapperAssumption

RemapStep == Remapper!WriteKey \/ Remapper!ReadValid \/ Remapper!WriteRegister

\* What the next step s of a call does to the registers.
RemapEffect(s) ==
    /\ UNCHANGED <<mapOn, mapAsked>>
    /\ s.do = "key" => key' = TRUE /\ UNCHANGED <<valid, from, to, mapSeen>>
    /\ s.do = "read" =>
          mapSeen' = valid \cap Remapper!InReg(s.reg) /\ UNCHANGED <<key, valid, from, to>>
    /\ s.do = "valid" =>
          /\ valid' = IF key THEN (valid \ Remapper!InReg(s.reg)) \cup
                                  ((mapSeen \ s.clear) \cup s.set) ELSE valid
          /\ UNCHANGED <<from, to>>
    /\ s.do = "from" =>
          /\ from' = IF key THEN [from EXCEPT ![s.entry] = s.region] ELSE from
          /\ UNCHANGED <<valid, to>>
    /\ s.do = "to" =>
          /\ to' = IF key THEN [to EXCEPT ![s.entry] = s.region] ELSE to
          /\ UNCHANGED <<valid, from>>
    /\ s.do = "flush" =>
          valid' = (IF key THEN {} ELSE valid) /\ UNCHANGED <<from, to>>
    /\ s.do \in {"valid", "from", "to", "flush"} => key' = FALSE /\ mapSeen' = {}

\* After the last step of a call: the loop goes on, or is over.
RemapAfterLast ==
    \/ /\ loop.next < RegsNum
       /\ steps' = Remapper!Remaps(loop.next, loop.set, loop.enable)
       /\ loop' = [loop EXCEPT !.next = @ + 1]
    \/ /\ loop.next = RegsNum
       /\ steps' = <<>> /\ loop' = Remapper!NoLoop

(* A step does the first of the steps left, and leaves the others.           *)
LEMMA RemapStepEffect ==
    ASSUME RemapStep
    PROVE  /\ RemapEffect(Head(steps)) /\ steps # <<>>
           /\ \/ Len(steps) > 1 /\ steps' = Tail(steps) /\ UNCHANGED loop
              \/ Len(steps) = 1 /\ RemapAfterLast
<1>1. CASE Remapper!WriteKey
  BY <1>1 DEF Remapper!WriteKey, Remapper!Do, RemapEffect, RemapAfterLast
<1>2. CASE Remapper!ReadValid
  BY <1>2
     DEF Remapper!ReadValid, Remapper!Do, RemapEffect, RemapAfterLast,
         Remapper!regs
<1>3. CASE Remapper!WriteRegister
  <2>1. CASE Remapper!Do("valid")
    BY <1>3, <2>1
       DEF Remapper!WriteRegister, Remapper!Do, RemapEffect, RemapAfterLast
  <2>2. CASE Remapper!Do("from")
    BY <1>3, <2>2
       DEF Remapper!WriteRegister, Remapper!Do, RemapEffect, RemapAfterLast
  <2>3. CASE Remapper!Do("to")
    BY <1>3, <2>3
       DEF Remapper!WriteRegister, Remapper!Do, RemapEffect, RemapAfterLast
  <2>4. CASE Remapper!Do("flush")
    BY <1>3, <2>4
       DEF Remapper!WriteRegister, Remapper!Do, RemapEffect, RemapAfterLast
  <2> QED BY <1>3, <2>1, <2>2, <2>3, <2>4 DEF Remapper!WriteRegister
<1> QED BY <1>1, <1>2, <1>3 DEF RemapStep

LEMMA RemapLastStep ==
    ASSUME RemapStep, NEW s, steps = <<s>>
    PROVE  RemapEffect(s) /\ RemapAfterLast
<1>1. Head(steps) = s /\ Len(steps) = 1
  OBVIOUS
<1> QED BY <1>1, RemapStepEffect

LEMMA RemapFirstOfTwo ==
    ASSUME RemapStep, NEW s, NEW b, steps = <<s, b>>
    PROVE  RemapEffect(s) /\ steps' = <<b>> /\ UNCHANGED loop
<1>1. Head(steps) = s /\ Len(steps) = 2 /\ Tail(steps) = <<b>>
  OBVIOUS
<1> QED BY <1>1, RemapStepEffect

LEMMA RemapFirstOfThree ==
    ASSUME RemapStep, NEW s, NEW b, NEW c, steps = <<s, b, c>>
    PROVE  RemapEffect(s) /\ steps' = <<b, c>> /\ UNCHANGED loop
<1>1. Head(steps) = s /\ Len(steps) = 3 /\ Tail(steps) = <<b, c>>
  OBVIOUS
<1> QED BY <1>1, RemapStepEffect

LEMMA RemapFirstOfFour ==
    ASSUME RemapStep, NEW s, NEW b, NEW c, NEW d, steps = <<s, b, c, d>>
    PROVE  RemapEffect(s) /\ steps' = <<b, c, d>> /\ UNCHANGED loop
<1>1. Head(steps) = s /\ Len(steps) = 4 /\ Tail(steps) = <<b, c, d>>
  OBVIOUS
<1> QED BY <1>1, RemapStepEffect

LEMMA RemapInitially == Remapper!Init => RemapInv
<1> SUFFICES ASSUME Remapper!Init PROVE RemapInv OBVIOUS
<1>1. RemapTyped
  BY DEF Remapper!Init, RemapTyped
<1>2. AllMapped
  BY DEF Remapper!Init, AllMapped, Mapped
<1> QED BY <1>1, <1>2 DEF Remapper!Init, RemapInv, RemapProgress

LEMMA MappedStays ==
    ASSUME AllMapped, UNCHANGED <<from, to, mapAsked>>
    PROVE  AllMapped'
  BY DEF AllMapped, Mapped

(* The steps of each call take it to its next place.                         *)
LEMMA OneRemapStep ==
    ASSUME RemapTyped, RemapStep, NEW i \in MapEntries, NEW e \in BOOLEAN,
           InOneRemap(i, e)
    PROVE  RemapTyped' /\ RemapProgress'
<1>. DEFINE r == Remapper!Reg(i)
            w == OneWrite(i, e)
            bit == Remapper!InReg(r) \cap {i}
<1>0. r \in Remapper!ValidRegs /\ bit = {i} /\ Remapper!InReg(r) \subseteq MapEntries /\ loop.next = RegsNum /\ loop = Remapper!NoLoop
      /\ ~(loop.next < RegsNum)
  BY RemapRegisters DEF InOneRemap, Remapper!NoLoop
<1>1. w.do = "valid" /\ w.reg = r /\ w.clear = {i} /\ w.set = IF e THEN {i} ELSE {}
  BY <1>0 DEF OneWrite, Remapper!Write
<1>2. Remapper!Key.do = "key" /\ Remapper!Read(r).do = "read" /\ Remapper!Read(r).reg = r
  BY DEF Remapper!Key, Remapper!Read
<1>3. mapOn = ChangedTo(valid, {i}, e) /\ AllMapped
  BY DEF InOneRemap
<1>. HIDE DEF w, bit
<1>4. CASE steps = <<Remapper!Key, Remapper!Read(r), w>> /\ mapSeen = {}
  <2>1. steps' = <<Remapper!Read(r), w>> /\ key' = TRUE /\ UNCHANGED <<loop, valid, from, to, mapSeen, mapOn, mapAsked>>
    <3>1. RemapEffect(Remapper!Key) /\ steps' = <<Remapper!Read(r), w>> /\ UNCHANGED loop
      BY <1>4, RemapFirstOfThree
    <3> QED BY <1>2, <1>4, <3>1 DEF RemapEffect
  <2>2. InOneRemap(i, e)'
    BY <2>1, <1>0, <1>3, <1>4, MappedStays DEF InOneRemap, ChangedTo, w
  <2> QED BY <2>1, <2>2 DEF RemapTyped, RemapProgress
<1>5. CASE steps = <<Remapper!Read(r), w>> /\ key /\ mapSeen = {}
  <2>1. steps' = <<w>> /\ mapSeen' = valid \cap Remapper!InReg(r) /\ UNCHANGED <<loop, key, valid, from, to, mapOn, mapAsked>>
    <3>1. RemapEffect(Remapper!Read(r)) /\ steps' = <<w>> /\ UNCHANGED loop
      BY <1>5, RemapFirstOfTwo
    <3> QED BY <1>2, <1>5, <3>1 DEF RemapEffect
  <2>2. InOneRemap(i, e)'
    BY <2>1, <1>0, <1>3, <1>5, MappedStays DEF InOneRemap, ChangedTo, w
  <2> QED BY <2>1, <2>2 DEF RemapTyped, RemapProgress
<1>6. CASE steps = <<w>> /\ key /\ mapSeen = valid \cap Remapper!InReg(r)
  <2>1. /\ steps' = <<>> /\ loop' = Remapper!NoLoop /\ mapSeen' = {} /\ key' = FALSE /\ UNCHANGED <<from, to, mapOn, mapAsked>>
        /\ valid' = (valid \ Remapper!InReg(r)) \cup ((mapSeen \ {i}) \cup (IF e THEN {i} ELSE {}))
    <3>1. RemapEffect(w) /\ RemapAfterLast
      BY <1>6, RemapLastStep
    <3> QED BY <1>0, <1>1, <1>6, <3>1 DEF RemapEffect, RemapAfterLast
  <2>2. valid' = mapOn'
    BY <2>1, <1>0, <1>3, <1>6 DEF ChangedTo, bit
  <2>3. AllMapped'
    BY <2>1, <1>3, MappedStays
  <2> QED BY <2>1, <2>2, <2>3 DEF RemapTyped, RemapProgress
<1> QED BY <1>4, <1>5, <1>6 DEF InOneRemap, w

LEMMA RemapsStep ==
    ASSUME RemapTyped, RemapStep, NEW r \in Remapper!ValidRegs,
           NEW set \in SUBSET MapEntries, NEW e \in BOOLEAN,
           InRemaps(r, set, e)
    PROVE  RemapTyped' /\ RemapProgress'
<1>. DEFINE w == InWrite(r, set, e)
            bits == Remapper!InReg(r) \cap set
<1>0. /\ loop = [next |-> r + 1, set |-> set, enable |-> e] /\ AllMapped
      /\ \A i \in MapEntries : i \in mapOn <=> i \in IF Remapper!Reg(i) < r THEN valid ELSE ChangedTo(valid, set, e)
  BY DEF InRemaps
<1>1. w.do = "valid" /\ w.reg = r /\ w.clear = bits /\ w.set = IF e THEN bits ELSE {}
  BY DEF InWrite, Remapper!Write
<1>2. Remapper!Key.do = "key" /\ Remapper!Read(r).do = "read" /\ Remapper!Read(r).reg = r
  BY DEF Remapper!Key, Remapper!Read
<1>3. Remapper!InReg(r) \subseteq MapEntries /\ r \in Nat /\ RegsNum \in Nat /\ r + 1 <= RegsNum
  BY RemapRegisters DEF Remapper!ValidRegs
<1>. HIDE DEF w, bits
<1>4. CASE steps = <<Remapper!Read(r), Remapper!Key, w>> /\ mapSeen = {}
  <2>1. steps' = <<Remapper!Key, w>> /\ mapSeen' = valid \cap Remapper!InReg(r) /\ UNCHANGED <<loop, key, valid, from, to, mapOn, mapAsked>>
    <3>1. RemapEffect(Remapper!Read(r)) /\ steps' = <<Remapper!Key, w>> /\ UNCHANGED loop
      BY <1>4, RemapFirstOfThree
    <3> QED BY <1>2, <1>4, <3>1 DEF RemapEffect
  <2>2. InRemaps(r, set, e)'
    BY <2>1, <1>0, <1>4, MappedStays DEF InRemaps, ChangedTo, w
  <2> QED BY <2>1, <2>2 DEF RemapTyped, RemapProgress
<1>5. CASE steps = <<Remapper!Key, w>> /\ mapSeen = valid \cap Remapper!InReg(r)
  <2>1. steps' = <<w>> /\ key' = TRUE /\ UNCHANGED <<loop, valid, from, to, mapSeen, mapOn, mapAsked>>
    <3>1. RemapEffect(Remapper!Key) /\ steps' = <<w>> /\ UNCHANGED loop
      BY <1>5, RemapFirstOfTwo
    <3> QED BY <1>2, <1>5, <3>1 DEF RemapEffect
  <2>2. InRemaps(r, set, e)'
    BY <2>1, <1>0, <1>5, MappedStays DEF InRemaps, ChangedTo, w
  <2> QED BY <2>1, <2>2 DEF RemapTyped, RemapProgress
<1>6. CASE steps = <<w>> /\ key /\ mapSeen = valid \cap Remapper!InReg(r)
  <2>1. /\ mapSeen' = {} /\ key' = FALSE /\ UNCHANGED <<from, to, mapOn, mapAsked>>
        /\ valid' = (valid \ Remapper!InReg(r)) \cup ((mapSeen \ bits) \cup (IF e THEN bits ELSE {}))
    <3>1. RemapEffect(w) /\ RemapAfterLast
      BY <1>6, RemapLastStep
    <3> QED BY <1>1, <1>6, <3>1 DEF RemapEffect, RemapAfterLast
  <2>2. AllMapped' /\ RemapTyped'
    <3>1. AllMapped'
      BY <1>0, <2>1, MappedStays
    <3>2. valid' \in SUBSET MapEntries
      BY <1>3, <1>6, <2>1 DEF RemapTyped, bits
    <3> QED BY <2>1, <3>1, <3>2 DEF RemapTyped
  <2>3. \A i \in MapEntries : i \in valid' <=> i \in IF Remapper!Reg(i) = r THEN ChangedTo(valid, set, e) ELSE valid
    BY <1>6, <2>1, RemapRegisters DEF ChangedTo, bits
  <2>4. ASSUME NEW i \in MapEntries
        PROVE  Remapper!Reg(i) \in Int /\ Remapper!Reg(i) <= RegsNum - 1
    <3>1. Remapper!Reg(i) \in Remapper!ValidRegs
      BY RemapRegisters
    <3> QED BY <3>1, <1>3 DEF Remapper!ValidRegs
  <2>5. \A i \in MapEntries : i \in mapOn' <=> i \in IF Remapper!Reg(i) < r + 1 THEN valid' ELSE ChangedTo(valid', set, e)
    <3> SUFFICES ASSUME NEW i \in MapEntries
                 PROVE  i \in mapOn' <=> i \in IF Remapper!Reg(i) < r + 1 THEN valid' ELSE ChangedTo(valid', set, e)
      OBVIOUS
    <3>1. Remapper!Reg(i) \in Int
      BY <2>4
    <3>2. CASE Remapper!Reg(i) < r
      BY <3>1, <3>2, <1>0, <1>3, <2>1, <2>3
    <3>3. CASE Remapper!Reg(i) = r
      BY <3>1, <3>3, <1>0, <1>3, <2>1, <2>3
    <3>4. CASE Remapper!Reg(i) > r
      BY <3>1, <3>4, <1>0, <1>3, <2>1, <2>3 DEF ChangedTo
    <3> QED BY <3>1, <3>2, <3>3, <3>4, <1>3
  <2>6. CASE r + 1 < RegsNum
    <3>1. steps' = Remapper!Remaps(r + 1, set, e) /\ loop' = [next |-> (r + 1) + 1, set |-> set, enable |-> e]
      <4>1. RemapAfterLast
        BY <1>6, RemapLastStep
      <4>2. loop.next = r + 1 /\ loop.set = set /\ loop.enable = e
        BY <1>0
      <4>3. steps' = Remapper!Remaps(loop.next, loop.set, loop.enable) /\ loop' = [loop EXCEPT !.next = @ + 1]
        BY <4>1, <4>2, <1>3, <2>6 DEF RemapAfterLast
      <4>4. loop' = [next |-> (r + 1) + 1, set |-> set, enable |-> e]
        BY <4>3, <1>0
      <4> QED BY <4>2, <4>3, <4>4, <1>3
    <3>2. steps' = <<Remapper!Read(r + 1), Remapper!Key, InWrite(r + 1, set, e)>>
      BY <3>1 DEF Remapper!Remaps, InWrite
    <3>3. r + 1 \in Remapper!ValidRegs
      BY <1>3, <2>6 DEF Remapper!ValidRegs
    <3>4. InRemaps(r + 1, set, e)'
      BY <3>1, <3>2, <2>1, <2>2, <2>5, <1>3 DEF InRemaps, ChangedTo
    <3> QED BY <2>2, <3>3, <3>4 DEF RemapProgress
  <2>7. CASE r + 1 = RegsNum
    <3>1. steps' = <<>> /\ loop' = Remapper!NoLoop
      <4>1. RemapAfterLast /\ loop.next = r + 1
        BY <1>0, <1>6, RemapLastStep
      <4> QED BY <4>1, <2>7, <1>3 DEF RemapAfterLast
    <3>2. \A i \in MapEntries : i \in mapOn' <=> i \in valid'
      BY <2>4, <2>5, <2>7, <1>3
    <3>3. mapOn' = valid'
      BY <3>2, <2>2 DEF RemapTyped
    <3> QED BY <2>1, <2>2, <3>1, <3>3 DEF RemapProgress
  <2> QED BY <2>6, <2>7, <1>3
<1> QED BY <1>4, <1>5, <1>6 DEF InRemaps, w

LEMMA SetValidStep ==
    ASSUME RemapTyped, RemapStep, NEW r \in Remapper!ValidRegs,
           NEW set \in SUBSET Remapper!InReg(r), InSetValid(r, set)
    PROVE  RemapTyped' /\ RemapProgress'
<1>. DEFINE w == Remapper!Write(r, set, Remapper!InReg(r))
<1>0. /\ loop = Remapper!NoLoop /\ loop.next = RegsNum /\ ~(loop.next < RegsNum) /\ AllMapped /\ mapSeen = {}
      /\ mapOn = (valid \ Remapper!InReg(r)) \cup set
      /\ Remapper!InReg(r) \subseteq MapEntries
  BY RemapRegisters DEF InSetValid, Remapper!NoLoop
<1>1. w.do = "valid" /\ w.reg = r /\ w.clear = Remapper!InReg(r) /\ w.set = set
  BY DEF Remapper!Write
<1>2. Remapper!Key.do = "key"
  BY DEF Remapper!Key
<1>. HIDE DEF w
<1>3. CASE steps = <<Remapper!Key, w>>
  <2>1. steps' = <<w>> /\ key' = TRUE /\ UNCHANGED <<loop, valid, from, to, mapSeen, mapOn, mapAsked>>
    <3>1. RemapEffect(Remapper!Key) /\ steps' = <<w>> /\ UNCHANGED loop
      BY <1>3, RemapFirstOfTwo
    <3> QED BY <1>2, <1>3, <3>1 DEF RemapEffect
  <2>2. InSetValid(r, set)'
    BY <2>1, <1>0, MappedStays DEF InSetValid, w
  <2> QED BY <2>1, <2>2 DEF RemapTyped, RemapProgress
<1>4. CASE steps = <<w>> /\ key
  <2>1. /\ steps' = <<>> /\ loop' = Remapper!NoLoop /\ mapSeen' = {} /\ key' = FALSE /\ UNCHANGED <<from, to, mapOn, mapAsked>>
        /\ valid' = (valid \ Remapper!InReg(r)) \cup ((mapSeen \ Remapper!InReg(r)) \cup set)
    <3>1. RemapEffect(w) /\ RemapAfterLast
      BY <1>4, RemapLastStep
    <3> QED BY <1>0, <1>1, <1>4, <3>1 DEF RemapEffect, RemapAfterLast
  <2>2. valid' = mapOn'
    BY <2>1, <1>0
  <2>3. AllMapped'
    BY <2>1, <1>0, MappedStays
  <2> QED BY <2>1, <2>2, <2>3 DEF RemapTyped, RemapProgress
<1> QED BY <1>3, <1>4 DEF InSetValid, w

LEMMA FlushStep ==
    ASSUME RemapTyped, RemapStep, InFlush
    PROVE  RemapTyped' /\ RemapProgress'
<1>. DEFINE w == [do |-> "flush"]
<1>0. loop = Remapper!NoLoop /\ loop.next = RegsNum /\ ~(loop.next < RegsNum) /\ AllMapped /\ mapSeen = {} /\ mapOn = {}
  BY RemapRegisters DEF InFlush, Remapper!NoLoop
<1>1. w.do = "flush" /\ Remapper!Key.do = "key"
  BY DEF Remapper!Key
<1>. HIDE DEF w
<1>2. CASE steps = <<Remapper!Key, w>>
  <2>1. steps' = <<w>> /\ key' = TRUE /\ UNCHANGED <<loop, valid, from, to, mapSeen, mapOn, mapAsked>>
    <3>1. RemapEffect(Remapper!Key) /\ steps' = <<w>> /\ UNCHANGED loop
      BY <1>2, RemapFirstOfTwo
    <3> QED BY <1>1, <1>2, <3>1 DEF RemapEffect
  <2>2. InFlush'
    BY <2>1, <1>0, MappedStays DEF InFlush, w
  <2> QED BY <2>1, <2>2 DEF RemapTyped, RemapProgress
<1>3. CASE steps = <<w>> /\ key
  <2>1. /\ steps' = <<>> /\ loop' = Remapper!NoLoop /\ mapSeen' = {} /\ key' = FALSE /\ UNCHANGED <<from, to, mapOn, mapAsked>>
        /\ valid' = {}
    <3>1. RemapEffect(w) /\ RemapAfterLast
      BY <1>3, RemapLastStep
    <3> QED BY <1>0, <1>1, <1>3, <3>1 DEF RemapEffect, RemapAfterLast
  <2>2. AllMapped'
    BY <2>1, <1>0, MappedStays
  <2> QED BY <2>1, <2>2, <1>0 DEF RemapTyped, RemapProgress
<1> QED BY <1>2, <1>3 DEF InFlush, w

LEMMA SetRemapStep ==
    ASSUME RemapTyped, RemapStep, NEW i \in MapEntries, NEW x \in MapRegions,
           NEW y \in MapRegions, InSetRemap(i, x, y)
    PROVE  RemapTyped' /\ RemapProgress'
<1>. DEFINE f == Remapper!From(i, x)
            t == Remapper!To(i, y)
<1>0. /\ loop = Remapper!NoLoop /\ loop.next = RegsNum /\ ~(loop.next < RegsNum) /\ mapSeen = {}
      /\ valid = mapOn /\ i \notin mapOn
      /\ mapAsked[i] = [from |-> x, to |-> y]
      /\ \A j \in MapEntries \ {i} : Mapped(j)
  BY RemapRegisters DEF InSetRemap, Remapper!NoLoop
<1>1. f.do = "from" /\ f.entry = i /\ f.region = x /\ t.do = "to" /\ t.entry = i /\ t.region = y
      /\ Remapper!Key.do = "key"
  BY DEF Remapper!From, Remapper!To, Remapper!Key
<1>. HIDE DEF f, t
<1>2. CASE steps = <<Remapper!Key, f, Remapper!Key, t>>
  <2>1. steps' = <<f, Remapper!Key, t>> /\ key' = TRUE /\ UNCHANGED <<loop, valid, from, to, mapSeen, mapOn, mapAsked>>
    <3>1. RemapEffect(Remapper!Key) /\ steps' = <<f, Remapper!Key, t>> /\ UNCHANGED loop
      BY <1>2, RemapFirstOfFour
    <3> QED BY <1>1, <1>2, <3>1 DEF RemapEffect
  <2>2. InSetRemap(i, x, y)'
    BY <2>1, <1>0 DEF InSetRemap, Mapped, f, t
  <2> QED BY <2>1, <2>2 DEF RemapTyped, RemapProgress
<1>3. CASE steps = <<f, Remapper!Key, t>> /\ key
  <2>1. steps' = <<Remapper!Key, t>> /\ key' = FALSE /\ mapSeen' = {} /\ from' = [from EXCEPT ![i] = x] /\ UNCHANGED <<loop, valid, to, mapOn, mapAsked>>
    <3>1. RemapEffect(f) /\ steps' = <<Remapper!Key, t>> /\ UNCHANGED loop
      BY <1>3, RemapFirstOfThree
    <3> QED BY <1>1, <1>3, <3>1 DEF RemapEffect
  <2>2. from' \in [MapEntries -> MapRegions \cup {Remapper!Unset}] /\ from'[i] = x /\ \A j \in MapEntries \ {i} : from'[j] = from[j]
    BY <2>1 DEF RemapTyped
  <2>3. InSetRemap(i, x, y)'
    BY <2>1, <2>2, <1>0 DEF InSetRemap, Mapped, f, t
  <2> QED BY <2>1, <2>2, <2>3 DEF RemapTyped, RemapProgress
<1>4. CASE steps = <<Remapper!Key, t>> /\ from[i] = x
  <2>1. steps' = <<t>> /\ key' = TRUE /\ UNCHANGED <<loop, valid, from, to, mapSeen, mapOn, mapAsked>>
    <3>1. RemapEffect(Remapper!Key) /\ steps' = <<t>> /\ UNCHANGED loop
      BY <1>4, RemapFirstOfTwo
    <3> QED BY <1>1, <1>4, <3>1 DEF RemapEffect
  <2>2. InSetRemap(i, x, y)'
    BY <2>1, <1>0, <1>4 DEF InSetRemap, Mapped, f, t
  <2> QED BY <2>1, <2>2 DEF RemapTyped, RemapProgress
<1>5. CASE steps = <<t>> /\ from[i] = x /\ key
  <2>1. /\ steps' = <<>> /\ loop' = Remapper!NoLoop /\ mapSeen' = {} /\ key' = FALSE /\ UNCHANGED <<valid, from, mapOn, mapAsked>>
        /\ to' = [to EXCEPT ![i] = y]
    <3>1. RemapEffect(t) /\ RemapAfterLast
      BY <1>5, RemapLastStep
    <3> QED BY <1>0, <1>1, <1>5, <3>1 DEF RemapEffect, RemapAfterLast
  <2>2. to' \in [MapEntries -> MapRegions \cup {Remapper!Unset}] /\ to'[i] = y /\ \A j \in MapEntries \ {i} : to'[j] = to[j]
    BY <2>1 DEF RemapTyped
  <2>3. AllMapped'
    BY <2>1, <2>2, <1>0, <1>5 DEF AllMapped, Mapped
  <2> QED BY <2>1, <2>2, <2>3, <1>0 DEF RemapTyped, RemapProgress
<1> QED BY <1>2, <1>3, <1>4, <1>5 DEF InSetRemap, f, t

(* Every call begins at its first step.                                      *)
LEMMA RemapCallBegins ==
    ASSUME RemapInv,
           \/ \E i \in MapEntries : \E enable \in BOOLEAN : Remapper!EnableRemap(i, enable)
           \/ \E set \in SUBSET MapEntries, enable \in BOOLEAN : Remapper!EnableRemaps(set, enable)
           \/ \E r \in Remapper!ValidRegs : \E set \in SUBSET Remapper!InReg(r) : Remapper!SetValid(r, set)
           \/ \E i \in MapEntries, x, y \in MapRegions : Remapper!SetRemap(i, x, y)
           \/ Remapper!Flush
    PROVE  RemapInv'
<1>0. RemapTyped /\ steps = <<>> /\ UNCHANGED <<key, valid, from, to, mapSeen>> /\ RemapProgress
  BY
     DEF RemapInv, Remapper!EnableRemap, Remapper!EnableRemaps,
         Remapper!SetValid, Remapper!SetRemap, Remapper!Flush,
         Remapper!Returned, Remapper!regs
<1>1. loop = Remapper!NoLoop /\ valid = mapOn /\ mapSeen = {} /\ AllMapped
  BY <1>0
     DEF RemapProgress, InOneRemap, InRemaps, InSetValid, InFlush, InSetRemap
<1>2. ASSUME NEW i \in MapEntries, NEW e \in BOOLEAN,
             Remapper!EnableRemap(i, e)
      PROVE  RemapInv'
  <2>1. steps' = <<Remapper!Key, Remapper!Read(Remapper!Reg(i)), OneWrite(i, e)>> /\ mapOn' = ChangedTo(mapOn, {i}, e) /\ UNCHANGED <<loop, mapAsked>>
    BY <1>2 DEF Remapper!EnableRemap, Remapper!OneRemap, OneWrite, ChangedTo
  <2>2. InOneRemap(i, e)'
    BY <2>1, <1>0, <1>1, MappedStays DEF InOneRemap, ChangedTo
  <2> QED
    BY <2>1, <2>2, <1>0 DEF RemapInv, RemapTyped, RemapProgress, ChangedTo
<1>3. ASSUME NEW set \in SUBSET MapEntries, NEW e \in BOOLEAN,
             Remapper!EnableRemaps(set, e)
      PROVE  RemapInv'
  <2>1. /\ steps' = <<Remapper!Read(0), Remapper!Key, InWrite(0, set, e)>> /\ mapOn' = ChangedTo(mapOn, set, e)
        /\ loop' = [next |-> 0 + 1, set |-> set, enable |-> e]
        /\ UNCHANGED mapAsked
    BY <1>3 DEF Remapper!EnableRemaps, Remapper!Remaps, InWrite, ChangedTo
  <2>2. 0 \in Remapper!ValidRegs /\ \A i \in MapEntries : ~(Remapper!Reg(i) < 0)
    BY RemapRegisters DEF Remapper!ValidRegs
  <2>3. InRemaps(0, set, e)'
    BY <2>1, <2>2, <1>0, <1>1, MappedStays DEF InRemaps, ChangedTo
  <2> QED
    BY <2>1, <2>2, <2>3, <1>0
       DEF RemapInv, RemapTyped, RemapProgress, ChangedTo
<1>4. ASSUME NEW r \in Remapper!ValidRegs,
             NEW set \in SUBSET Remapper!InReg(r), Remapper!SetValid(r, set)
      PROVE  RemapInv'
  <2>1. steps' = <<Remapper!Key, Remapper!Write(r, set, Remapper!InReg(r))>> /\ mapOn' = (mapOn \ Remapper!InReg(r)) \cup set /\ UNCHANGED <<loop, mapAsked>>
    BY <1>4 DEF Remapper!SetValid, Remapper!SetValidSteps
  <2>2. InSetValid(r, set)'
    BY <2>1, <1>0, <1>1, MappedStays DEF InSetValid
  <2> QED
    BY <2>1, <2>2, <1>0, RemapRegisters DEF RemapInv, RemapTyped, RemapProgress
<1>5. ASSUME NEW i \in MapEntries, NEW x \in MapRegions, NEW y \in MapRegions,
             Remapper!SetRemap(i, x, y)
      PROVE  RemapInv'
  <2>1. /\ steps' = <<Remapper!Key, Remapper!From(i, x), Remapper!Key, Remapper!To(i, y)>> /\ i \notin mapOn
        /\ mapAsked' = [mapAsked EXCEPT ![i] = [from |-> x, to |-> y]]
        /\ UNCHANGED <<loop, mapOn>>
    BY <1>5 DEF Remapper!SetRemap, Remapper!SetRemapSteps
  <2>2. /\ mapAsked' \in [MapEntries -> [from : MapRegions \cup {Remapper!Unset}, to : MapRegions \cup {Remapper!Unset}]]
        /\ mapAsked'[i] = [from |-> x, to |-> y] /\ \A j \in MapEntries \ {i} : mapAsked'[j] = mapAsked[j]
    BY <2>1, <1>0 DEF RemapTyped
  <2>3. InSetRemap(i, x, y)'
    BY <2>1, <2>2, <1>0, <1>1 DEF InSetRemap, AllMapped, Mapped
  <2> QED BY <2>1, <2>2, <2>3, <1>0 DEF RemapInv, RemapTyped, RemapProgress
<1>6. CASE Remapper!Flush
  <2>1. steps' = <<Remapper!Key, [do |-> "flush"]>> /\ mapOn' = {} /\ UNCHANGED <<loop, mapAsked>>
    BY <1>6 DEF Remapper!Flush
  <2>2. InFlush'
    BY <2>1, <1>0, <1>1, MappedStays DEF InFlush
  <2> QED BY <2>1, <2>2, <1>0 DEF RemapInv, RemapTyped, RemapProgress
<1> QED BY <1>2, <1>3, <1>4, <1>5, <1>6

(* The invariant is kept by every step of a call, loops included.            *)
LEMMA RemapInductive == RemapInv /\ [Remapper!Next]_Remapper!vars => RemapInv'
<1> SUFFICES ASSUME RemapInv, [Remapper!Next]_Remapper!vars
             PROVE  RemapInv' OBVIOUS
<1>1. CASE RemapStep
  <2>1. RemapTyped /\ steps # <<>> /\ RemapProgress
    BY <1>1, RemapStepEffect DEF RemapInv
  <2> QED
    BY <2>1, <1>1, OneRemapStep, RemapsStep, SetValidStep, FlushStep,
       SetRemapStep DEF RemapProgress, RemapInv
<1>2. CASE UNCHANGED Remapper!vars
  <2>0. /\ key' = key /\ valid' = valid /\ from' = from /\ to' = to /\ steps' = steps
        /\ loop' = loop /\ mapSeen' = mapSeen /\ mapOn' = mapOn
        /\ mapAsked' = mapAsked
    BY <1>2 DEF Remapper!vars, Remapper!regs
  <2>1. RemapTyped' /\ (AllMapped <=> AllMapped')
    BY <2>0 DEF RemapInv, RemapTyped, AllMapped, Mapped
  <2>2. ASSUME NEW i \in MapEntries, NEW e \in BOOLEAN, InOneRemap(i, e)
        PROVE  InOneRemap(i, e)'
    BY <2>0, <2>1, <2>2 DEF InOneRemap, ChangedTo
  <2>3. ASSUME NEW r \in Remapper!ValidRegs, NEW set \in SUBSET MapEntries,
               NEW e \in BOOLEAN,
               InRemaps(r, set, e)
        PROVE  InRemaps(r, set, e)'
    BY <2>0, <2>1, <2>3 DEF InRemaps, ChangedTo
  <2>4. ASSUME NEW r \in Remapper!ValidRegs,
               NEW set \in SUBSET Remapper!InReg(r), InSetValid(r, set)
        PROVE  InSetValid(r, set)'
    BY <2>0, <2>1, <2>4 DEF InSetValid
  <2>5. InFlush => InFlush'
    BY <2>0, <2>1 DEF InFlush
  <2>6. ASSUME NEW i \in MapEntries, NEW x \in MapRegions,
               NEW y \in MapRegions, InSetRemap(i, x, y)
        PROVE  InSetRemap(i, x, y)'
    BY <2>0, <2>6 DEF InSetRemap, Mapped
  <2> QED
    BY <2>0, <2>1, <2>2, <2>3, <2>4, <2>5, <2>6 DEF RemapInv, RemapProgress
<1> QED BY <1>1, <1>2, RemapCallBegins DEF Remapper!Next, RemapStep

(* Valid bits and mappings are those asked for, and valid mappings whole.    *)
LEMMA RemapFollows ==
    RemapInv =>
      Remapper!TypeOK /\ Remapper!RemapsAsAsked /\ Remapper!MappingsAreWhole
<1> SUFFICES ASSUME RemapInv
             PROVE  Remapper!TypeOK /\ Remapper!RemapsAsAsked /\ Remapper!MappingsAreWhole OBVIOUS
<1>0. RemapTyped /\ RemapProgress
  BY DEF RemapInv
<1>1. Remapper!RemapsAsAsked
  BY <1>0
     DEF Remapper!RemapsAsAsked, RemapProgress, InOneRemap, InRemaps,
         InSetValid, InFlush, InSetRemap
<1>2. \A i \in valid : Mapped(i)
  <2>1. AllMapped => \A i \in valid : Mapped(i)
    BY <1>0 DEF RemapTyped, AllMapped
  <2>2. ASSUME NEW i \in MapEntries, NEW x \in MapRegions,
               NEW y \in MapRegions, InSetRemap(i, x, y)
        PROVE  \A j \in valid : Mapped(j)
    BY <1>0, <2>2 DEF InSetRemap, RemapTyped
  <2> QED
    BY <1>0, <2>1, <2>2
       DEF RemapProgress, InOneRemap, InRemaps, InSetValid, InFlush
<1>3. loop \in [next : 1 .. RegsNum, set : SUBSET MapEntries, enable : BOOLEAN]
  <2>1. Remapper!NoLoop \in [next : 1 .. RegsNum, set : SUBSET MapEntries, enable : BOOLEAN]
    BY RemapRegisters DEF Remapper!NoLoop
  <2>2. ASSUME NEW r \in Remapper!ValidRegs, NEW set \in SUBSET MapEntries,
               NEW e \in BOOLEAN
        PROVE  [next |-> r + 1, set |-> set, enable |-> e] \in [next : 1 .. RegsNum, set : SUBSET MapEntries, enable : BOOLEAN]
    BY RemapRegisters DEF Remapper!ValidRegs
  <2> QED
    BY <1>0, <2>1, <2>2
       DEF RemapProgress, InOneRemap, InRemaps, InSetValid, InFlush, InSetRemap
<1> QED
  BY <1>0, <1>1, <1>2, <1>3
     DEF RemapTyped, Remapper!TypeOK, Remapper!MappingsAreWhole, Mapped

-----------------------------------------------------------------------------
(* The heap.                                                                  *)

LEMMA HeapAssumed == Heap!HeapAssumption
  BY Instances

(* The invariant of the heap: what is checked of it is inductive.            *)
HeapInv == Heap!TypeOK /\ Heap!StaysInTheHeap /\ Heap!NothingRaw

(* Scrubbing clears at least one byte, from the old break on, and otherwise  *)
(* no more than what is handed out.                                          *)
LEMMA ScrubbedBytes ==
    ASSUME Heap!HeapAssumption, Heap!TypeOK, NEW incr \in Int
    PROVE  /\ \A a \in Heap!Scrubbed(brk, incr) : a >= brk
           /\ \A a \in Heap!Scrubbed(brk, incr) : a < brk + incr \/ a = brk
           /\ \A a \in brk .. brk + incr - 1 : a \in Heap!Scrubbed(brk, incr)
  BY DEF Heap!HeapAssumption, Heap!TypeOK, Heap!Scrubbed, Heap!Bytes

(* A call that succeeds has moved the break by what was asked, inside the    *)
(* heap, wherever it was.                                                    *)
LEMMA BreakAfterSbrk ==
    ASSUME Heap!HeapAssumption, Heap!TypeOK, NEW incr \in Incs, Heap!Sbrk(incr)
    PROVE  /\ incr \in Int /\ HeapStart \in Int /\ HeapEnd \in Int
           /\ HeapStart <= HeapEnd
           /\ brk \in Int /\ HeapStart <= brk /\ brk <= HeapEnd
           /\ brk' \in Heap!Bytes /\ brk' = brk + incr /\ brk' < HeapEnd
           /\ own' = {a \in Heap!Bytes : a < brk + incr /\ (a \in own \/ a >= brk)}
           /\ mem' = [a \in Heap!Bytes |-> IF a \in Heap!Scrubbed(brk, incr) THEN "zero" ELSE mem[a]]
  <1>1. incr \in Int /\ HeapStart \in Int /\ HeapEnd \in Int /\ HeapStart <= HeapEnd
    BY DEF Heap!HeapAssumption
  <1>2. brk \in Int /\ HeapStart <= brk /\ brk <= HeapEnd
    BY <1>1 DEF Heap!TypeOK, Heap!Bytes
  <1>3. brk' = brk + incr /\ brk + incr < HeapEnd /\ brk + incr >= HeapStart
    BY DEF Heap!Sbrk, Heap!Fits, Heap!MayAsk
  <1>4. brk' \in Heap!Bytes
    BY <1>1, <1>2, <1>3 DEF Heap!Bytes
  <1>. QED  BY <1>1, <1>2, <1>3, <1>4 DEF Heap!Sbrk, Heap!Given

LEMMA HeapInitially ==
    ASSUME Heap!HeapAssumption, Heap!Init
    PROVE  HeapInv
  BY DEF Heap!HeapAssumption, Heap!Init, HeapInv, Heap!TypeOK, Heap!Bytes,
         Heap!StaysInTheHeap, Heap!NothingRaw

(* The invariant is kept by a call that moves the break, and by the others.  *)
LEMMA SbrkKeeps ==
    ASSUME Heap!HeapAssumption, HeapInv, NEW incr \in Incs, Heap!Sbrk(incr)
    PROVE  HeapInv'
  <1>0. Heap!TypeOK
    BY DEF HeapInv
  <1>1. /\ incr \in Int /\ HeapStart \in Int /\ HeapEnd \in Int
        /\ HeapStart <= HeapEnd
        /\ brk \in Int /\ HeapStart <= brk /\ brk <= HeapEnd
        /\ brk' \in Heap!Bytes /\ brk' = brk + incr /\ brk' < HeapEnd
        /\ own' = {a \in Heap!Bytes : a < brk + incr /\ (a \in own \/ a >= brk)}
        /\ mem' = [a \in Heap!Bytes |-> IF a \in Heap!Scrubbed(brk, incr) THEN "zero" ELSE mem[a]]
    BY <1>0, BreakAfterSbrk
  <1>2. Heap!TypeOK'
    BY <1>0, <1>1 DEF Heap!TypeOK
  <1>3. Heap!StaysInTheHeap'
    BY <1>1 DEF Heap!StaysInTheHeap, Heap!Bytes
  <1>4. Heap!NothingRaw'
    <2>. SUFFICES ASSUME NEW a \in own'
                  PROVE  mem'[a] # "raw"
      BY DEF Heap!NothingRaw
    <2>1. a \in Heap!Bytes /\ a \in Int /\ a < brk + incr /\ (a \in own \/ a >= brk)
      BY <1>1 DEF Heap!Bytes
    <2>2. CASE a \in own
      <3>1. mem[a] # "raw"
        BY <2>2 DEF HeapInv, Heap!NothingRaw
      <3>. QED  BY <1>1, <2>1, <3>1
    <2>3. CASE a >= brk
      <3>1. a \in brk .. brk + incr - 1
        BY <1>1, <2>1, <2>3
      <3>2. a \in Heap!Scrubbed(brk, incr)
        BY <1>0, <1>1, <3>1, ScrubbedBytes
      <3>. QED  BY <1>1, <2>1, <3>2
    <2>. QED  BY <2>1, <2>2, <2>3
  <1>. QED  BY <1>2, <1>3, <1>4 DEF HeapInv

LEMMA OthersKeep ==
    ASSUME Heap!HeapAssumption, HeapInv,
           \/ \E incr \in Incs : Heap!SbrkFails(incr)
           \/ \E a \in Heap!Bytes : Heap!Brk(a) \/ Heap!Write(a)
           \/ UNCHANGED Heap!vars
    PROVE  HeapInv'
  <1>1. CASE \E incr \in Incs : Heap!SbrkFails(incr)
    BY <1>1
       DEF Heap!SbrkFails, Heap!HeapAssumption, HeapInv, Heap!TypeOK,
           Heap!StaysInTheHeap, Heap!NothingRaw, Heap!Bytes
  <1>2. CASE \E a \in Heap!Bytes : Heap!Brk(a)
    BY <1>2
       DEF Heap!Brk, Heap!HeapAssumption, HeapInv, Heap!TypeOK,
           Heap!StaysInTheHeap, Heap!NothingRaw, Heap!Bytes
  <1>3. CASE \E a \in Heap!Bytes : Heap!Write(a)
    BY <1>3
       DEF Heap!Write, Heap!HeapAssumption, HeapInv, Heap!TypeOK,
           Heap!StaysInTheHeap, Heap!NothingRaw, Heap!Bytes
  <1>4. CASE UNCHANGED Heap!vars
    BY <1>4
       DEF Heap!vars, HeapInv, Heap!TypeOK, Heap!StaysInTheHeap,
           Heap!NothingRaw
  <1>. QED  BY <1>1, <1>2, <1>3, <1>4

LEMMA HeapInductive ==
    ASSUME Heap!HeapAssumption, HeapInv, [Heap!Next]_Heap!vars
    PROVE  HeapInv'
  BY SbrkKeeps, OthersKeep DEF Heap!Next

(* Scrubbing, which every successful call does, clears nothing the program   *)
(* keeps, and new memory is 0 (_sbrk, metal_mem_scrub); what it clears past  *)
(* the heap, after a call that failed, is one byte.                          *)
LEMMA HeapKept ==
    ASSUME Heap!HeapAssumption, HeapInv, [Heap!Next]_Heap!vars
    PROVE  [/\ \A a \in own \cap own' : mem[a] = "data" => mem'[a] = "data"
            /\ \A a \in own' \ own : mem'[a] = "zero"
            /\ mem'[HeapEnd] # mem[HeapEnd] => brk = HeapEnd /\ brk' < HeapEnd]_Heap!vars
  <1>. DEFINE Old == \A a \in own \cap own' : mem[a] = "data" => mem'[a] = "data"
              Fresh == \A a \in own' \ own : mem'[a] = "zero"
              Past == mem'[HeapEnd] # mem[HeapEnd] => brk = HeapEnd /\ brk' < HeapEnd
  <1>. SUFFICES ASSUME Heap!Next PROVE Old /\ Fresh /\ Past
    OBVIOUS
  <1>0. Heap!TypeOK /\ Heap!StaysInTheHeap
    BY DEF HeapInv
  <1>1. ASSUME NEW incr \in Incs, Heap!Sbrk(incr)
        PROVE  Old /\ Fresh /\ Past
    <2>1. /\ incr \in Int /\ HeapStart \in Int /\ HeapEnd \in Int
          /\ HeapStart <= HeapEnd
          /\ brk \in Int /\ HeapStart <= brk /\ brk <= HeapEnd
          /\ brk' \in Heap!Bytes /\ brk' = brk + incr /\ brk' < HeapEnd
          /\ own' = {a \in Heap!Bytes : a < brk + incr /\ (a \in own \/ a >= brk)}
          /\ mem' = [a \in Heap!Bytes |-> IF a \in Heap!Scrubbed(brk, incr) THEN "zero" ELSE mem[a]]
      BY <1>0, <1>1, BreakAfterSbrk
    <2>2. Old
      <3>. SUFFICES ASSUME NEW a \in own \cap own', mem[a] = "data"
                    PROVE  mem'[a] = "data"
        OBVIOUS
      <3>1. a \in Heap!Bytes /\ a \in Int /\ a < brk
        BY <1>0, <2>1 DEF Heap!Bytes, Heap!StaysInTheHeap
      <3>2. a \notin Heap!Scrubbed(brk, incr)
        BY <1>0, <2>1, <3>1, ScrubbedBytes
      <3>. QED  BY <2>1, <3>1, <3>2
    <2>3. Fresh
      <3>. SUFFICES ASSUME NEW a \in own' \ own
                    PROVE  mem'[a] = "zero"
        OBVIOUS
      <3>1. a \in brk .. brk + incr - 1 /\ a \in Heap!Bytes
        BY <2>1 DEF Heap!Bytes
      <3>2. a \in Heap!Scrubbed(brk, incr)
        BY <1>0, <2>1, <3>1, ScrubbedBytes
      <3>. QED  BY <2>1, <3>1, <3>2
    <2>4. Past
      <3>1. HeapEnd \in Heap!Bytes
        BY <2>1 DEF Heap!Bytes
      <3>2. HeapEnd \in Heap!Scrubbed(brk, incr) => brk = HeapEnd
        BY <1>0, <2>1, ScrubbedBytes
      <3>. QED  BY <2>1, <3>1, <3>2
    <2>. QED  BY <2>2, <2>3, <2>4
  <1>2. ASSUME NEW incr \in Incs, Heap!SbrkFails(incr)
        PROVE  Old /\ Fresh /\ Past
    BY <1>2 DEF Heap!SbrkFails
  <1>3. ASSUME NEW a \in Heap!Bytes, Heap!Brk(a)
        PROVE  Old /\ Fresh /\ Past
    BY <1>3 DEF Heap!Brk
  <1>4. ASSUME NEW a \in Heap!Bytes, Heap!Write(a)
        PROVE  Old /\ Fresh /\ Past
    <2>1. a # HeapEnd /\ mem' = [mem EXCEPT ![a] = "data"] /\ own' = own
      BY <1>0, <1>4 DEF Heap!Write, Heap!StaysInTheHeap, Heap!HeapAssumption
    <2>2. HeapEnd \in DOMAIN mem /\ own \subseteq DOMAIN mem
      BY <1>0 DEF Heap!TypeOK, Heap!Bytes, Heap!HeapAssumption
    <2>. QED  BY <2>1, <2>2
  <1>. QED  BY <1>1, <1>2, <1>3, <1>4 DEF Heap!Next

-----------------------------------------------------------------------------
(* The time of the C library.                                                 *)

LEMMA TimeAssumed == Time!TimekeepingAssumption
  BY Instances

-----------------------------------------------------------------------------
(* The conversions. *)

(* The remainder times num, whose 64 bits are not left, over den. *)
LEMMA RestExact ==
    ASSUME NEW v \in Nat, NEW num \in Nat \ {0}, NEW den \in Nat \ {0},
           Big \in Nat \ {0}, num * den <= Big
    PROVE  /\ Time!Rest(v, num, den) \in 0 .. num - 1
           /\ (v \div den) * num + Time!Rest(v, num, den) = (v * num) \div den
  <1>. DEFINE q == v \div den
              r == v % den
              x == r * num
              y == x \div den
              s == x % den
  <1>1. q \in Nat /\ r \in 0 .. den - 1 /\ v = den * q + r
    BY DivNat
  <1>. HIDE DEF q, r
  <1>2. x \in Nat /\ x + num <= num * den
    <2>1. num * r + num <= num * den
      BY <1>1, MulMono
    <2>. QED  BY <1>1, <2>1
  <1>. HIDE DEF x
  <1>3. x % Big = x
    <2>1. x \in 0 .. Big - 1
      BY <1>2
    <2>2. x = Big * 0 + x
      BY <1>2
    <2>. QED  BY <1>2, <2>1, <2>2, DivUnique
  <1>4. y \in Nat /\ s \in 0 .. den - 1 /\ x = den * y + s
    BY <1>2, DivNat
  <1>. HIDE DEF y, s
  <1>5. y < num
    <2>. SUFFICES ASSUME num <= y PROVE FALSE
      BY <1>4
    <2>1. den * num <= den * y
      BY <1>4, MulMono
    <2>2. den * num = num * den
      OBVIOUS
    <2>. QED  BY <1>2, <1>4, <2>1, <2>2
  <1>6. Time!Rest(v, num, den) = y
    BY <1>3 DEF Time!Rest, x, y, r
  <1>7. (v * num) \div den = q * num + y
    <2>1. v * num = den * (q * num) + x
      <3>1. v * num = (den * q) * num + r * num
        BY <1>1
      <3>2. (den * q) * num = den * (q * num)
        BY <1>1
      <3>. QED  BY <3>1, <3>2 DEF x
    <2>2. den * (q * num + y) = den * (q * num) + den * y /\ q * num \in Nat
      BY <1>1, <1>4
    <2>3. v * num = den * (q * num + y) + s
      BY <1>4, <2>1, <2>2, <1>1
    <2>. DEFINE n == v * num
                p == q * num + y
    <2>4. n \in Int /\ p \in Int /\ n = den * p + s
      BY <1>1, <1>4, <2>2, <2>3
    <2>. HIDE DEF n, p
    <2>5. n \div den = p
      BY <1>4, <2>4, DivUnique
    <2>. QED  BY <2>5 DEF n, p
  <1>. QED  BY <1>1, <1>4, <1>5, <1>6, <1>7 DEF q

(* "v * num / den while avoiding overflow" (muldiv in sys_times.c): in 64      *)
(* bits the result is that of v * num / den computed with no bound, provided  *)
(* that num * den fits.                                                       *)
LEMMA MulDivExact ==
    ASSUME NEW v \in Nat, NEW num \in Nat \ {0}, NEW den \in Nat \ {0},
           Big \in Nat \ {0}, num * den <= Big
    PROVE  Time!MulDiv(v, num, den) = ((v * num) \div den) % Big
  <1>. DEFINE q == v \div den
              y == Time!Rest(v, num, den)
              p == q * num
              m == p % Big
              k == p \div Big
  <1>1. y \in 0 .. num - 1 /\ q * num + y = (v * num) \div den
    BY RestExact
  <1>2. q \in Nat /\ p \in Nat
    BY DivNat
  <1>3. m \in 0 .. Big - 1 /\ k \in Int /\ p = Big * k + m
    BY <1>2, DivMod
  <1>4. Time!MulDiv(v, num, den) = (y + m) % Big
    BY DEF Time!MulDiv, Time!Rest
  <1>. HIDE DEF y, m, k, q
  <1>5. p + y = (y + m) + Big * k
    BY <1>1, <1>2, <1>3
  <1>6. ((y + m) + Big * k) % Big = (y + m) % Big
    <2>1. y + m \in Int
      BY <1>1, <1>3
    <2>. DEFINE a == y + m
    <2>. HIDE DEF a
    <2>2. (a + Big * k) % Big = a % Big
      BY <2>1, <1>3, ModShift DEF a
    <2>. QED  BY <2>2 DEF a
  <1>. QED  BY <1>1, <1>4, <1>5, <1>6

-----------------------------------------------------------------------------
(* The calls. *)

(* What the words read so far are: those of counts that the counter had        *)
(* during the call, the low word's no earlier than the high word's.            *)
ReadInv ==
    /\ timeOp.pc # "idle" => timeOp.kind \in Time!Counts /\ timeOp.start <= cycle
    /\ timeOp.pc = "lo" => \E c \in timeOp.start .. cycle : timeOp.hi = c \div TimeWord
    /\ timeOp.pc = "again" => \E c, d \in timeOp.start .. cycle :
                            c <= d /\ timeOp.hi = c \div TimeWord /\ timeOp.lo = d % TimeWord
    /\ timeOp.pc = "done" => timeOp.hi * TimeWord + timeOp.lo \in timeOp.start .. cycle

(* The invariant of the calls that report a time.                            *)
CallsInv == Time!TypeOK /\ ReadInv /\ Time!CyclesAreCurrent /\ Time!TimesAreExact

LEMMA TimeSizes ==
    ASSUME Time!TimekeepingAssumption
    PROVE  /\ TimeWord \in Nat \ {0} /\ Big \in Nat \ {0} /\ ClockWord \in Nat \ {0}
           /\ Timebase \in Nat \ {0} /\ ClocksPerSec \in Nat \ {0}
           /\ Million \in Nat \ {0} /\ Nano \in Nat \ {0}
           /\ MtimeRate \in Nat \ {0}
           /\ MaxCycles \in Nat /\ TimeTicks \in Nat
           /\ ClocksPerSec * Timebase <= Big
           /\ Million * Timebase <= Big
           /\ Nano * MtimeRate <= Big
           /\ Big % ClockWord = 0
  BY DEF Time!TimekeepingAssumption

(* The counter's words are words. *)
LEMMA HighWord ==
    ASSUME Time!TimekeepingAssumption, NEW c \in 0 .. MaxCycles
    PROVE  c \div TimeWord \in 0 .. TimeWord - 1 /\ c % TimeWord \in 0 .. TimeWord - 1
  <1>1. TimeWord \in Nat \ {0} /\ c \in Nat /\ c < TimeWord * TimeWord
    BY DEF Time!TimekeepingAssumption
  <1>2. c \div TimeWord \in Nat /\ c % TimeWord \in 0 .. TimeWord - 1 /\ c = TimeWord * (c \div TimeWord) + (c % TimeWord)
    BY <1>1, DivNat
  <1>3. ~(TimeWord <= c \div TimeWord)
    <2>. SUFFICES ASSUME TimeWord <= c \div TimeWord PROVE FALSE
      OBVIOUS
    <2>1. TimeWord * TimeWord <= TimeWord * (c \div TimeWord)
      BY <1>1, <1>2, MulMono
    <2>. QED  BY <1>1, <1>2, <2>1
  <1>. QED  BY <1>1, <1>2, <1>3

LEMMA CallsInitially ==
    ASSUME Time!TimekeepingAssumption, Time!Init
    PROVE  CallsInv
  BY TimeSizes
     DEF Time!Init, CallsInv, Time!TypeOK, ReadInv, Time!CyclesAreCurrent,
         Time!TimesAreExact,
               Time!Idle, Time!Nothing, Time!Counts

(* The two words that agree with the high word read last are those of one     *)
(* count, which the counter had in between.                                   *)
LEMMA WholeCount ==
    ASSUME Time!TimekeepingAssumption, Time!TypeOK, NEW c \in Nat,
           NEW d \in Nat,
           c <= d, d <= cycle,
           c \div TimeWord = cycle \div TimeWord
    PROVE  (c \div TimeWord) * TimeWord + (d % TimeWord) = d
  <1>1. TimeWord \in Nat \ {0} /\ cycle \in Nat
    BY TimeSizes DEF Time!TypeOK
  <1>2. c \div TimeWord <= d \div TimeWord /\ d \div TimeWord <= cycle \div TimeWord
    BY <1>1, DivMonotone
  <1>3. d \div TimeWord \in Nat /\ c \div TimeWord \in Nat /\ d = TimeWord * (d \div TimeWord) + (d % TimeWord)
    BY <1>1, DivNat
  <1>4. c \div TimeWord = d \div TimeWord
    BY <1>2, <1>3
  <1>5. (d \div TimeWord) * TimeWord = TimeWord * (d \div TimeWord)
    BY <1>1, <1>3
  <1>. QED  BY <1>3, <1>4, <1>5

(* What the calls make of a count has the form and the value it should have.  *)
LEMMA ConvertedExact ==
    ASSUME Time!TimekeepingAssumption, NEW v \in Nat, NEW kind \in Time!Counts
    PROVE  /\ Time!Converted(kind, v) \in Seq(Nat)
           /\ kind = "times" =>
                /\ Time!Converted(kind, v)[1] = ((v * ClocksPerSec) \div Timebase) % ClockWord
                /\ Time!Converted(kind, v)[1] \in 0 .. ClockWord - 1
           /\ kind = "day" =>
                /\ Time!Converted(kind, v)[2] \in 0 .. Million - 1
                /\ Time!Converted(kind, v)[1] * Million + Time!Converted(kind, v)[2]
                       = (v * Million) \div Timebase
  <1>1. CASE kind = "cycles"
    BY <1>1 DEF Time!Converted, Time!Counts
  <1>2. CASE kind = "times"
    <2>. DEFINE e == (v * ClocksPerSec) \div Timebase
                w == Time!MulDiv(v, ClocksPerSec, Timebase) % ClockWord
    <2>1. /\ Big \in Nat \ {0} /\ ClockWord \in Nat \ {0} /\ Big % ClockWord = 0
          /\ Timebase \in Nat \ {0} /\ ClocksPerSec \in Nat \ {0}
          /\ ClocksPerSec * Timebase <= Big
      BY TimeSizes
    <2>2. Time!MulDiv(v, ClocksPerSec, Timebase) = e % Big
      BY <2>1, MulDivExact
    <2>3. e \in Nat
      <3>1. v * ClocksPerSec \in Nat
        BY <2>1
      <3>. QED  BY <2>1, <3>1, DivNat
    <2>. HIDE DEF e
    <2>4. (e % Big) % ClockWord = e % ClockWord
      <3>. DEFINE a == e % Big
                  b == Big \div ClockWord
                  k == e \div Big
      <3>1. a \in Int /\ k \in Int /\ e = Big * k + a
        BY <2>1, <2>3, DivNat
      <3>2. b \in Int /\ Big = ClockWord * b
        BY <2>1, DivNat
      <3>. HIDE DEF a, b, k
      <3>3. e = a + ClockWord * (b * k) /\ b * k \in Int
        <4>1. (ClockWord * b) * k = ClockWord * (b * k) /\ b * k \in Int
          BY <2>1, <3>1, <3>2
        <4>2. Big * k = ClockWord * (b * k)
          BY <3>2, <4>1
        <4>. QED  BY <2>1, <3>1, <4>1, <4>2
      <3>4. (a + ClockWord * (b * k)) % ClockWord = a % ClockWord
        BY <2>1, <3>1, <3>3, ModShift
      <3>. QED  BY <3>3, <3>4 DEF a
    <2>5. w = e % ClockWord /\ w \in 0 .. ClockWord - 1
      BY <2>1, <2>2, <2>3, <2>4, DivNat
    <2>6. Time!Converted(kind, v) = <<w>>
      BY <1>2 DEF Time!Converted
    <2>. HIDE DEF w
    <2>7. Time!Converted(kind, v) \in Seq(Nat) /\ Time!Converted(kind, v)[1] = w
      BY <2>1, <2>5, <2>6
    <2>. QED  BY <1>2, <2>5, <2>7 DEF e
  <1>3. CASE kind = "day"
    <2>. DEFINE x == v \div Timebase
                y == Time!Rest(v, Million, Timebase)
    <2>1. /\ Big \in Nat \ {0} /\ Timebase \in Nat \ {0} /\ Million \in Nat \ {0}
          /\ Million * Timebase <= Big
      BY TimeSizes
    <2>2. y \in 0 .. Million - 1 /\ x * Million + y = (v * Million) \div Timebase
      BY <2>1, RestExact
    <2>3. x \in Nat
      BY <2>1, DivNat
    <2>4. Time!Converted(kind, v) = <<x, y>>
      BY <1>3 DEF Time!Converted
    <2>. HIDE DEF x, y
    <2>5. /\ Time!Converted(kind, v) \in Seq(Nat)
          /\ Time!Converted(kind, v)[1] = x /\ Time!Converted(kind, v)[2] = y
      BY <2>1, <2>2, <2>3, <2>4
    <2>. QED  BY <1>3, <2>2, <2>5
  <1>. QED  BY <1>1, <1>2, <1>3 DEF Time!Counts

LEMMA TimeSpecExact ==
    ASSUME Time!TimekeepingAssumption, NEW t \in Nat
    PROVE  /\ Time!TimeSpec(t) \in Seq(Nat)
           /\ Time!TimeSpec(t)[2] \in 0 .. Nano - 1
           /\ Time!TimeSpec(t)[1] * Nano + Time!TimeSpec(t)[2] = (t * Nano) \div MtimeRate
  <1>. DEFINE x == t \div MtimeRate
              y == Time!Rest(t, Nano, MtimeRate)
  <1>1. /\ Big \in Nat \ {0} /\ MtimeRate \in Nat \ {0} /\ Nano \in Nat \ {0}
        /\ Nano * MtimeRate <= Big
    BY TimeSizes
  <1>2. y \in 0 .. Nano - 1 /\ x * Nano + y = (t * Nano) \div MtimeRate
    BY <1>1, RestExact
  <1>3. x \in Nat
    BY <1>1, DivNat
  <1>4. Time!TimeSpec(t) = <<x, y>>
    BY DEF Time!TimeSpec
  <1>. HIDE DEF x, y
  <1>. QED  BY <1>1, <1>2, <1>3, <1>4

-----------------------------------------------------------------------------
(* One step per action of the machine. *)

LEMMA CountersRun ==
    ASSUME Time!TimekeepingAssumption, CallsInv, Time!Run \/ Time!Tick
    PROVE  CallsInv'
  <1>1. MaxCycles \in Nat /\ TimeTicks \in Nat /\ TimeWord \in Nat \ {0}
    BY TimeSizes
  <1>2. CASE Time!Run
    <2>1. Time!TypeOK'
      BY <1>1, <1>2 DEF CallsInv, Time!TypeOK, Time!Run
    <2>2. cycle \in Nat /\ cycle' = cycle + 1 /\ timeOp' = timeOp /\ timeSeen' = timeSeen
      BY <1>1, <1>2 DEF CallsInv, Time!TypeOK, Time!Run
    <2>3. ReadInv'
      <3>. SUFFICES ASSUME TRUE PROVE ReadInv'
        OBVIOUS
      <3>1. timeOp.start \in Nat
        BY <1>1 DEF CallsInv, Time!TypeOK
      <3>2. \A c \in timeOp.start .. cycle : c \in timeOp.start .. cycle'
        BY <2>2, <3>1
      <3>. QED  BY <2>2, <3>1, <3>2 DEF CallsInv, ReadInv
    <2>. QED
      BY <2>1, <2>2, <2>3
         DEF CallsInv, Time!CyclesAreCurrent, Time!TimesAreExact
  <1>3. CASE Time!Tick
    <2>1. Time!TypeOK'
      BY <1>1, <1>3 DEF CallsInv, Time!TypeOK, Time!Tick
    <2>. QED
      BY <1>3, <2>1
         DEF Time!Tick, CallsInv, ReadInv, Time!CyclesAreCurrent,
             Time!TimesAreExact
  <1>. QED  BY <1>2, <1>3

LEMMA BeginKeeps ==
    ASSUME Time!TimekeepingAssumption, CallsInv, NEW kind \in Time!Counts,
           NEW id \in TimeIds,
           Time!Begin(kind, id)
    PROVE  CallsInv'
  <1>1. MaxCycles \in Nat /\ TimeWord \in Nat \ {0} /\ cycle \in 0 .. MaxCycles
    BY TimeSizes DEF CallsInv, Time!TypeOK
  <1>. DEFINE Reads == [pc : {"idle", "hi", "lo", "again", "done"},
                        kind : {"none"} \cup Time!Counts, start : 0 .. MaxCycles,
                        hi : 0 .. TimeWord - 1, lo : 0 .. TimeWord - 1]
  <1>4. timeOp' \in Reads
    <2>1. timeOp \in Reads
      BY DEF CallsInv, Time!TypeOK
    <2>2. [pc |-> "hi", kind |-> kind, start |-> cycle, hi |-> 0, lo |-> 0] \in Reads
      BY <1>1
    <2>. QED  BY <2>1, <2>2 DEF Time!Begin
  <1>5. timeSeen' \in [kind : {"none", "spec"} \cup Time!Counts, start : 0 .. MaxCycles,
                   raw : Nat, val : Seq(Nat), end : 0 .. MaxCycles]
    <2>1. <<0>> \in Seq(Nat)
      OBVIOUS
    <2>2. timeSeen' = Time!Nothing
      BY DEF Time!Begin
    <2>. QED  BY <1>1, <2>1, <2>2 DEF Time!Nothing
  <1>2. Time!TypeOK'
    BY <1>4, <1>5 DEF CallsInv, Time!TypeOK, Time!Begin
  <1>3. ReadInv'
    BY <1>1
       DEF CallsInv, Time!TypeOK, ReadInv, Time!Begin, Time!Idle, Time!Counts
  <1>. QED
    BY <1>2, <1>3
       DEF CallsInv, Time!Begin, Time!Nothing, Time!CyclesAreCurrent,
           Time!TimesAreExact, Time!Counts

LEMMA ReadHiKeeps ==
    ASSUME Time!TimekeepingAssumption, CallsInv, Time!ReadHi
    PROVE  CallsInv'
  <1>1. MaxCycles \in Nat /\ TimeWord \in Nat \ {0} /\ cycle \in 0 .. MaxCycles
    BY TimeSizes DEF CallsInv, Time!TypeOK
  <1>2. cycle \div TimeWord \in 0 .. TimeWord - 1
    BY <1>1, HighWord
  <1>3. timeOp' = [timeOp EXCEPT !.hi = cycle \div TimeWord, !.pc = "lo"] /\ cycle' = cycle
    BY DEF Time!ReadHi
  <1>4. Time!TypeOK'
    BY <1>1, <1>2 DEF CallsInv, Time!TypeOK, Time!ReadHi
  <1>5. timeOp.kind \in Time!Counts /\ timeOp.start \in 0 .. MaxCycles /\ timeOp.start <= cycle
    BY DEF CallsInv, Time!TypeOK, ReadInv, Time!ReadHi
  <1>6. /\ timeOp'.pc = "lo" /\ timeOp'.hi = cycle \div TimeWord
        /\ timeOp'.kind = timeOp.kind /\ timeOp'.start = timeOp.start
    BY <1>3 DEF CallsInv, Time!TypeOK
  <1>7. cycle \in timeOp'.start .. cycle'
    BY <1>1, <1>3, <1>5, <1>6
  <1>8. ReadInv'
    BY <1>3, <1>5, <1>6, <1>7 DEF ReadInv
  <1>. QED
    BY <1>4, <1>8
       DEF CallsInv, Time!ReadHi, Time!CyclesAreCurrent, Time!TimesAreExact

LEMMA ReadLoKeeps ==
    ASSUME Time!TimekeepingAssumption, CallsInv, Time!ReadLo
    PROVE  CallsInv'
  <1>1. MaxCycles \in Nat /\ TimeWord \in Nat \ {0} /\ cycle \in 0 .. MaxCycles
    BY TimeSizes DEF CallsInv, Time!TypeOK
  <1>2. cycle % TimeWord \in 0 .. TimeWord - 1
    BY <1>1, HighWord
  <1>3. timeOp' = [timeOp EXCEPT !.lo = cycle % TimeWord, !.pc = "again"] /\ cycle' = cycle
    BY DEF Time!ReadLo
  <1>4. Time!TypeOK'
    BY <1>1, <1>2 DEF CallsInv, Time!TypeOK, Time!ReadLo
  <1>5. timeOp.kind \in Time!Counts /\ timeOp.start \in 0 .. MaxCycles /\ timeOp.start <= cycle
    BY DEF CallsInv, Time!TypeOK, ReadInv, Time!ReadLo
  <1>6. PICK c \in timeOp.start .. cycle : timeOp.hi = c \div TimeWord
    BY DEF CallsInv, ReadInv, Time!ReadLo
  <1>7. /\ timeOp'.pc = "again" /\ timeOp'.lo = cycle % TimeWord /\ timeOp'.hi = timeOp.hi
        /\ timeOp'.kind = timeOp.kind /\ timeOp'.start = timeOp.start
    BY <1>3 DEF CallsInv, Time!TypeOK
  <1>8. /\ c \in timeOp'.start .. cycle' /\ cycle \in timeOp'.start .. cycle' /\ c <= cycle
        /\ timeOp'.hi = c \div TimeWord /\ timeOp'.lo = cycle % TimeWord
    BY <1>1, <1>3, <1>5, <1>6, <1>7
  <1>9. ReadInv'
    BY <1>3, <1>5, <1>7, <1>8 DEF ReadInv
  <1>. QED
    BY <1>4, <1>9
       DEF CallsInv, Time!ReadLo, Time!CyclesAreCurrent, Time!TimesAreExact

LEMMA ReadAgainKeeps ==
    ASSUME Time!TimekeepingAssumption, CallsInv, Time!ReadAgain
    PROVE  CallsInv'
  <1>1. MaxCycles \in Nat /\ TimeWord \in Nat \ {0} /\ cycle \in 0 .. MaxCycles
    BY TimeSizes DEF CallsInv, Time!TypeOK
  <1>2. timeOp.pc = "again" /\ cycle' = cycle /\ timeSeen' = timeSeen
        /\ timeOp' = [timeOp EXCEPT !.pc = IF timeOp.hi # cycle \div TimeWord THEN "hi" ELSE "done"]
    BY DEF Time!ReadAgain
  <1>3. Time!TypeOK'
    BY <1>1 DEF CallsInv, Time!TypeOK, Time!ReadAgain
  <1>4. timeOp.kind \in Time!Counts /\ timeOp.start \in 0 .. MaxCycles /\ timeOp.start <= cycle
    BY <1>2 DEF CallsInv, Time!TypeOK, ReadInv
  <1>5. PICK c \in timeOp.start .. cycle, d \in timeOp.start .. cycle :
           c <= d /\ timeOp.hi = c \div TimeWord /\ timeOp.lo = d % TimeWord
    BY <1>2 DEF CallsInv, ReadInv
  <1>6. /\ timeOp'.hi = timeOp.hi /\ timeOp'.lo = timeOp.lo /\ timeOp'.kind = timeOp.kind
        /\ timeOp'.start = timeOp.start
        /\ timeOp'.pc = IF timeOp.hi # cycle \div TimeWord THEN "hi" ELSE "done"
    BY <1>2 DEF CallsInv, Time!TypeOK
  <1>7. timeOp.hi = cycle \div TimeWord => timeOp.hi * TimeWord + timeOp.lo \in timeOp.start .. cycle
    <2>. SUFFICES ASSUME timeOp.hi = cycle \div TimeWord
                  PROVE  timeOp.hi * TimeWord + timeOp.lo \in timeOp.start .. cycle
      OBVIOUS
    <2>1. c \in Nat /\ d \in Nat /\ c <= d /\ d <= cycle /\ d \in timeOp.start .. cycle
      BY <1>1, <1>4, <1>5
    <2>2. (c \div TimeWord) * TimeWord + (d % TimeWord) = d
      BY <1>5, <2>1, WholeCount DEF CallsInv
    <2>. QED  BY <1>5, <2>1, <2>2
  <1>8. ReadInv'
    BY <1>2, <1>4, <1>6, <1>7 DEF ReadInv
  <1>. QED
    BY <1>3, <1>8
       DEF CallsInv, Time!ReadAgain, Time!CyclesAreCurrent, Time!TimesAreExact

LEMMA ReturnKeeps ==
    ASSUME Time!TimekeepingAssumption, CallsInv, Time!Return
    PROVE  CallsInv'
  <1>. DEFINE raw == timeOp.hi * TimeWord + timeOp.lo
              val == Time!Converted(timeOp.kind, raw)
  <1>1. MaxCycles \in Nat /\ ClockWord \in Nat \ {0} /\ TimeWord \in Nat \ {0} /\ cycle \in 0 .. MaxCycles
    BY TimeSizes DEF CallsInv, Time!TypeOK
  <1>2. /\ timeOp' = Time!Idle /\ cycle' = cycle /\ mtime' = mtime
        /\ timeSeen' = [kind |-> timeOp.kind, start |-> timeOp.start, raw |-> raw, val |-> val,
                    end |-> cycle]
        /\ clock' = IF timeOp.kind = "times" THEN [raw |-> raw, val |-> val[1]] ELSE clock
    BY DEF Time!Return
  <1>3. timeOp.kind \in Time!Counts /\ timeOp.start \in 0 .. MaxCycles /\ raw \in timeOp.start .. cycle
    BY DEF CallsInv, Time!TypeOK, ReadInv, Time!Return
  <1>4. raw \in Nat
    BY <1>1, <1>3
  <1>. HIDE DEF raw
  <1>5. /\ val \in Seq(Nat)
        /\ timeOp.kind = "times" =>
             /\ val[1] = ((raw * ClocksPerSec) \div Timebase) % ClockWord
             /\ val[1] \in 0 .. ClockWord - 1
        /\ timeOp.kind = "day" =>
             /\ val[2] \in 0 .. Million - 1
             /\ val[1] * Million + val[2] = (raw * Million) \div Timebase
    BY <1>3, <1>4, ConvertedExact
  <1>. HIDE DEF val
  <1>6. Time!TypeOK'
    BY <1>1, <1>2, <1>3, <1>4, <1>5
       DEF CallsInv, Time!TypeOK, Time!Idle, Time!Counts
  <1>7. ReadInv'
    BY <1>2 DEF ReadInv, Time!Idle
  <1>8. Time!CyclesAreCurrent'
    BY <1>1, <1>2, <1>3, <1>4 DEF Time!CyclesAreCurrent
  <1>9. Time!TimesAreExact'
    BY <1>2, <1>3, <1>5 DEF Time!TimesAreExact, Time!Counts
  <1>. QED  BY <1>6, <1>7, <1>8, <1>9 DEF CallsInv

LEMMA GetTimeKeeps ==
    ASSUME Time!TimekeepingAssumption, CallsInv, Time!GetTime
    PROVE  CallsInv'
  <1>1. MaxCycles \in Nat /\ TimeTicks \in Nat
    BY TimeSizes
  <1>2. mtime \in Nat
    BY <1>1 DEF CallsInv, Time!TypeOK
  <1>. DEFINE val == Time!TimeSpec(mtime)
  <1>3. /\ val \in Seq(Nat) /\ val[2] \in 0 .. Nano - 1
        /\ val[1] * Nano + val[2] = (mtime * Nano) \div MtimeRate
    BY <1>2, TimeSpecExact
  <1>4. timeSeen' = [Time!Nothing EXCEPT !.kind = "spec", !.raw = mtime, !.val = val]
    BY DEF Time!GetTime
  <1>. HIDE DEF val
  <1>8. timeSeen' = [kind |-> "spec", start |-> 0, raw |-> mtime, val |-> val, end |-> 0]
    BY <1>4 DEF Time!Nothing
  <1>5. Time!TypeOK'
    <2>1. timeSeen' \in [kind : {"none", "spec"} \cup Time!Counts, start : 0 .. MaxCycles,
                     raw : Nat, val : Seq(Nat), end : 0 .. MaxCycles]
      BY <1>1, <1>2, <1>3, <1>8
    <2>. QED  BY <2>1 DEF CallsInv, Time!TypeOK, Time!GetTime
  <1>6. ReadInv'
    BY DEF CallsInv, ReadInv, Time!GetTime
  <1>7. Time!CyclesAreCurrent' /\ Time!TimesAreExact'
    BY <1>3, <1>4
       DEF Time!CyclesAreCurrent, Time!TimesAreExact, Time!Nothing, Time!Counts
  <1>. QED  BY <1>5, <1>6, <1>7 DEF CallsInv

LEMMA CallsInductive ==
    ASSUME Time!TimekeepingAssumption, CallsInv, [Time!Next]_Time!vars
    PROVE  CallsInv'
  <1>1. CASE UNCHANGED Time!vars
    BY <1>1
       DEF Time!vars, CallsInv, Time!TypeOK, ReadInv, Time!CyclesAreCurrent,
           Time!TimesAreExact
  <1>. QED  BY <1>1, CountersRun, GetTimeKeeps, BeginKeeps, ReadHiKeeps,
               ReadLoKeeps, ReadAgainKeeps, ReturnKeeps DEF Time!Next

(* What times last reported is what the count it was made from says, in a    *)
(* word of the clock, and that count is not ahead of the next one.           *)
ClockInv ==
    /\ clock.val = ((clock.raw * ClocksPerSec) \div Timebase) % ClockWord
    /\ clock.raw <= cycle
    /\ timeOp.pc # "idle" => clock.raw <= timeOp.start

LEMMA ClockInit ==
    ASSUME Time!TimekeepingAssumption, Time!Init PROVE ClockInv
<1>1. 0 \div Timebase = 0 /\ 0 % ClockWord = 0
  BY DivUnique, TimeSizes
<1>2. 0 * ClocksPerSec = 0
  BY TimeSizes
<1> QED BY <1>1, <1>2 DEF Time!Init, ClockInv, Time!Idle

(* The cycles, and the ticks of the clock, since times last reported.        *)
Elapsed == clock'.raw - clock.raw
WholeOf(c) == (c * ClocksPerSec) \div Timebase

(* What times makes of the count it has read.                                *)
LEMMA ReturnedCount ==
    ASSUME Time!TimekeepingAssumption, CallsInv, ClockInv, Time!Return,
           timeOp.kind = "times"
    PROVE  /\ clock' = [raw |-> timeOp.hi * TimeWord + timeOp.lo,
                        val |-> WholeOf(timeOp.hi * TimeWord + timeOp.lo) % ClockWord]
           /\ timeOp.hi * TimeWord + timeOp.lo \in Nat
           /\ clock.raw <= timeOp.hi * TimeWord + timeOp.lo
           /\ timeOp.hi * TimeWord + timeOp.lo <= cycle
<1> DEFINE raw == timeOp.hi * TimeWord + timeOp.lo
<1>1. /\ timeOp.kind \in Time!Counts /\ timeOp.start \in 0 .. MaxCycles /\ raw \in timeOp.start .. cycle
      /\ cycle \in Nat /\ clock.raw \in Nat
  BY TimeSizes DEF CallsInv, Time!TypeOK, ReadInv, Time!Return
<1>2. raw \in Nat /\ timeOp.start <= raw /\ raw <= cycle /\ clock.raw <= timeOp.start
  BY <1>1 DEF ClockInv, Time!Return
<1>3. clock' = [raw |-> raw, val |-> Time!Converted("times", raw)[1]]
  BY DEF Time!Return
<1> HIDE DEF raw
<1>4. Time!Converted("times", raw)[1] = WholeOf(raw) % ClockWord
  BY <1>1, <1>2, ConvertedExact DEF WholeOf
<1>5. clock' = [raw |-> raw, val |-> WholeOf(raw) % ClockWord] /\ clock.raw <= raw
  BY <1>1, <1>2, <1>3, <1>4
<1> QED BY <1>2, <1>5 DEF raw

LEMMA ClockStep ==
    ASSUME Time!TimekeepingAssumption, CallsInv, ClockInv,
           [Time!Next]_Time!vars
    PROVE  ClockInv'
<1>0. cycle \in Nat /\ clock.raw \in Nat /\ timeOp.start \in Nat
  BY TimeSizes DEF CallsInv, Time!TypeOK
<1>1. CASE UNCHANGED Time!vars
  BY <1>1 DEF Time!vars, ClockInv
<1>2. CASE Time!Run
  BY <1>0, <1>2 DEF Time!Run, ClockInv
<1>3. CASE Time!Tick
  BY <1>3 DEF Time!Tick, ClockInv
<1>4. CASE Time!GetTime
  BY <1>4 DEF Time!GetTime, ClockInv
<1>5. ASSUME NEW kind \in Time!Counts, NEW id \in TimeIds, Time!Begin(kind, id)
      PROVE  ClockInv'
  BY <1>0, <1>5 DEF Time!Begin, ClockInv
<1>6. CASE Time!ReadHi
  BY <1>6 DEF Time!ReadHi, ClockInv, CallsInv, Time!TypeOK
<1>7. CASE Time!ReadLo
  BY <1>7 DEF Time!ReadLo, ClockInv, CallsInv, Time!TypeOK
<1>8. CASE Time!ReadAgain
  BY <1>8 DEF Time!ReadAgain, ClockInv, CallsInv, Time!TypeOK
<1>9. CASE Time!Return
  <2>1. timeOp'.pc = "idle" /\ cycle' = cycle
    BY <1>9 DEF Time!Return, Time!Idle
  <2>2. CASE timeOp.kind = "times"
    <3>1. clock'.val = WholeOf(clock'.raw) % ClockWord /\ clock'.raw <= cycle
      BY <1>9, <2>2, ReturnedCount
    <3> QED BY <2>1, <3>1 DEF ClockInv, WholeOf
  <2>3. CASE timeOp.kind # "times"
    <3>1. clock' = clock
      BY <1>9, <2>3 DEF Time!Return
    <3> QED BY <2>1, <3>1 DEF ClockInv
  <2> QED BY <2>2, <2>3
<1> QED BY <1>1, <1>2, <1>3, <1>4, <1>5, <1>6, <1>7, <1>8, <1>9 DEF Time!Next

(* The time goes on by the ticks of the cycles in between, or one more,      *)
(* which is the rounding.                                                    *)
LEMMA Marches ==
    ASSUME Time!TimekeepingAssumption, CallsInv, ClockInv,
           [Time!Next]_Time!vars, clock' # clock
    PROVE  /\ Elapsed >= 0
           /\ (clock'.val - clock.val) % ClockWord
                 \in {WholeOf(Elapsed) % ClockWord, (WholeOf(Elapsed) + 1) % ClockWord}
<1>1. Time!Return /\ timeOp.kind = "times"
  BY
     DEF Time!Next, Time!vars, Time!Run, Time!Tick, Time!GetTime, Time!Begin,
         Time!ReadHi, Time!ReadLo, Time!ReadAgain, Time!Return
<1> DEFINE old == clock.raw
           new == clock'.raw
           c == Elapsed
<1>2. /\ new \in Nat /\ old \in Nat /\ old <= new
      /\ clock'.val = WholeOf(new) % ClockWord
      /\ clock.val = WholeOf(old) % ClockWord
  BY <1>1, ReturnedCount DEF CallsInv, Time!TypeOK, ClockInv, WholeOf
<1>3. c \in Nat /\ new = old + c
  BY <1>2 DEF Elapsed
<1> HIDE DEF old, new, c
<1>4. ClockWord \in Nat \ {0} /\ Timebase \in Nat \ {0} /\ ClocksPerSec \in Nat \ {0}
  BY TimeSizes
<1>5. new * ClocksPerSec = (old * ClocksPerSec) + (c * ClocksPerSec)
  BY <1>2, <1>3, <1>4
<1>6. old * ClocksPerSec \in Nat /\ c * ClocksPerSec \in Nat /\ new * ClocksPerSec \in Nat
  BY <1>2, <1>3, <1>4
<1>7. WholeOf(new) - WholeOf(old) \in {WholeOf(c), WholeOf(c) + 1}
  BY <1>4, <1>5, <1>6, DivSum DEF WholeOf
<1>8. WholeOf(new) \in Nat /\ WholeOf(old) \in Nat
  BY <1>4, <1>6, DivNat DEF WholeOf
<1>9. (clock'.val - clock.val) % ClockWord = (WholeOf(new) - WholeOf(old)) % ClockWord
  BY <1>2, <1>4, <1>8, ModDifference
<1>10. c >= 0
  BY <1>3
<1> QED BY <1>7, <1>9, <1>10 DEF c

(* The resolution that is reported is a tick of the timer.                   *)
LEMMA TicksResolve ==
    ASSUME Time!TimekeepingAssumption, Time!TypeOK
    PROVE  Time!TicksAreTheResolution
<1>1. mtime \in Nat /\ MtimeRate \in Nat \ {0} /\ Nano \in Nat \ {0}
  BY TimeSizes DEF Time!TypeOK
<1> DEFINE ns(t) == Time!TimeSpec(t)[1] * Nano + Time!TimeSpec(t)[2]
           n == mtime * Nano
<1>2. ns(mtime + 1) = ((mtime + 1) * Nano) \div MtimeRate /\ ns(mtime) = n \div MtimeRate
  BY <1>1, TimeSpecExact
<1>3. (mtime + 1) * Nano = n + Nano /\ n \in Nat
  BY <1>1
<1> HIDE DEF ns, n
<1>4. ns(mtime + 1) - ns(mtime) \in {Nano \div MtimeRate, (Nano \div MtimeRate) + 1}
  BY <1>1, <1>2, <1>3, DivSum
<1> QED BY <1>4 DEF Time!TicksAreTheResolution, Time!Resolution, ns

(* The invariant of the time of the C library.                               *)
TimeInv == CallsInv /\ ClockInv

LEMMA TimeInitially == Time!Init => TimeInv
  BY TimeAssumed, CallsInitially, ClockInit DEF TimeInv

LEMMA TimeInductive == TimeInv /\ [Time!Next]_Time!vars => TimeInv'
  BY TimeAssumed, CallsInductive, ClockStep DEF TimeInv

LEMMA TimeFollows ==
    TimeInv => Time!TypeOK /\ Time!CyclesAreCurrent /\ Time!TimesAreExact /\ Time!TicksAreTheResolution
  BY TimeAssumed, TicksResolve DEF TimeInv, CallsInv

-----------------------------------------------------------------------------
(* The trace.                                                                 *)

LEMMA TraceAssumed == Trace!TraceAssumption
  BY Instances

(* A character is a digit of the number that a word is.                      *)
Digits == 0 .. Byte - 1

\* The words of one, two, three and four bytes.
W2(a, b) == a + Byte * b
W3(a, b, c) == W2(a, W2(b, c))
W4(a, b, c, d) == W2(a, W3(b, c, d))

\* What is in the buffer was printed after what the tool has been told.
Held0 == bytes = 0 /\ buffer = 0 /\ printed = told
Held1(a) == bytes = 1 /\ buffer = a /\ printed = told \o <<a>>
Held2(a, b) == bytes = 2 /\ buffer = W2(a, b) /\ printed = told \o <<a, b>>
Held3(a, b, c) == bytes = 3 /\ buffer = W3(a, b, c) /\ printed = told \o <<a, b, c>>
Held ==
    \/ Held0
    \/ \E a \in Digits : Held1(a)
    \/ \E a, b \in Digits : Held2(a, b)
    \/ \E a, b, c \in Digits : Held3(a, b, c)

(* The invariant of the trace: after a line end the buffer is empty.         *)
TraceInv ==
    /\ told \in Seq(Digits) /\ printed \in Seq(Printed)
    /\ printed # <<>> /\ printed[Len(printed)] \in LineEnds => bytes = 0
    /\ Held

(* The lowest digits, and the others, of a number.                           *)
LEMMA DigitsDivide ==
    ASSUME NEW p \in Nat \ {0}, NEW r \in 0 .. p - 1, NEW q \in Nat
    PROVE  (r + p * q) \div p = q /\ (r + p * q) % p = r
<1>. DEFINE n == r + (p * q)
<1>1. n \in Int /\ n = (p * q) + r
  OBVIOUS
<1>. HIDE DEF n
<1>2. n \div p = q /\ n % p = r
  BY <1>1, DivUnique
<1> QED BY <1>2 DEF n

LEMMA TraceConsts == Byte \in Nat \ {0} /\ Printed \subseteq Digits
  BY TraceAssumed DEF Trace!TraceAssumption, Digits

\* A word is its lowest byte and the others.
LEMMA Split ==
    ASSUME NEW a \in Digits, NEW q \in Nat
    PROVE  W2(a, q) \in Nat /\ W2(a, q) \div Byte = q /\ W2(a, q) % Byte = a
  BY TraceConsts, DigitsDivide DEF W2, Digits

LEMMA DigitMod ==
    ASSUME NEW c \in Digits
    PROVE  c % Byte = c
  BY TraceConsts DEF Digits

LEMMA DigitsAreNat == Digits \subseteq Nat
  BY TraceConsts DEF Digits

(* The weights of the bytes of a word.                                       *)
LEMMA TracePlaces ==
    /\ Trace!Place(0) = 1 /\ Trace!Place(1) = Byte
    /\ Trace!Place(2) = Byte * Byte
    /\ Trace!Place(3) = Byte * (Byte * Byte)
    /\ Trace!Place(4) = Byte * (Byte * (Byte * Byte))
  BY DEF Trace!Place

(* Two, and three, bytes and those above them.                               *)
LEMMA TwoDigits ==
    ASSUME NEW a \in Digits, NEW b \in Digits, NEW q \in Nat
    PROVE  /\ W2(a, b) \in 0 .. Byte * Byte - 1 /\ Byte * Byte \in Nat \ {0}
           /\ W2(a, W2(b, q)) \div (Byte * Byte) = q
           /\ W2(a, W2(b, q)) % (Byte * Byte) = W2(a, b)
<1>. DEFINE B == Byte
<1>0. B \in Nat \ {0} /\ a \in 0 .. B - 1 /\ b \in 0 .. B - 1
  BY TraceConsts DEF Digits
<1>. HIDE DEF B
<1>1. B * B \in Nat \ {0} /\ a + B * b \in Nat
  BY <1>0
<1>2. a + B * b <= B * B - 1
  <2>1. B * b <= B * (B - 1)
    BY <1>0
  <2>2. B * (B - 1) = B * B - B
    BY <1>0
  <2> QED BY <1>0, <1>1, <2>1, <2>2
<1>3. a + B * (b + B * q) = (a + B * b) + (B * B) * q
  BY <1>0
<1>4. a + B * b \in 0 .. (B * B) - 1
  BY <1>1, <1>2
<1>5. ((a + B * b) + (B * B) * q) \div (B * B) = q /\ ((a + B * b) + (B * B) * q) % (B * B) = a + B * b
  BY <1>1, <1>4, DigitsDivide
<1> QED BY <1>1, <1>3, <1>4, <1>5 DEF W2, B

LEMMA ThreeDigits ==
    ASSUME NEW a \in Digits, NEW b \in Digits, NEW c \in Digits, NEW q \in Nat
    PROVE  /\ W3(a, b, c) \in 0 .. Byte * (Byte * Byte) - 1 /\ Byte * (Byte * Byte) \in Nat \ {0}
           /\ W2(a, W2(b, W2(c, q))) \div (Byte * (Byte * Byte)) = q
           /\ W2(a, W2(b, W2(c, q))) % (Byte * (Byte * Byte)) = W3(a, b, c)
<1>. DEFINE B == Byte
            P == Byte * Byte
            r == W2(b, c)
<1>0. B \in Nat \ {0} /\ a \in 0 .. B - 1 /\ P \in Nat \ {0} /\ r \in 0 .. P - 1 /\ r = b + B * c
      /\ b \in Nat /\ c \in Nat /\ P = B * B
  BY TraceConsts, TwoDigits DEF Digits, W2
<1>. HIDE DEF B, P, r
<1>1. B * P \in Nat \ {0} /\ a + B * r \in Nat
  BY <1>0
<1>2. a + B * r <= B * P - 1
  <2>1. B * r <= B * (P - 1)
    BY <1>0
  <2>2. B * (P - 1) = B * P - B
    BY <1>0
  <2> QED BY <1>0, <1>1, <2>1, <2>2
<1>3. a + B * (b + B * (c + B * q)) = (a + B * r) + (B * P) * q
  <2>1. b + B * (c + B * q) = r + P * q
    BY <1>0
  <2>2. B * (r + P * q) = B * r + (B * P) * q
    BY <1>0
  <2> QED BY <1>0, <2>1, <2>2
<1>4. a + B * r \in 0 .. (B * P) - 1
  BY <1>1, <1>2
<1>5. ((a + B * r) + (B * P) * q) \div (B * P) = q /\ ((a + B * r) + (B * P) * q) % (B * P) = a + B * r
  BY <1>1, <1>4, DigitsDivide
<1> QED BY <1>1, <1>3, <1>4, <1>5 DEF W2, W3, B, P, r

\* The characters of the words.
LEMMA Chars1 ==
    ASSUME NEW a \in Digits
    PROVE  Trace!Characters(1, a) = <<a>>
<1>1. a \in Nat /\ (a \div 1) = a /\ a % Byte = a
  BY TraceConsts, DigitsDivide DEF Digits
<1>2. \A i \in 1 .. 1 : i = 1 /\ i - 1 = 0
  OBVIOUS
<1> QED BY <1>1, <1>2, TracePlaces DEF Trace!Characters

LEMMA Chars2 ==
    ASSUME NEW a \in Digits, NEW b \in Digits
    PROVE  Trace!Characters(2, W2(a, b)) = <<a, b>>
<1>. DEFINE x == W2(a, b)
<1>1. x \in Nat /\ x \div 1 = x /\ x % Byte = a /\ x \div Byte = b /\ b % Byte = b
  <2>1. a \in Nat /\ b \in Nat
    BY DigitsAreNat
  <2>2. x \in Nat /\ x % Byte = a /\ x \div Byte = b
    BY <2>1, Split
  <2>. HIDE DEF x
  <2> QED BY <2>2, DigitMod
<1>. HIDE DEF x
<1>2. \A i \in 1 .. 2 : i = 1 \/ i = 2
  OBVIOUS
<1>3. (x \div Trace!Place(1 - 1)) % Byte = a /\ (x \div Trace!Place(2 - 1)) % Byte = b
  BY <1>1, TracePlaces
<1>4. Trace!Characters(2, x) = <<a, b>>
  BY <1>2, <1>3 DEF Trace!Characters
<1> QED BY <1>4 DEF x

LEMMA Chars3 ==
    ASSUME NEW a \in Digits, NEW b \in Digits, NEW c \in Digits
    PROVE  Trace!Characters(3, W3(a, b, c)) = <<a, b, c>>
<1>. DEFINE x == W3(a, b, c)
<1>1. W2(b, c) \in Nat /\ c \in Nat
  BY Split, DigitsAreNat
<1>2. x \in Nat /\ x \div 1 = x /\ x % Byte = a /\ x \div Byte = W2(b, c)
  BY <1>1, Split DEF W3
<1>3. x \div (Byte * Byte) = c /\ W2(b, c) % Byte = b /\ c % Byte = c
  BY <1>1, Split, TwoDigits, DigitMod DEF W3
<1>. HIDE DEF x
<1>4. \A i \in 1 .. 3 : i = 1 \/ i = 2 \/ i = 3
  OBVIOUS
<1>5. /\ (x \div Trace!Place(1 - 1)) % Byte = a /\ (x \div Trace!Place(2 - 1)) % Byte = b
      /\ (x \div Trace!Place(3 - 1)) % Byte = c
  BY <1>2, <1>3, TracePlaces
<1>6. Trace!Characters(3, x) = <<a, b, c>>
  BY <1>4, <1>5 DEF Trace!Characters
<1> QED BY <1>6 DEF x

LEMMA Chars4 ==
    ASSUME NEW a \in Digits, NEW b \in Digits, NEW c \in Digits,
           NEW d \in Digits
    PROVE  /\ Trace!Characters(4, W4(a, b, c, d)) = <<a, b, c, d>>
           /\ W4(a, b, c, d) % Trace!Place(4) = W4(a, b, c, d)
<1>. DEFINE x == W4(a, b, c, d)
<1>1. W3(b, c, d) \in Nat /\ W2(c, d) \in Nat /\ d \in Nat
  BY Split, DigitsAreNat DEF W3
<1>2. x \in Nat /\ x \div 1 = x /\ x % Byte = a /\ x \div Byte = W3(b, c, d)
  BY <1>1, Split DEF W4
<1>3. x \div (Byte * Byte) = W2(c, d) /\ W3(b, c, d) % Byte = b /\ W2(c, d) % Byte = c
  BY <1>1, Split, TwoDigits DEF W4, W3
<1>4. x \div (Byte * (Byte * Byte)) = d /\ d % Byte = d
  BY <1>1, ThreeDigits, DigitMod DEF W4, W3
<1>5. x % Trace!Place(4) = x
  <2>. DEFINE P == Byte * (Byte * Byte)
              y == W3(b, c, d)
  <2>1. y \in 0 .. P - 1 /\ P \in Nat \ {0} /\ Byte \in Nat \ {0} /\ a \in 0 .. Byte - 1
    BY ThreeDigits, TraceConsts DEF Digits
  <2>. HIDE DEF P, y
  <2>2. Byte * P \in Nat \ {0}
    BY <2>1
  <2>3. Byte * y <= Byte * (P - 1) /\ Byte * (P - 1) = Byte * P - Byte
    BY <2>1
  <2>4. a + Byte * y \in 0 .. (Byte * P) - 1
    BY <2>1, <2>2, <2>3
  <2>5. (a + Byte * y) % (Byte * P) = a + Byte * y
    BY <2>2, <2>4
  <2> QED BY <2>5, TracePlaces DEF W4, W2, P, y
<1>. HIDE DEF x
<1>6. \A i \in 1 .. 4 : i = 1 \/ i = 2 \/ i = 3 \/ i = 4
  OBVIOUS
<1>7. /\ (x \div Trace!Place(1 - 1)) % Byte = a /\ (x \div Trace!Place(2 - 1)) % Byte = b
      /\ (x \div Trace!Place(3 - 1)) % Byte = c
      /\ (x \div Trace!Place(4 - 1)) % Byte = d
  BY <1>2, <1>3, <1>4, TracePlaces
<1>8. Trace!Characters(4, x) = <<a, b, c, d>>
  BY <1>6, <1>7 DEF Trace!Characters
<1> QED BY <1>5, <1>8 DEF x

\* What the tool makes of the writes.
LEMMA Of1 ==
    ASSUME NEW a \in Digits
    PROVE  Trace!Of(Trace!Writes(1, a)) = <<a>>
<1>1. a % Trace!Place(1) = a
  BY TraceConsts, TracePlaces DEF Digits
<1>2. Trace!Writes(1, a) = <<[width |-> 1, data |-> a]>>
  BY <1>1 DEF Trace!Writes, Trace!Stimulus
<1> QED BY <1>2, Chars1 DEF Trace!Of, Trace!OfOne

LEMMA Of2 ==
    ASSUME NEW a \in Digits, NEW b \in Digits
    PROVE  Trace!Of(Trace!Writes(2, W2(a, b))) = <<a, b>>
<1>1. W2(a, b) % Trace!Place(2) = W2(a, b)
  BY TwoDigits, TracePlaces, 0 \in Nat
<1>2. Trace!Writes(2, W2(a, b)) = <<[width |-> 2, data |-> W2(a, b)]>>
  BY <1>1 DEF Trace!Writes, Trace!Stimulus
<1> QED BY <1>2, Chars2 DEF Trace!Of, Trace!OfOne

LEMMA Of3 ==
    ASSUME NEW a \in Digits, NEW b \in Digits, NEW c \in Digits
    PROVE  Trace!Of(Trace!Writes(3, W3(a, b, c))) = <<a, b, c>>
<1>1. c \in Nat /\ c % Byte = c
  BY TraceConsts DEF Digits
<1>2. W3(a, b, c) % Trace!Place(2) = W2(a, b) /\ W3(a, b, c) \div Trace!Place(2) = c /\ c % Trace!Place(1) = c
  BY <1>1, TwoDigits, TracePlaces DEF W3
<1>3. Trace!Writes(3, W3(a, b, c)) = <<[width |-> 2, data |-> W2(a, b)], [width |-> 1, data |-> c]>>
  BY <1>2 DEF Trace!Writes, Trace!Stimulus
<1>4. Trace!Of(Trace!Writes(3, W3(a, b, c))) = Trace!Characters(2, W2(a, b)) \o Trace!Characters(1, c)
  <2>. DEFINE w == Trace!Writes(3, W3(a, b, c))
  <2>1. Len(w) = 2 /\ w[1] = [width |-> 2, data |-> W2(a, b)] /\ w[2] = [width |-> 1, data |-> c]
    BY <1>3
  <2>. HIDE DEF w
  <2>2. Trace!Of(w) = Trace!OfOne(w[1]) \o Trace!OfOne(w[2])
    BY <2>1 DEF Trace!Of
  <2>3. Trace!OfOne(w[1]) = Trace!Characters(2, W2(a, b)) /\ Trace!OfOne(w[2]) = Trace!Characters(1, c)
    BY <2>1 DEF Trace!OfOne
  <2> QED BY <2>2, <2>3 DEF w
<1>5. Trace!Characters(2, W2(a, b)) = <<a, b>> /\ Trace!Characters(1, c) = <<c>>
  BY Chars1, Chars2
<1>6. <<a, b>> \o <<c>> = <<a, b, c>>
  <2>1. <<a, b>> \in Seq(Digits) /\ <<c>> \in Seq(Digits) /\ <<a, b, c>> \in Seq(Digits)
    OBVIOUS
  <2>. DEFINE u == <<a, b>> \o <<c>>
              v == <<a, b, c>>
  <2>2. /\ Len(<<a, b>>) = 2 /\ Len(<<c>>) = 1 /\ <<a, b>>[1] = a /\ <<a, b>>[2] = b /\ <<c>>[1] = c
        /\ Len(v) = 3 /\ v[1] = a /\ v[2] = b /\ v[3] = c
    OBVIOUS
  <2>3. /\ u \in Seq(Digits) /\ Len(u) = Len(<<a, b>>) + Len(<<c>>)
        /\ \A i \in 1 .. Len(<<a, b>>) + Len(<<c>>) :
              u[i] = IF i <= Len(<<a, b>>) THEN <<a, b>>[i] ELSE <<c>>[i - Len(<<a, b>>)]
    BY <2>1, ConcatProperties
  <2>. HIDE DEF u, v
  <2>4. Len(u) = 3 /\ u[1] = a /\ u[2] = b /\ u[3] = c
    BY <2>2, <2>3
  <2>5. v \in Seq(Digits)
    BY <2>1 DEF v
  <2>6. u = v
    BY <2>2, <2>3, <2>4, <2>5, SeqEqual
  <2> QED BY <2>6 DEF u, v
<1> QED BY <1>4, <1>5, <1>6

LEMMA Of4 ==
    ASSUME NEW a \in Digits, NEW b \in Digits, NEW c \in Digits,
           NEW d \in Digits
    PROVE  Trace!Of(Trace!Writes(4, W4(a, b, c, d))) = <<a, b, c, d>>
<1>1. Trace!Writes(4, W4(a, b, c, d)) = <<[width |-> 4, data |-> W4(a, b, c, d)]>>
  BY Chars4 DEF Trace!Writes, Trace!Stimulus
<1> QED BY <1>1, Chars4, SMTT(40) DEF Trace!Of, Trace!OfOne

LEMMA TraceInitially == Trace!Init => TraceInv
  BY DEF Trace!Init, TraceInv, Held, Held0

LEMMA EmptyWord == Trace!Characters(0, 0) = <<>>
  BY DEF Trace!Characters

(* What the tool was told is what was printed, but for the buffer.           *)
LEMMA TraceFollows == TraceInv => Trace!TypeOK /\ Trace!TraceIsWhole
<1> SUFFICES ASSUME TraceInv PROVE Trace!TypeOK /\ Trace!TraceIsWhole OBVIOUS
<1>0. Held /\ told \in Seq(Digits) /\ printed \in Seq(Printed)
  BY DEF TraceInv
<1>1. told \o Trace!Characters(bytes, buffer) = printed
  <2>1. CASE Held0
    BY <1>0, <2>1, EmptyWord DEF Held0
  <2>2. ASSUME NEW a \in Digits, Held1(a)
        PROVE  told \o Trace!Characters(bytes, buffer) = printed
    BY <2>2, Chars1 DEF Held1
  <2>3. ASSUME NEW a \in Digits, NEW b \in Digits, Held2(a, b)
        PROVE  told \o Trace!Characters(bytes, buffer) = printed
    BY <2>3, Chars2 DEF Held2
  <2>4. ASSUME NEW a \in Digits, NEW b \in Digits, NEW c \in Digits,
               Held3(a, b, c)
        PROVE  told \o Trace!Characters(bytes, buffer) = printed
    BY <2>4, Chars3 DEF Held3
  <2> QED BY <1>0, <2>1, <2>2, <2>3, <2>4 DEF Held
<1>2. bytes \in 0 .. 3
  <2>1. bytes = 0 \/ bytes = 1 \/ bytes = 2 \/ bytes = 3
    BY <1>0, Zenon DEF Held, Held0, Held1, Held2, Held3
  <2> QED BY <2>1
<1>3. buffer \in 0 .. Trace!Place(3) - 1
  <2>. DEFINE P == Byte * (Byte * Byte)
  <2>0. P \in Nat \ {0} /\ Byte <= Byte * Byte /\ Byte * Byte <= P /\ Byte \in Nat /\ Byte * Byte \in Nat
        /\ P = Trace!Place(3)
    <3>1. Byte \in Nat \ {0} /\ 0 \in Digits
      BY TraceConsts DEF Digits
    <3>2. P \in Nat \ {0} /\ Byte * Byte \in Nat \ {0}
      BY <3>1, ThreeDigits, TwoDigits, 0 \in Nat
    <3>3. Byte <= Byte * Byte
      BY <3>1
    <3>4. Byte * Byte <= Byte * (Byte * Byte)
      BY <3>1, <3>2, <3>3
    <3> QED BY <3>1, <3>2, <3>3, <3>4, TracePlaces
  <2>. HIDE DEF P
  <2>1. CASE Held0
    BY <2>0, <2>1 DEF Held0
  <2>2. ASSUME NEW a \in Digits, Held1(a)
        PROVE  buffer \in 0 .. Trace!Place(3) - 1
    BY <2>0, <2>2 DEF Held1, Digits
  <2>3. ASSUME NEW a \in Digits, NEW b \in Digits, Held2(a, b)
        PROVE  buffer \in 0 .. Trace!Place(3) - 1
    <3>1. buffer \in 0 .. Byte * Byte - 1
      BY <2>3, TwoDigits, 0 \in Nat DEF Held2
    <3> QED BY <2>0, <3>1
  <2>4. ASSUME NEW a \in Digits, NEW b \in Digits, NEW c \in Digits,
               Held3(a, b, c)
        PROVE  buffer \in 0 .. Trace!Place(3) - 1
    <3>1. buffer \in 0 .. Byte * (Byte * Byte) - 1
      BY <2>4, ThreeDigits, 0 \in Nat DEF Held3
    <3> QED BY <2>0, <3>1 DEF P
  <2> QED BY <1>0, <2>1, <2>2, <2>3, <2>4 DEF Held
<1> QED
  BY <1>0, <1>1, <1>2, <1>3
     DEF Trace!TypeOK, Trace!TraceIsWhole, TraceInv, Digits

\* A character comes into a buffer of n - 1, as it then is.
LEMMA PutcHolds ==
    ASSUME TraceInv, NEW e \in Printed, Trace!Putc(e), NEW n \in 1 .. 4,
           NEW data, NEW s \in Seq(Digits),
           bytes + 1 = n, buffer + (e * Trace!Place(bytes)) = data, Trace!Of(Trace!Writes(n, data)) = s,
           Append(printed, e) = told \o s,
           n < 4 /\ bytes' = n /\ buffer' = data /\ told' = told /\ printed' = told \o s => Held'
    PROVE  TraceInv'
<1>1. printed \in Seq(Printed) /\ told \in Seq(Digits) /\ printed' = Append(printed, e)
  BY DEF TraceInv, Trace!Putc
<1>2. printed' \in Seq(Printed) /\ printed' # <<>> /\ printed'[Len(printed')] = e
  <2>. DEFINE q == Append(printed, e)
  <2>1. q \in Seq(Printed) /\ Len(q) = Len(printed) + 1 /\ q[Len(printed) + 1] = e /\ Len(printed) \in Nat
    <3>1. printed \in Seq(Printed) /\ e \in Printed
      BY <1>1
    <3>2. q \in Seq(Printed) /\ Len(q) = Len(printed) + 1 /\ q[Len(printed) + 1] = e
      BY <3>1, AppendProperties, Zenon
    <3> QED BY <3>1, <3>2
  <2>. HIDE DEF q
  <2>2. q # <<>> /\ q[Len(q)] = e
    BY <2>1
  <2> QED BY <1>1, <2>1, <2>2 DEF q
<1>3. CASE n >= 4 \/ e \in LineEnds
  <2>1. bytes' = 0 /\ buffer' = 0 /\ told' = told \o s
    BY <1>3 DEF Trace!Putc
  <2>2. Held' /\ told' \in Seq(Digits)
    BY <1>1, <2>1 DEF Held, Held0
  <2> QED BY <1>2, <2>1, <2>2 DEF TraceInv
<1>4. CASE ~(n >= 4) /\ e \notin LineEnds
  <2>1. n < 4 /\ bytes' = n /\ buffer' = data /\ told' = told
    BY <1>4 DEF Trace!Putc
  <2> QED BY <1>1, <1>2, <1>4, <2>1 DEF TraceInv
<1> QED BY <1>3, <1>4

(* The invariant is kept by every character.                                 *)
LEMMA TraceInductive == TraceInv /\ [Trace!Next]_Trace!vars => TraceInv'
<1> SUFFICES ASSUME TraceInv, [Trace!Next]_Trace!vars PROVE TraceInv' OBVIOUS
<1>0. Held /\ told \in Seq(Digits)
  BY DEF TraceInv
<1>1. ASSUME NEW e \in Printed, Trace!Putc(e) PROVE TraceInv'
  <2>0. e \in Digits
    BY TraceConsts
  <2>1. CASE Held0
    <3>0. bytes + 1 = 1 /\ buffer + (e * Trace!Place(bytes)) = e
      BY <2>0, <2>1, TracePlaces, DigitsAreNat DEF Held0
    <3>1. Append(printed, e) = told \o <<e>> /\ <<e>> \in Seq(Digits)
      BY <2>0, <2>1, <1>0 DEF Held0
    <3>2. bytes' = 1 /\ buffer' = e /\ told' = told /\ printed' = told \o <<e>> => Held'
      BY <2>0, Zenon DEF Held, Held1
    <3>3. Trace!Of(Trace!Writes(1, e)) = <<e>>
      BY <2>0, Of1
    <3>4. 1 \in 1 .. 4
      OBVIOUS
    <3> QED BY <1>1, <2>0, <3>0, <3>1, <3>2, <3>3, <3>4, PutcHolds, Zenon
  <2>2. ASSUME NEW a \in Digits, Held1(a) PROVE TraceInv'
    <3>0. bytes + 1 = 2 /\ buffer + (e * Trace!Place(bytes)) = W2(a, e)
      BY <2>0, <2>2, TracePlaces, DigitsAreNat, TraceConsts DEF Held1, W2
    <3>1. Append(printed, e) = told \o <<a, e>> /\ <<a, e>> \in Seq(Digits)
      BY <2>0, <2>2, <1>0 DEF Held1
    <3>2. bytes' = 2 /\ buffer' = W2(a, e) /\ told' = told /\ printed' = told \o <<a, e>> => Held'
      BY <2>0, Zenon DEF Held, Held2
    <3>3. Trace!Of(Trace!Writes(2, W2(a, e))) = <<a, e>>
      BY <2>0, Of2
    <3>4. 2 \in 1 .. 4
      OBVIOUS
    <3> QED BY <1>1, <2>0, <3>0, <3>1, <3>2, <3>3, <3>4, PutcHolds, Zenon
  <2>3. ASSUME NEW a \in Digits, NEW b \in Digits, Held2(a, b) PROVE TraceInv'
    <3>0. bytes + 1 = 3 /\ buffer + (e * Trace!Place(bytes)) = W3(a, b, e)
      BY <2>0, <2>3, TracePlaces, DigitsAreNat, TraceConsts DEF Held2, W2, W3
    <3>1. Append(printed, e) = told \o <<a, b, e>> /\ <<a, b, e>> \in Seq(Digits)
      BY <2>0, <2>3, <1>0 DEF Held2
    <3>2. bytes' = 3 /\ buffer' = W3(a, b, e) /\ told' = told /\ printed' = told \o <<a, b, e>> => Held'
      BY <2>0, Zenon DEF Held, Held3
    <3>3. Trace!Of(Trace!Writes(3, W3(a, b, e))) = <<a, b, e>>
      BY <2>0, Of3
    <3>4. 3 \in 1 .. 4
      OBVIOUS
    <3> QED BY <1>1, <2>0, <3>0, <3>1, <3>2, <3>3, <3>4, PutcHolds, Zenon
  <2>4. ASSUME NEW a \in Digits, NEW b \in Digits, NEW c \in Digits,
               Held3(a, b, c)
        PROVE  TraceInv'
    <3>0. bytes + 1 = 4 /\ buffer + (e * Trace!Place(bytes)) = W4(a, b, c, e)
      BY <2>0, <2>4, TracePlaces, DigitsAreNat, TraceConsts
         DEF Held3, W2, W3, W4
    <3>1. Append(printed, e) = told \o <<a, b, c, e>> /\ <<a, b, c, e>> \in Seq(Digits)
      BY <2>0, <2>4, <1>0 DEF Held3
    <3>2. Trace!Of(Trace!Writes(4, W4(a, b, c, e))) = <<a, b, c, e>>
      BY <2>0, Of4
    <3>3. 4 \in 1 .. 4 /\ ~(4 < 4)
      OBVIOUS
    <3> QED BY <1>1, <2>0, <3>0, <3>1, <3>2, <3>3, PutcHolds, Zenon
  <2> QED BY <1>0, <2>1, <2>2, <2>3, <2>4 DEF Held
<1>2. CASE UNCHANGED Trace!vars
  BY <1>0, <1>2 DEF Trace!vars, TraceInv, Held, Held0, Held1, Held2, Held3
<1> QED BY <1>1, <1>2 DEF Trace!Next

-----------------------------------------------------------------------------
(* Start-up.                                                                  *)

LEMMA StartAssumed == Startup!StartupAssumption
  BY Instances

(* The places before the boot hart waits, in constructors and destructors.   *)
StartEarly == {"image", "init", "ctors", "ready"}
StartConstructing == {"ctors", "main ctors"}
StartDestructing == {"dtors", "main dtors"}

StartTyped ==
    /\ pc \in [StartHarts -> Startup!Pcs] /\ initWalk \in Startup!Walk
    /\ finiWalk \in Startup!Walk /\ run \in BOOLEAN
    /\ prefetcher \in SUBSET StartHarts /\ startMie \in SUBSET StartHarts
    /\ arrived \in SUBSET StartHarts /\ released \in SUBSET StartHarts
    /\ ready \in BOOLEAN

\* A walk has called those before the next, in their order.
Walked(walk, called, last) ==
    /\ walk.next \in 1 .. last + 1
    /\ called \in Seq(Nat) /\ Len(called) = walk.next - 1
    /\ \A i \in 1 .. Len(called) : called[i] = i
    /\ ~walk.done => walk.next = 1

\* How far the walks are when the boot hart is at p.
Booting(p) ==
    /\ p \in StartConstructing => initWalk.done
    /\ initWalk.done /\ p \notin StartConstructing => initWalk.next = Ctors + 1
    /\ run /\ p \notin {"image", "init", "ctors"} => initWalk.done /\ initWalk.next = Ctors + 1
    /\ p \in StartDestructing => finiWalk.done
    /\ finiWalk.done /\ p \notin StartDestructing => finiWalk.next = Dtors + 1
    /\ p = "exit" => finiWalk.done

\* What is true of a hart at p.
HartAt(h, p) ==
    /\ h # BootHart => p \in {"sync", "wait", "clear", "secondary", "wfi"}
    /\ h \in arrived => p \notin StartEarly \cup {"sync"}
    /\ p \notin StartEarly \cup {"sync", "wait"} => arrived = StartHarts
    /\ p \in Startup!Program => h \in prefetcher
    /\ run /\ p \in Startup!Program \cup {"secondary"} => h \notin startMie

(* The invariant of start-up.                                                *)
StartInv ==
    /\ StartTyped
    /\ Walked(initWalk, constructed, Ctors)
    /\ Walked(finiWalk, destructed, Dtors)
    /\ Booting(pc[BootHart])
    /\ \A h \in StartHarts : HartAt(h, pc[h])

LEMMA StartConsts == BootHart \in StartHarts /\ Ctors \in Nat /\ Dtors \in Nat
  BY StartAssumed DEF Startup!StartupAssumption

LEMMA StartInitially == Startup!Init => StartInv
<1> SUFFICES ASSUME Startup!Init PROVE StartInv OBVIOUS
<1>1. /\ pc = [h \in StartHarts |-> IF h = BootHart THEN "image" ELSE "sync"]
      /\ initWalk = [done |-> FALSE, next |-> 1]
      /\ finiWalk = [done |-> FALSE, next |-> 1]
      /\ constructed = <<>> /\ destructed = <<>> /\ run \in BOOLEAN
      /\ prefetcher = {} /\ startMie \in SUBSET StartHarts /\ ready = FALSE
      /\ arrived = {} /\ released = {}
  BY DEF Startup!Init, Startup!Barrier!Init
<1>2. StartTyped
  BY <1>1 DEF StartTyped, Startup!Pcs, Startup!Walk
<1>3. Walked(initWalk, constructed, Ctors) /\ Walked(finiWalk, destructed, Dtors)
  <2>1. <<>> \in Seq(Nat) /\ Len(<<>>) = 0 /\ 1 \in 1 .. Ctors + 1 /\ 1 \in 1 .. Dtors + 1
    BY StartConsts
  <2>2. \A i \in 1 .. 0 : FALSE
    OBVIOUS
  <2>3. 0 = 1 - 1
    OBVIOUS
  <2> QED BY <1>1, <2>1, <2>2, <2>3 DEF Walked
<1>4. pc[BootHart] = "image"
  BY <1>1, StartConsts
<1>5. Booting("image")
  BY <1>1 DEF Booting, StartConstructing, StartDestructing
<1>6. ASSUME NEW h \in StartHarts PROVE HartAt(h, pc[h])
  <2>1. pc[h] = IF h = BootHart THEN "image" ELSE "sync"
    BY <1>1
  <2> QED BY <1>1, <2>1 DEF HartAt, StartEarly, Startup!Program
<1> QED BY <1>2, <1>3, <1>4, <1>5, <1>6 DEF StartInv

\* A walk that goes one on.
LEMMA WalkOn ==
    ASSUME NEW walk \in Startup!Walk, NEW called, NEW last \in Nat,
           Walked(walk, called, last),
           walk.done, walk.next <= last
    PROVE  Walked([walk EXCEPT !.next = @ + 1], Append(called, walk.next), last)
<1>. DEFINE n == walk.next
            w == [walk EXCEPT !.next = @ + 1]
            c == Append(called, n)
<1>1. n \in Nat /\ n >= 1 /\ called \in Seq(Nat) /\ Len(called) = n - 1
      /\ (\A i \in 1 .. Len(called) : called[i] = i)
  BY DEF Walked
<1>2. w.next = n + 1 /\ w.done
  BY DEF Startup!Walk
<1>3. c \in Seq(Nat) /\ Len(c) = Len(called) + 1 /\ (\A i \in 1 .. Len(called) : c[i] = called[i])
      /\ c[Len(called) + 1] = n
  BY <1>1, AppendProperties
<1>. HIDE DEF c, w
<1>4. Len(c) = n
  BY <1>1, <1>3
<1>5. ASSUME NEW i \in 1 .. Len(c) PROVE c[i] = i
  <2>1. CASE i = n
    BY <1>1, <1>3, <2>1
  <2>2. CASE i # n
    <3>1. i \in 1 .. Len(called)
      BY <1>1, <1>4, <2>2
    <3> QED BY <1>1, <1>3, <3>1
  <2> QED BY <2>1, <2>2
<1>6. w.next \in 1 .. last + 1 /\ Len(c) = w.next - 1
  BY <1>1, <1>2, <1>4
<1>7. Walked(w, c, last)
  BY <1>2, <1>3, <1>5, <1>6 DEF Walked
<1> QED BY <1>7 DEF c, w

LEMMA WalkBegins ==
    ASSUME NEW walk \in Startup!Walk, NEW called, NEW last \in Nat,
           Walked(walk, called, last)
    PROVE  /\ Startup!Begun(walk, last) \in Startup!Walk /\ Startup!Begun(walk, last).done
           /\ Startup!Begun(walk, last).next = walk.next
           /\ Walked(Startup!Begun(walk, last), called, last)
<1>1. /\ Startup!Begun(walk, last) \in Startup!Walk /\ Startup!Begun(walk, last).done
      /\ Startup!Begun(walk, last).next = walk.next
  BY DEF Startup!Begun, Startup!Walk
<1> QED BY <1>1 DEF Walked

\* A hart moves; what is to be shown is about it alone.
LEMMA HartMoves ==
    ASSUME StartInv, NEW h \in StartHarts, NEW l \in Startup!Pcs,
           Startup!Goto(h, l),
           initWalk' \in Startup!Walk, finiWalk' \in Startup!Walk, run' = run,
           startMie' \in SUBSET startMie, ready' \in BOOLEAN,
           prefetcher' \in {prefetcher, prefetcher \cup {h}},
           arrived' \in SUBSET StartHarts,
           arrived' \in {arrived, arrived \cup {h}},
           released' \in SUBSET StartHarts,
           Walked(initWalk, constructed, Ctors)', Walked(finiWalk, destructed, Dtors)',
           h = BootHart => Booting(l)',
           h # BootHart => UNCHANGED <<initWalk, finiWalk>>,
           HartAt(h, l)'
    PROVE  StartInv'
<1>1. /\ pc \in [StartHarts -> Startup!Pcs] /\ pc' = [pc EXCEPT ![h] = l]
      /\ pc' \in [StartHarts -> Startup!Pcs] /\ pc'[h] = l /\ (\A g \in StartHarts : g # h => pc'[g] = pc[g])
  BY DEF StartInv, StartTyped, Startup!Goto
<1>2. StartTyped'
  BY <1>1 DEF StartInv, StartTyped
<1>3. Booting(pc[BootHart])'
  <2>1. CASE h = BootHart
    BY <1>1, <2>1
  <2>2. CASE h # BootHart
    <3>1. pc'[BootHart] = pc[BootHart]
      BY <1>1, <2>2, StartConsts
    <3>2. Booting(pc[BootHart])
      BY DEF StartInv
    <3> QED BY <2>2, <3>1, <3>2 DEF Booting
  <2> QED BY <2>1, <2>2
<1>4. ASSUME NEW g \in StartHarts PROVE HartAt(g, pc[g])'
  <2>1. CASE g = h
    BY <1>1, <2>1
  <2>2. CASE g # h
    <3>1. pc'[g] = pc[g] /\ HartAt(g, pc[g])
      BY <1>1, <2>2 DEF StartInv
    <3>2. (g \in arrived' <=> g \in arrived) /\ (arrived = StartHarts => arrived' = StartHarts)
          /\ (g \in prefetcher => g \in prefetcher') /\ (g \in startMie' => g \in startMie)
      BY <2>2
    <3> QED BY <3>1, <3>2 DEF HartAt
  <2> QED BY <2>1, <2>2
<1> QED BY <1>2, <1>3, <1>4 DEF StartInv

LEMMA StillWalked ==
    ASSUME StartInv, UNCHANGED Startup!walks
    PROVE  /\ initWalk' \in Startup!Walk /\ finiWalk' \in Startup!Walk
           /\ Walked(initWalk, constructed, Ctors)'
           /\ Walked(finiWalk, destructed, Dtors)'
           /\ \A p : Booting(p) /\ run' = run => Booting(p)'
  BY DEF StartInv, StartTyped, Startup!walks, Walked, Booting

\* The boot hart goes from one place to another, and the walks stay.
LEMMA BootMoves ==
    ASSUME StartInv, NEW h \in StartHarts, NEW l \in Startup!Pcs,
           Startup!Goto(h, l),
           UNCHANGED <<Startup!walks, run, prefetcher, startMie>>,
           UNCHANGED <<arrived, released>>, ready' \in BOOLEAN,
           h = BootHart => Booting(l), HartAt(h, l)
    PROVE  StartInv'
<1>1. /\ initWalk' \in Startup!Walk /\ finiWalk' \in Startup!Walk /\ UNCHANGED <<initWalk, finiWalk>>
      /\ Walked(initWalk, constructed, Ctors)'
      /\ Walked(finiWalk, destructed, Dtors)'
      /\ h = BootHart => Booting(l)'
  BY StillWalked DEF Startup!walks
<1>2. HartAt(h, l)'
  BY DEF HartAt
<1>3. arrived' \in SUBSET StartHarts /\ released' \in SUBSET StartHarts
  BY DEF StartInv, StartTyped
<1> QED BY <1>1, <1>2, <1>3, HartMoves

\* The boot hart is the only one that is not on the way to wfi.
LEMMA OnlyTheBootHart ==
    ASSUME StartInv, NEW h \in StartHarts,
           pc[h] \notin {"sync", "wait", "clear", "secondary", "wfi"}
    PROVE  h = BootHart /\ Booting(pc[h]) /\ HartAt(h, pc[h])
  BY DEF StartInv, HartAt

LEMMA WalkSteps ==
    ASSUME StartInv, NEW h \in StartHarts,
           Startup!MetalInit(h) \/ Startup!Ctor(h) \/ Startup!CtorCallsInit(h) \/ Startup!MetalFini(h) \/ Startup!Dtor(h)
    PROVE  StartInv'
<1>0. /\ StartTyped /\ Walked(initWalk, constructed, Ctors) /\ Walked(finiWalk, destructed, Dtors)
      /\ (\A g \in StartHarts : HartAt(g, pc[g])) /\ Booting(pc[BootHart])
  BY DEF StartInv
<1>1. initWalk \in Startup!Walk /\ finiWalk \in Startup!Walk /\ Ctors \in Nat /\ Dtors \in Nat /\ initWalk.next \in Nat /\ finiWalk.next \in Nat
      /\ initWalk.done \in BOOLEAN /\ finiWalk.done \in BOOLEAN
  BY <1>0, StartConsts DEF StartTyped, Startup!Walk
<1>2. CASE Startup!MetalInit(h)
  <2>1. /\ pc[h] \in {"init", "main init"} /\ initWalk' = Startup!Begun(initWalk, Ctors)
        /\ prefetcher' = IF initWalk.done THEN prefetcher ELSE prefetcher \cup {h}
        /\ UNCHANGED <<finiWalk, constructed, destructed, run, startMie, arrived, released, ready>>
    BY <1>2 DEF Startup!MetalInit, Startup!barrier
  <2>2. h = BootHart /\ Booting(pc[h]) /\ HartAt(h, pc[h])
    BY <2>1, OnlyTheBootHart
  <2>3. initWalk' \in Startup!Walk /\ initWalk'.done /\ initWalk'.next = initWalk.next /\ Walked(initWalk', constructed, Ctors)
    <3>. DEFINE b == Startup!Begun(initWalk, Ctors)
    <3>1. b \in Startup!Walk /\ b.done /\ b.next = initWalk.next /\ Walked(b, constructed, Ctors)
      BY <1>0, <1>1, WalkBegins
    <3>2. initWalk' = b
      BY <2>1
    <3> QED BY <3>1, <3>2, Zenon
  <2>4. Walked(initWalk, constructed, Ctors)' /\ Walked(finiWalk, destructed, Dtors)'
    BY <1>0, <2>1, <2>3
  <2>5. PICK l \in {"ready", "main", "ctors", "main ctors"} :
           /\ Startup!Goto(h, l) /\ (l \in {"ready", "main"} <=> initWalk.done)
           /\ (l \in {"ready", "ctors"} <=> pc[h] = "init")
    <3>1. CASE initWalk.done
      BY <1>2, <2>1, <3>1 DEF Startup!MetalInit
    <3>2. CASE ~initWalk.done
      BY <1>2, <2>1, <3>2 DEF Startup!MetalInit
    <3> QED BY <3>1, <3>2
  <2>6. l \in Startup!Pcs
    BY DEF Startup!Pcs
  <2>7. Booting(l)'
    <3>1. initWalk'.done /\ initWalk'.next = initWalk.next /\ finiWalk' = finiWalk /\ run' = run
      BY <2>1, <2>3
    <3>2. /\ l \in {"ready", "main"} => initWalk.next = Ctors + 1
          /\ run /\ l = "main ctors" => initWalk.next = Ctors + 1
          /\ finiWalk.done => finiWalk.next = Dtors + 1
      BY <2>1, <2>2, <2>5 DEF Booting, StartConstructing, StartDestructing
    <3> QED BY <3>1, <3>2 DEF Booting, StartConstructing, StartDestructing
  <2>8. HartAt(h, l)'
    <3>1. prefetcher' = prefetcher \/ prefetcher' = prefetcher \cup {h}
      BY <2>1
    <3>2. arrived' = arrived /\ startMie' = startMie /\ run' = run /\ (h \in prefetcher => h \in prefetcher')
      BY <2>1, <3>1
    <3>3. CASE pc[h] = "init"
      BY <2>2, <2>5, <3>2, <3>3 DEF HartAt, StartEarly, Startup!Program
    <3>4. CASE pc[h] = "main init"
      BY <2>2, <2>5, <3>2, <3>4 DEF HartAt, StartEarly, Startup!Program
    <3> QED BY <2>1, <3>3, <3>4
  <2>9. arrived' \in SUBSET StartHarts /\ released' \in SUBSET StartHarts /\ ready' \in BOOLEAN /\ finiWalk' \in Startup!Walk
    BY <1>0, <2>1 DEF StartTyped
  <2>10. /\ run' = run /\ startMie' \in SUBSET startMie /\ prefetcher' \in {prefetcher, prefetcher \cup {h}}
         /\ arrived' \in {arrived, arrived \cup {h}}
    BY <2>1
  <2> QED BY <2>2, <2>3, <2>4, <2>5, <2>6, <2>7, <2>8, <2>9, <2>10, HartMoves
<1>3. CASE Startup!MetalFini(h)
  <2>1. /\ pc[h] \in {"main fini", "fini"} /\ finiWalk' = Startup!Begun(finiWalk, Dtors)
        /\ UNCHANGED <<initWalk, constructed, destructed, run, prefetcher, startMie, arrived, released, ready>>
    BY <1>3 DEF Startup!MetalFini, Startup!barrier
  <2>2. h = BootHart /\ Booting(pc[h]) /\ HartAt(h, pc[h])
    BY <2>1, OnlyTheBootHart
  <2>3. finiWalk' \in Startup!Walk /\ finiWalk'.done /\ finiWalk'.next = finiWalk.next /\ Walked(finiWalk', destructed, Dtors)
    BY <1>0, <1>1, <2>1, WalkBegins
  <2>4. Walked(initWalk, constructed, Ctors)' /\ Walked(finiWalk, destructed, Dtors)'
    BY <1>0, <2>1, <2>3
  <2>5. PICK l \in {"exit", "main", "dtors", "main dtors"} :
           Startup!Goto(h, l) /\ (l \in {"exit", "main"} <=> finiWalk.done)
    <3>1. CASE finiWalk.done
      BY <1>3, <3>1 DEF Startup!MetalFini
    <3>2. CASE ~finiWalk.done
      BY <1>3, <3>2 DEF Startup!MetalFini
    <3> QED BY <3>1, <3>2
  <2>6. l \in Startup!Pcs
    BY DEF Startup!Pcs
  <2>7. Booting(l)'
    BY <2>1, <2>2, <2>3, <2>5 DEF Booting, StartConstructing, StartDestructing
  <2>8. HartAt(h, l)'
    BY <2>1, <2>2, <2>5 DEF HartAt, StartEarly, Startup!Program
  <2>9. arrived' \in SUBSET StartHarts /\ released' \in SUBSET StartHarts /\ ready' \in BOOLEAN /\ initWalk' \in Startup!Walk
    BY <1>0, <2>1 DEF StartTyped
  <2> QED
    BY <1>1, <2>1, <2>2, <2>3, <2>4, <2>5, <2>6, <2>7, <2>8, <2>9, HartMoves
<1>4. CASE Startup!Ctor(h)
  <2>1. /\ pc[h] \in StartConstructing /\ initWalk.next <= Ctors
        /\ constructed' = Append(constructed, initWalk.next)
        /\ initWalk' = [initWalk EXCEPT !.next = @ + 1]
        /\ startMie' \in {startMie, startMie \cup {h}}
        /\ UNCHANGED <<pc, finiWalk, destructed, run, prefetcher>>
        /\ UNCHANGED <<arrived, released, ready>>
    BY <1>4 DEF Startup!Ctor, Startup!barrier, StartConstructing
  <2>2. h = BootHart /\ Booting(pc[h]) /\ HartAt(h, pc[h])
    BY <2>1, OnlyTheBootHart DEF StartConstructing
  <2>3. initWalk.done
    BY <2>1, <2>2 DEF Booting
  <2>4. Walked(initWalk', constructed', Ctors)
    BY <1>0, <1>1, <2>1, <2>3, WalkOn
  <2>5. initWalk' \in Startup!Walk /\ initWalk'.done /\ initWalk'.next = initWalk.next + 1
    BY <1>1, <2>1, <2>3 DEF Startup!Walk
  <2>6. StartTyped'
    BY <1>0, <2>1, <2>5 DEF StartTyped
  <2>7. run => pc[h] = "ctors"
    <3>1. Ctors + 1 # initWalk.next
      BY <1>1, <2>1
    <3> QED BY <2>1, <2>2, <3>1 DEF Booting, StartConstructing
  <2>8. Booting(pc[BootHart])'
    BY <1>0, <2>1, <2>2, <2>5, <2>7 DEF Booting
  <2>9. ASSUME NEW g \in StartHarts PROVE HartAt(g, pc[g])'
    <3>1. CASE g = h
      BY <1>0, <2>1, <2>7, <3>1 DEF HartAt, Startup!Program
    <3>2. CASE g # h
      <4>1. g \in startMie' => g \in startMie
        BY <2>1, <3>2
      <4> QED BY <1>0, <2>1, <4>1 DEF HartAt
    <3> QED BY <3>1, <3>2
  <2> QED BY <1>0, <2>1, <2>4, <2>6, <2>8, <2>9 DEF StartInv
<1>5. CASE Startup!CtorCallsInit(h)
  <2>1. /\ pc[h] \in StartConstructing
        /\ initWalk' = (IF initWalk.done THEN initWalk ELSE [initWalk EXCEPT !.next = 1])
        /\ UNCHANGED <<pc, finiWalk, constructed, destructed, run, prefetcher, startMie>>
        /\ UNCHANGED <<arrived, released, ready>>
    BY <1>5 DEF Startup!CtorCallsInit, Startup!barrier, StartConstructing
  <2>2. h = BootHart /\ Booting(pc[h])
    BY <2>1, OnlyTheBootHart DEF StartConstructing
  <2>3. initWalk' = initWalk
    BY <2>1, <2>2 DEF Booting
  <2> QED BY <1>0, <2>1, <2>3 DEF StartInv, StartTyped, Booting, HartAt
<1>6. CASE Startup!Dtor(h)
  <2>1. /\ pc[h] \in StartDestructing /\ finiWalk.next <= Dtors
        /\ destructed' = Append(destructed, finiWalk.next)
        /\ finiWalk' = [finiWalk EXCEPT !.next = @ + 1]
        /\ UNCHANGED <<pc, initWalk, constructed, run, prefetcher, startMie>>
        /\ UNCHANGED <<arrived, released, ready>>
    BY <1>6 DEF Startup!Dtor, Startup!barrier, StartDestructing
  <2>2. h = BootHart /\ Booting(pc[h])
    BY <2>1, OnlyTheBootHart DEF StartDestructing
  <2>3. finiWalk.done
    BY <2>1, <2>2 DEF Booting
  <2>4. Walked(finiWalk', destructed', Dtors)
    BY <1>0, <1>1, <2>1, <2>3, WalkOn
  <2>5. finiWalk' \in Startup!Walk /\ finiWalk'.done
    BY <1>1, <2>1, <2>3 DEF Startup!Walk
  <2>6. StartTyped'
    BY <1>0, <2>1, <2>5 DEF StartTyped
  <2>7. Booting(pc[BootHart])'
    BY <1>0, <2>1, <2>2, <2>5 DEF Booting
  <2>8. ASSUME NEW g \in StartHarts PROVE HartAt(g, pc[g])'
    BY <1>0, <2>1 DEF HartAt
  <2> QED BY <1>0, <2>1, <2>4, <2>6, <2>7, <2>8 DEF StartInv
<1> QED BY <1>2, <1>3, <1>4, <1>5, <1>6

LEMMA HartSteps ==
    ASSUME StartInv, NEW h \in StartHarts,
           \/ Startup!InitRun(h) \/ Startup!CtorsEnd(h) \/ Startup!Ready(h) \/ Startup!Arrive(h) \/ Startup!Leave(h) \/ Startup!ClearInterrupts(h)
           \/ Startup!SecondaryInit(h) \/ Startup!CallInit(h) \/ Startup!CallFini(h) \/ Startup!DtorsEnd(h)
    PROVE  StartInv'
<1>0. /\ StartTyped /\ HartAt(h, pc[h]) /\ (h = BootHart => Booting(pc[h]))
      /\ arrived \in SUBSET StartHarts /\ released \in SUBSET StartHarts
      /\ ready \in BOOLEAN
      /\ prefetcher \in SUBSET StartHarts /\ startMie \in SUBSET StartHarts
      /\ run \in BOOLEAN
  BY DEF StartInv, StartTyped
<1>1. CASE Startup!InitRun(h)
  <2>1. PICK l \in {"init", "ready"} : /\ pc[h] = "image" /\ Startup!Goto(h, l) /\ (l = "ready" => ~run)
                                       /\ UNCHANGED <<Startup!walks, run, prefetcher, startMie, arrived, released, ready>>
    BY <1>1 DEF Startup!InitRun, Startup!barrier
  <2>2. Booting(l) /\ HartAt(h, l) /\ l \in Startup!Pcs
    BY <2>1, OnlyTheBootHart
       DEF Booting, HartAt, StartConstructing, StartDestructing, StartEarly,
           Startup!Program, Startup!Pcs
  <2> QED BY <1>0, <2>1, <2>2, BootMoves
<1>2. CASE Startup!CtorsEnd(h)
  <2>1. PICK l \in {"ready", "main"} : /\ pc[h] \in StartConstructing /\ Startup!Goto(h, l) /\ initWalk.next = Ctors + 1
                                       /\ (l = "ready" <=> pc[h] = "ctors")
                                       /\ UNCHANGED <<Startup!walks, run, prefetcher, startMie, arrived, released, ready>>
    BY <1>2 DEF Startup!CtorsEnd, Startup!barrier, StartConstructing
  <2>2. Booting(l) /\ HartAt(h, l) /\ l \in Startup!Pcs
    BY <2>1, OnlyTheBootHart
       DEF Booting, HartAt, StartConstructing, StartDestructing, StartEarly,
           Startup!Program, Startup!Pcs
  <2> QED BY <1>0, <2>1, <2>2, BootMoves
<1>3. CASE Startup!Ready(h)
  <2>1. /\ pc[h] = "ready" /\ Startup!Goto(h, "sync")
        /\ UNCHANGED <<Startup!walks, run, prefetcher, startMie, arrived, released>>
        /\ ready' = TRUE
    BY <1>3 DEF Startup!Ready, Startup!Barrier!FinishInit
  <2>2. Booting("sync") /\ HartAt(h, "sync") /\ "sync" \in Startup!Pcs
    BY <2>1, OnlyTheBootHart
       DEF Booting, HartAt, StartConstructing, StartDestructing, StartEarly,
           Startup!Program, Startup!Pcs
  <2> QED BY <1>0, <2>1, <2>2, BootMoves
<1>4. CASE Startup!Arrive(h)
  <2>1. /\ pc[h] = "sync" /\ Startup!Goto(h, "wait") /\ arrived' = arrived \cup {h}
        /\ UNCHANGED <<Startup!walks, run, prefetcher, startMie, ready, released>>
    BY <1>4 DEF Startup!Arrive, Startup!Barrier!Arrive
  <2>2. h = BootHart => Booting("wait")
    BY <1>0, <2>1 DEF Booting, StartConstructing, StartDestructing
  <2>3. HartAt(h, "wait")' /\ "wait" \in Startup!Pcs
    BY <1>0, <2>1 DEF HartAt, StartEarly, Startup!Program, Startup!Pcs
  <2>4. initWalk' \in Startup!Walk /\ finiWalk' \in Startup!Walk /\ UNCHANGED <<initWalk, finiWalk>>
        /\ Walked(initWalk, constructed, Ctors)'
        /\ Walked(finiWalk, destructed, Dtors)'
        /\ (h = BootHart => Booting("wait")')
    BY <2>1, <2>2, StillWalked DEF Startup!walks
  <2> QED BY <1>0, <2>1, <2>3, <2>4, HartMoves
<1>5. CASE Startup!Leave(h)
  <2>1. /\ pc[h] = "wait" /\ Startup!Goto(h, "clear") /\ arrived = StartHarts /\ released' = released \cup {h}
        /\ UNCHANGED <<Startup!walks, run, prefetcher, startMie, ready, arrived>>
    BY <1>5 DEF Startup!Leave, Startup!Barrier!Release
  <2>2. h = BootHart => Booting("clear")
    BY <1>0, <2>1 DEF Booting, StartConstructing, StartDestructing
  <2>3. HartAt(h, "clear")' /\ "clear" \in Startup!Pcs
    BY <1>0, <2>1 DEF HartAt, StartEarly, Startup!Program, Startup!Pcs
  <2>4. initWalk' \in Startup!Walk /\ finiWalk' \in Startup!Walk /\ UNCHANGED <<initWalk, finiWalk>>
        /\ Walked(initWalk, constructed, Ctors)'
        /\ Walked(finiWalk, destructed, Dtors)'
        /\ (h = BootHart => Booting("clear")')
    BY <2>1, <2>2, StillWalked DEF Startup!walks
  <2> QED BY <1>0, <2>1, <2>3, <2>4, HartMoves
<1>6. CASE Startup!ClearInterrupts(h)
  <2>1. /\ pc[h] = "clear" /\ Startup!Goto(h, "secondary") /\ startMie' = startMie \ {h}
        /\ UNCHANGED <<Startup!walks, run, prefetcher, ready, arrived, released>>
    BY <1>6 DEF Startup!ClearInterrupts, Startup!barrier
  <2>2. h = BootHart => Booting("secondary")
    BY <1>0, <2>1 DEF Booting, StartConstructing, StartDestructing
  <2>3. HartAt(h, "secondary")' /\ "secondary" \in Startup!Pcs
    BY <1>0, <2>1 DEF HartAt, StartEarly, Startup!Program, Startup!Pcs
  <2>4. initWalk' \in Startup!Walk /\ finiWalk' \in Startup!Walk /\ UNCHANGED <<initWalk, finiWalk>>
        /\ Walked(initWalk, constructed, Ctors)'
        /\ Walked(finiWalk, destructed, Dtors)'
        /\ (h = BootHart => Booting("secondary")')
    BY <2>1, <2>2, StillWalked DEF Startup!walks
  <2> QED BY <1>0, <2>1, <2>3, <2>4, HartMoves
<1>7. CASE Startup!SecondaryInit(h)
  <2>1. PICK l \in {"main", "wfi"} :
          /\ pc[h] = "secondary" /\ Startup!Goto(h, l) /\ (l = "main" <=> h = BootHart)
          /\ prefetcher' = prefetcher \cup {h}
          /\ UNCHANGED <<Startup!walks, run, startMie, ready, arrived, released>>
    BY <1>7 DEF Startup!SecondaryInit, Startup!barrier, Startup!OnTheHart
  <2>2. h = BootHart => Booting(l)
    BY <1>0, <2>1 DEF Booting, StartConstructing, StartDestructing
  <2>3. HartAt(h, l)' /\ l \in Startup!Pcs
    BY <1>0, <2>1 DEF HartAt, StartEarly, Startup!Program, Startup!Pcs
  <2>4. initWalk' \in Startup!Walk /\ finiWalk' \in Startup!Walk /\ UNCHANGED <<initWalk, finiWalk>>
        /\ Walked(initWalk, constructed, Ctors)'
        /\ Walked(finiWalk, destructed, Dtors)'
        /\ (h = BootHart => Booting(l)')
    BY <2>1, <2>2, StillWalked DEF Startup!walks
  <2> QED BY <1>0, <2>1, <2>3, <2>4, HartMoves
<1>8. CASE Startup!CallInit(h) \/ Startup!CallFini(h)
  <2>1. PICK l \in {"main init", "main fini", "fini"} :
          /\ pc[h] = "main" /\ Startup!Goto(h, l)
          /\ UNCHANGED <<Startup!walks, run, prefetcher, startMie, arrived, released, ready>>
    BY <1>8 DEF Startup!CallInit, Startup!CallFini, Startup!barrier
  <2>2. Booting(l) /\ HartAt(h, l) /\ l \in Startup!Pcs
    BY <2>1, OnlyTheBootHart
       DEF Booting, HartAt, StartConstructing, StartDestructing, StartEarly,
           Startup!Program, Startup!Pcs
  <2> QED BY <1>0, <2>1, <2>2, BootMoves
<1>9. CASE Startup!DtorsEnd(h)
  <2>1. PICK l \in {"exit", "main"} : /\ pc[h] \in StartDestructing /\ Startup!Goto(h, l) /\ finiWalk.next = Dtors + 1
                                      /\ UNCHANGED <<Startup!walks, run, prefetcher, startMie, arrived, released, ready>>
    BY <1>9 DEF Startup!DtorsEnd, Startup!barrier, StartDestructing
  <2>2. Booting(l) /\ HartAt(h, l) /\ l \in Startup!Pcs
    BY <2>1, OnlyTheBootHart
       DEF Booting, HartAt, StartConstructing, StartDestructing, StartEarly,
           Startup!Program, Startup!Pcs
  <2> QED BY <1>0, <2>1, <2>2, BootMoves
<1> QED BY <1>1, <1>2, <1>3, <1>4, <1>5, <1>6, <1>7, <1>8, <1>9

(* The invariant is kept by every step of every hart.                        *)
LEMMA StartInductive == StartInv /\ [Startup!Next]_Startup!vars => StartInv'
<1> SUFFICES ASSUME StartInv, [Startup!Next]_Startup!vars
             PROVE  StartInv' OBVIOUS
<1>1. CASE UNCHANGED Startup!vars
  <2>1. UNCHANGED <<pc, initWalk, finiWalk, constructed, destructed, run, prefetcher, startMie, ready, arrived, released>>
    BY <1>1 DEF Startup!vars, Startup!walks, Startup!barrier
  <2> QED BY <2>1 DEF StartInv, StartTyped, Walked, Booting, HartAt
<1> QED BY <1>1, WalkSteps, HartSteps DEF Startup!Next

(* Constructors and destructors run once and in order, a program finds all   *)
(* set up, and destructors run after it.                                     *)
LEMMA StartFollows ==
    StartInv =>
      Startup!TypeOK /\ Startup!EachRunsOnce /\ Startup!ProgramFindsAllSetUp /\ Startup!DestructorsRun
<1> SUFFICES ASSUME StartInv
             PROVE  Startup!TypeOK /\ Startup!EachRunsOnce /\ Startup!ProgramFindsAllSetUp /\ Startup!DestructorsRun OBVIOUS
<1>1. Startup!TypeOK
  BY DEF StartInv, StartTyped, Startup!TypeOK
<1>2. Startup!EachRunsOnce
  <2>1. DOMAIN constructed = 1 .. Len(constructed) /\ DOMAIN destructed = 1 .. Len(destructed)
    BY DEF StartInv, Walked
  <2> QED BY <2>1 DEF StartInv, Walked, Startup!EachRunsOnce
<1>3. initWalk.next = Ctors + 1 => Len(constructed) = Ctors
  BY StartConsts DEF StartInv, Walked
<1>4. finiWalk.next = Dtors + 1 => Len(destructed) = Dtors
  BY StartConsts DEF StartInv, Walked
<1>5. ASSUME NEW h \in StartHarts, pc[h] \in Startup!Program
      PROVE  h \in prefetcher /\ (run => Len(constructed) = Ctors /\ h \notin startMie)
  <2>1. HartAt(h, pc[h]) /\ HartAt(BootHart, pc[BootHart]) /\ Booting(pc[BootHart]) /\ BootHart \in StartHarts
    BY StartConsts DEF StartInv
  <2>2. pc[h] \notin StartEarly \cup {"sync", "wait"}
    BY <1>5 DEF StartEarly, Startup!Program
  <2>3. pc[BootHart] \notin {"image", "init", "ctors"}
    BY <2>1, <2>2 DEF HartAt, StartEarly
  <2>4. run => Len(constructed) = Ctors
    BY <1>3, <2>1, <2>3 DEF Booting
  <2> QED BY <1>5, <2>1, <2>4 DEF HartAt
<1>6. ASSUME NEW h \in StartHarts, pc[h] = "exit" PROVE Len(destructed) = Dtors
  <2>1. Booting("exit")
    BY <1>6, OnlyTheBootHart
  <2> QED BY <1>4, <2>1 DEF Booting, StartDestructing
<1> QED
  BY <1>1, <1>2, <1>5, <1>6
     DEF Startup!ProgramFindsAllSetUp, Startup!DestructorsRun

-----------------------------------------------------------------------------
(* The memories.                                                              *)

LEMMA MemAssumed == Memory!MemoryAssumption
  BY Instances

(* The invariant of the memories: what was found is what the table has for   *)
(* the address.                                                              *)
MemInv ==
    /\ table \in Blocks \X Blocks
    /\ address \in 0 .. MemoryWord - 1 /\ found \in Blocks \cup {NoMemory}
    /\ lockRc \in 0 .. 2
    /\ address # 0 \/ found # NoMemory => found = Memory!Lookup(address) /\ lockRc = Memory!LockInit(found)

LEMMA MemInitially == Memory!Init => MemInv
<1>1. 0 \in 0 .. MemoryWord - 1
  BY MemAssumed DEF Memory!MemoryAssumption
<1> QED BY <1>1 DEF Memory!Init, MemInv

(* The first memory of the table that matches is found.                      *)
LEMMA FirstMatch ==
    ASSUME table \in Blocks \X Blocks, NEW a
    PROVE  /\ table[1] \in Blocks /\ table[2] \in Blocks /\ DOMAIN table = {1, 2}
           /\ \/ Memory!Matches(table[1], a) /\ Memory!Lookup(a) = table[1]
              \/ ~Memory!Matches(table[1], a) /\ Memory!Matches(table[2], a) /\ Memory!Lookup(a) = table[2]
              \/ ~Memory!Matches(table[1], a) /\ ~Memory!Matches(table[2], a) /\ Memory!Lookup(a) = NoMemory
<1>1. table[1] \in Blocks /\ table[2] \in Blocks /\ DOMAIN table = {1, 2}
  OBVIOUS
<1>. DEFINE S == {i \in DOMAIN table : Memory!Matches(table[i], a)}
<1>2. Memory!Lookup(a) = IF S = {} THEN NoMemory ELSE table[Memory!Min(S)]
  BY DEF Memory!Lookup
<1>3. CASE Memory!Matches(table[1], a)
  <2>1. 1 \in S /\ S \subseteq {1, 2}
    BY <1>1, <1>3
  <2>. HIDE DEF S
  <2>2. Memory!Min(S) = 1
    <3>1. \A y \in S : 1 <= y
      BY <2>1
    <3>2. \A x \in S : (\A y \in S : x <= y) => x = 1
      BY <2>1
    <3> QED BY <2>1, <3>1, <3>2 DEF Memory!Min
  <2> QED BY <1>1, <1>2, <1>3, <2>1, <2>2
<1>4. CASE ~Memory!Matches(table[1], a) /\ Memory!Matches(table[2], a)
  <2>1. S = {2}
    BY <1>1, <1>4
  <2>. HIDE DEF S
  <2>2. Memory!Min(S) = 2
    BY <2>1 DEF Memory!Min
  <2> QED BY <1>1, <1>2, <1>4, <2>1, <2>2
<1>5. CASE ~Memory!Matches(table[1], a) /\ ~Memory!Matches(table[2], a)
  <2>1. S = {}
    BY <1>1, <1>5
  <2> QED BY <1>1, <1>2, <1>5, <2>1
<1> QED BY <1>3, <1>4, <1>5

LEMMA MemInductive == MemInv /\ [Memory!Next]_Memory!vars => MemInv'
<1> SUFFICES ASSUME MemInv, [Memory!Next]_Memory!vars PROVE MemInv' OBVIOUS
<1>1. ASSUME NEW a \in 0 .. MemoryWord - 1, Memory!Call(a) PROVE MemInv'
  <2>1. table' = table /\ address' = a /\ found' = Memory!Lookup(a) /\ lockRc' = Memory!LockInit(found')
    BY <1>1 DEF Memory!Call
  <2>2. found' \in Blocks \cup {NoMemory}
    BY <2>1, FirstMatch DEF MemInv
  <2>3. lockRc' \in 0 .. 2
    BY <2>1 DEF Memory!LockInit
  <2>4. Memory!Lookup(a) = Memory!Lookup(address)'
    BY <2>1 DEF Memory!Lookup
  <2> QED BY <2>1, <2>2, <2>3, <2>4 DEF MemInv, Memory!LockInit
<1>2. CASE UNCHANGED Memory!vars
  BY <1>2 DEF Memory!vars, MemInv, Memory!Lookup
<1> QED BY <1>1, <1>2 DEF Memory!Next

(* An address wraps at most once.                                            *)
LEMMA WrapsOnce ==
    ASSUME NEW w \in Nat \ {0}, NEW x \in 0 .. w - 1
    PROVE  x % w = x /\ (x + w) % w = x
  OBVIOUS

(* The comparisons of 32 bits find the memory just if it holds the address.  *)
LEMMA MatchIsHold ==
    ASSUME NEW m \in Blocks, Memory!IsMemory(m), NEW a \in 0 .. MemoryWord - 1
    PROVE  Memory!Matches(m, a) <=> Memory!Holds(m, a)
<1>1. m.base \in 0 .. MemoryWord - 1 /\ m.size \in 0 .. MemoryWord /\ MemoryWord \in Nat \ {0}
      /\ m.size > 0 /\ m.base + m.size <= MemoryWord
  BY MemAssumed DEF Memory!MemoryAssumption, Memory!IsMemory
<1>. DEFINE b == m.base  n == m.size
<1>. HIDE DEF b, n
<1>2. b \in Nat /\ n \in Nat /\ n > 0 /\ b + n <= MemoryWord /\ b = m.base /\ n = m.size
  BY <1>1 DEF b, n
<1>3. (n + MemoryWord - 1) % MemoryWord = n - 1
  <2>1. n + MemoryWord - 1 = (n - 1) + MemoryWord /\ n - 1 \in 0 .. MemoryWord - 1
    BY <1>1, <1>2
  <2> QED BY <2>1, <1>1, WrapsOnce
<1>4. (b + (n - 1)) % MemoryWord = b + (n - 1)
  <2>1. b + (n - 1) \in 0 .. MemoryWord - 1
    BY <1>1, <1>2
  <2> QED BY <2>1, <1>1, WrapsOnce
<1>5. Memory!Upper(m) = b + (n - 1)
  BY <1>2, <1>3, <1>4 DEF Memory!Upper
<1> QED BY <1>1, <1>2, <1>5 DEF Memory!Matches, Memory!Holds

(* The memory that is found for an address holds it.                         *)
LEMMA MemFollows == MemInv => Memory!TypeOK /\ Memory!FindsTheMemory
<1> SUFFICES ASSUME MemInv PROVE Memory!FindsTheMemory
  BY DEF MemInv, Memory!TypeOK
<1> SUFFICES ASSUME address # 0 \/ found # NoMemory,
                    \A i \in DOMAIN table : Memory!IsMemory(table[i])
             PROVE  /\ found # NoMemory => Memory!Holds(found, address)
                    /\ found = NoMemory => \A i \in DOMAIN table : ~Memory!Holds(table[i], address)
                    /\ lockRc = 0 => \E i \in DOMAIN table :
                                         Memory!Holds(table[i], address) /\ table[i].atomics
  BY DEF Memory!FindsTheMemory
<1>1. /\ table \in Blocks \X Blocks /\ address \in 0 .. MemoryWord - 1
      /\ found = Memory!Lookup(address) /\ lockRc = Memory!LockInit(found)
  BY DEF MemInv
<1>2. table[1] \in Blocks /\ table[2] \in Blocks /\ DOMAIN table = {1, 2} /\ NoMemory \notin Blocks
  BY <1>1, MemAssumed DEF Memory!MemoryAssumption
<1>3. /\ Memory!Matches(table[1], address) <=> Memory!Holds(table[1], address)
      /\ Memory!Matches(table[2], address) <=> Memory!Holds(table[2], address)
  BY <1>1, <1>2, MatchIsHold
<1>4. \/ Memory!Matches(table[1], address) /\ found = table[1]
      \/ ~Memory!Matches(table[1], address) /\ Memory!Matches(table[2], address) /\ found = table[2]
      \/ ~Memory!Matches(table[1], address) /\ ~Memory!Matches(table[2], address) /\ found = NoMemory
  BY <1>1, FirstMatch
<1>5. lockRc = 0 => found # NoMemory /\ found.atomics
  BY <1>1 DEF Memory!LockInit
<1> QED BY <1>2, <1>3, <1>4, <1>5

-----------------------------------------------------------------------------
(* The drop of privilege.                                                     *)

LEMMA PrivAssumed == Privilege!PrivilegeAssumption
  BY Instances

AllModes == {"M", "S", "U"}
PrivPlaces == {"main", "csrw mstatus", "csrw mepc", "mret", "handler", "entry"}

PrivTyped ==
    /\ mode \in AllModes /\ status \in Privilege!Status
    /\ copy \in Privilege!Status
    /\ mepc \in PrivPlaces /\ privPc \in PrivPlaces /\ target \in AllModes
    /\ mask \in BOOLEAN

\* While the call runs nothing traps; what a handler returns to, and in which
\* mode and with which interrupts, was found when it was entered.
PrivProgress ==
    /\ privPc \in {"main", "csrw mstatus", "csrw mepc", "mret", "handler"} => mode = "M"
    /\ privPc \in {"csrw mstatus", "csrw mepc", "mret"} =>
          ~status.MIE /\ copy.MPIE = mask /\ copy.MPP = target /\ ~copy.MIE
    /\ privPc = "csrw mstatus" => copy.MIE = status.MIE
    /\ privPc \in {"csrw mepc", "mret"} => status = copy
    /\ privPc = "mret" => mepc = "entry"
    /\ privPc = "handler" =>
          \/ mepc = "main" /\ status.MPP = "M" /\ status.MPIE
          \/ mepc = "entry" /\ status.MPP = target /\ status.MPIE = mask
    /\ privPc = "entry" => mode = target /\ status.MIE = mask

(* The invariant of the drop of privilege.                                   *)
PrivInv == PrivTyped /\ PrivProgress

LEMMA PrivInitially == Privilege!Init => PrivInv
<1>1. Privilege!Reset \in Privilege!Status
  BY DEF Privilege!Reset, Privilege!Status
<1> QED
  BY <1>1
     DEF Privilege!Init, PrivInv, PrivTyped, PrivProgress, AllModes, PrivPlaces

(* The invariant is kept by every write, trap and return.                    *)
LEMMA PrivInductive == PrivInv /\ [Privilege!Next]_Privilege!vars => PrivInv'
<1> SUFFICES ASSUME PrivInv, [Privilege!Next]_Privilege!vars
             PROVE  PrivInv' OBVIOUS
<1>0. PrivTyped /\ PrivProgress
  BY DEF PrivInv
<1>1. ASSUME NEW bit \in {"MIE", "SIE", "UIE"}, NEW on \in BOOLEAN,
             Privilege!Enable(bit, on)
      PROVE  PrivInv'
  <2>1. status' \in Privilege!Status
    BY <1>0, <1>1 DEF Privilege!Enable, PrivTyped, Privilege!Status
  <2> QED
    BY <1>0, <1>1, <2>1 DEF Privilege!Enable, PrivInv, PrivTyped, PrivProgress
<1>2. ASSUME NEW m \in PrivModes \cup {"M"}, Privilege!Drop(m) PROVE PrivInv'
  <2>1. m \in AllModes /\ ~status.MIE
    BY <1>2, PrivAssumed
       DEF Privilege!Drop, Privilege!PrivilegeAssumption, AllModes
  <2>2. copy' \in Privilege!Status /\ copy'.MPIE = status.MIE /\ copy'.MPP = m /\ copy'.MIE = status.MIE
    BY <1>0, <1>2, <2>1
       DEF Privilege!Drop, Privilege!Prepared, PrivTyped, Privilege!Status,
           AllModes
  <2>3. status.MIE \in BOOLEAN
    BY <1>0 DEF PrivTyped, Privilege!Status
  <2> QED
    BY <1>0, <1>2, <2>1, <2>2, <2>3
       DEF Privilege!Drop, PrivInv, PrivTyped, PrivProgress, PrivPlaces
<1>3. CASE Privilege!WriteStatus
  BY <1>0, <1>3
     DEF Privilege!WriteStatus, PrivInv, PrivTyped, PrivProgress, PrivPlaces
<1>4. CASE Privilege!WriteEpc
  BY <1>0, <1>4
     DEF Privilege!WriteEpc, PrivInv, PrivTyped, PrivProgress, PrivPlaces
<1>5. CASE Privilege!Mret
  <2>1. Privilege!Lowest \in AllModes
    BY DEF Privilege!Lowest, AllModes
  <2>2. status' \in Privilege!Status /\ status'.MIE = status.MPIE
    BY <1>0, <1>5, <2>1
       DEF Privilege!Mret, PrivTyped, Privilege!Status, AllModes
  <2>3. status.MPP \in AllModes
    BY <1>0 DEF PrivTyped, Privilege!Status, AllModes
  <2> QED
    BY <1>0, <1>5, <2>2, <2>3
       DEF Privilege!Mret, PrivInv, PrivTyped, PrivProgress, PrivPlaces
<1>6. CASE Privilege!Trap
  <2>1. status' \in Privilege!Status /\ status'.MPIE = status.MIE /\ status'.MPP = mode /\ status'.MIE = FALSE
    BY <1>0, <1>6 DEF Privilege!Trap, PrivTyped, Privilege!Status, AllModes
  <2>2. privPc = "main" \/ privPc = "entry"
    BY <1>0, <1>6 DEF Privilege!Trap, PrivTyped, PrivProgress, PrivPlaces
  <2>3. status.MIE \in BOOLEAN
    BY <1>0 DEF PrivTyped, Privilege!Status
  <2> QED
    BY <1>0, <1>6, <2>1, <2>2, <2>3
       DEF Privilege!Trap, PrivInv, PrivTyped, PrivProgress, PrivPlaces,
           AllModes
<1>7. CASE UNCHANGED Privilege!vars
  BY <1>0, <1>7 DEF Privilege!vars, PrivInv, PrivTyped, PrivProgress
<1> QED BY <1>1, <1>2, <1>3, <1>4, <1>5, <1>6, <1>7 DEF Privilege!Next

(* The program is entered in the mode named, with the interrupts asked.      *)
LEMMA PrivFollows == PrivInv => Privilege!TypeOK /\ Privilege!EntersInTheMode
  BY
     DEF PrivInv, PrivTyped, PrivProgress, Privilege!TypeOK,
         Privilege!EntersInTheMode, AllModes, PrivPlaces

-----------------------------------------------------------------------------
(* The parts together.                                                       *)

(* The invariant of the whole is that of every part.                         *)
DevicesInv ==
    /\ PmpInv /\ HpmInv /\ I2cInv /\ SpiInv /\ WdogInv /\ RtcInv /\ GpioInv
    /\ CacheInv /\ MonInv /\ BeuInv /\ RemapInv /\ HeapInv /\ TimeInv
    /\ TraceInv /\ StartInv /\ MemInv /\ PrivInv

LEMMA DevicesInitially == Init => DevicesInv
  BY PmpInitially, HpmInitially, I2cInitially, SpiInitially, WdogInitially,
     RtcInitially, GpioInitially, CacheInitially, MonInitially, BeuInitially,
     RemapInitially, HeapInitially, HeapAssumed, TimeInitially, TraceInitially,
     StartInitially, MemInitially, PrivInitially
     DEF Init, DevicesInv

(* A step of the whole is, for each part, a step of it or none.              *)
LEMMA StepsAreOfOne ==
    ASSUME [Next]_vars
    PROVE  /\ [Pmp!Next]_(Pmp!vars)
           /\ [Hpm!Next]_(Hpm!vars)
           /\ [I2c!Next]_(I2c!vars)
           /\ [Spi!Next]_(Spi!vars)
           /\ [Watchdog!Next]_(Watchdog!vars)
           /\ [Rtc!Next]_(Rtc!vars)
           /\ [Gpio!Next]_(Gpio!vars)
           /\ [Cache!Next]_(Cache!vars)
           /\ [Monitor!Next]_(Monitor!vars)
           /\ [BusError!Next]_(BusError!vars)
           /\ [Remapper!Next]_(Remapper!vars)
           /\ [Heap!Next]_(Heap!vars)
           /\ [Time!Next]_(Time!vars)
           /\ [Trace!Next]_(Trace!vars)
           /\ [Startup!Next]_(Startup!vars)
           /\ [Memory!Next]_(Memory!vars)
           /\ [Privilege!Next]_(Privilege!vars)
  <1>1. [Pmp!Next]_(Pmp!vars)
    BY Zenon DEF Next, Others, vars, pmpVars, Pmp!vars
  <1>2. [Hpm!Next]_(Hpm!vars)
    BY Zenon DEF Next, Others, vars, hpmVars, Hpm!vars
  <1>3. [I2c!Next]_(I2c!vars)
    BY Zenon DEF Next, Others, vars, i2cVars, I2c!vars
  <1>4. [Spi!Next]_(Spi!vars)
    BY Zenon DEF Next, Others, vars, spiVars, Spi!vars, Spi!fifos, Spi!lines
  <1>5. [Watchdog!Next]_(Watchdog!vars)
    BY Zenon DEF Next, Others, vars, wdogVars, Watchdog!vars, Watchdog!cfg
  <1>6. [Rtc!Next]_(Rtc!vars)
    BY Zenon DEF Next, Others, vars, rtcVars, Rtc!vars
  <1>7. [Gpio!Next]_(Gpio!vars)
    BY Zenon DEF Next, Others, vars, gpioVars, Gpio!vars, Gpio!pinout
  <1>8. [Cache!Next]_(Cache!vars)
    BY Zenon
       DEF Next, Others, vars, cacheVars, Cache!vars, Cache!ways, Cache!line
  <1>9. [Monitor!Next]_(Monitor!vars)
    BY Zenon DEF Next, Others, vars, pmVars, Monitor!vars
  <1>10. [BusError!Next]_(BusError!vars)
    BY Zenon DEF Next, Others, vars, beuVars, BusError!vars
  <1>11. [Remapper!Next]_(Remapper!vars)
    BY Zenon DEF Next, Others, vars, mapVars, Remapper!vars, Remapper!regs
  <1>12. [Heap!Next]_(Heap!vars)
    BY Zenon DEF Next, Others, vars, heapVars, Heap!vars
  <1>13. [Time!Next]_(Time!vars)
    BY Zenon DEF Next, Others, vars, timeVars, Time!vars
  <1>14. [Trace!Next]_(Trace!vars)
    BY Zenon DEF Next, Others, vars, traceVars, Trace!vars
  <1>15. [Startup!Next]_(Startup!vars)
    BY Zenon
       DEF Next, Others, vars, startVars, Startup!vars, Startup!walks,
           Startup!barrier
  <1>16. [Memory!Next]_(Memory!vars)
    BY Zenon DEF Next, Others, vars, memVars, Memory!vars
  <1>17. [Privilege!Next]_(Privilege!vars)
    BY Zenon DEF Next, Others, vars, privVars, Privilege!vars
  <1>. QED
    BY <1>1, <1>2, <1>3, <1>4, <1>5, <1>6, <1>7, <1>8, <1>9, <1>10, <1>11,
       <1>12, <1>13, <1>14, <1>15, <1>16, <1>17

(* A step of one part keeps the invariant of each.                           *)
LEMMA DevicesInductive == DevicesInv /\ [Next]_vars => DevicesInv'
  <1>. SUFFICES ASSUME DevicesInv, [Next]_vars PROVE DevicesInv'
    OBVIOUS
  <1>1. PmpInv'
    BY StepsAreOfOne, PmpInductive DEF DevicesInv
  <1>2. HpmInv'
    BY StepsAreOfOne, HpmInductive DEF DevicesInv
  <1>3. I2cInv'
    BY StepsAreOfOne, I2cInductive DEF DevicesInv
  <1>4. SpiInv'
    BY StepsAreOfOne, SpiInductive DEF DevicesInv
  <1>5. WdogInv'
    BY StepsAreOfOne, WdogInductive DEF DevicesInv
  <1>6. RtcInv'
    BY StepsAreOfOne, RtcInductive DEF DevicesInv
  <1>7. GpioInv'
    BY StepsAreOfOne, GpioInductive DEF DevicesInv
  <1>8. CacheInv'
    BY StepsAreOfOne, CacheInductive DEF DevicesInv
  <1>9. MonInv'
    BY StepsAreOfOne, MonInductive DEF DevicesInv
  <1>10. BeuInv'
    BY StepsAreOfOne, BeuInductive DEF DevicesInv
  <1>11. RemapInv'
    BY StepsAreOfOne, RemapInductive DEF DevicesInv
  <1>12. HeapInv'
    BY StepsAreOfOne, HeapInductive, HeapAssumed DEF DevicesInv
  <1>13. TimeInv'
    BY StepsAreOfOne, TimeInductive DEF DevicesInv
  <1>14. TraceInv'
    BY StepsAreOfOne, TraceInductive DEF DevicesInv
  <1>15. StartInv'
    BY StepsAreOfOne, StartInductive DEF DevicesInv
  <1>16. MemInv'
    BY StepsAreOfOne, MemInductive DEF DevicesInv
  <1>17. PrivInv'
    BY StepsAreOfOne, PrivInductive DEF DevicesInv
  <1>. QED
    BY <1>1, <1>2, <1>3, <1>4, <1>5, <1>6, <1>7, <1>8, <1>9, <1>10, <1>11,
       <1>12, <1>13, <1>14, <1>15, <1>16, <1>17 DEF DevicesInv

(* The calls of all the drivers, with the devices they drive, keep the       *)
(* invariants of their parts.                                                *)
THEOREM Invariance == Spec => []DevicesInv
  BY DevicesInitially, DevicesInductive, PTL DEF Spec

(* The registers and the calls of every part keep their types.               *)
THEOREM TypeCorrect == Spec => []TypeOK
  <1>1. DevicesInv => TypeOK
    BY PmpFollows, HpmFollows, I2cFollows, SpiFollows, WdogFollows, RtcFollows,
       GpioFollows, CacheFollows, MonFollows, BeuFollows, RemapFollows,
       TimeFollows, TraceFollows, StartFollows, MemFollows, PrivFollows
       DEF DevicesInv, HeapInv, TypeOK
  <1>. QED  BY <1>1, Invariance, PTL

(* A call that returned success has done what it was asked for: PMP regions  *)
(* (but for the address of one above which a locked TOR region begins),      *)
(* access to counters, watchdog, RTC compare, GPIO functions and interrupts, *)
(* lines of the bus-error unit, valid bits of the remapper, constructors and *)
(* destructors, and the drop of privilege.                                   *)
THEOREM CallsHaveTakenEffect == Spec => []CallsTakeEffect
  <1>1. DevicesInv => CallsTakeEffect
    BY PmpFollows, HpmFollows, WdogFollows, RtcFollows, GpioFollows,
       BeuFollows, RemapFollows, StartFollows, PrivFollows
       DEF DevicesInv, CallsTakeEffect
  <1>. QED  BY <1>1, Invariance, PTL

(* After a call of the I2C driver the bus is left as asked and no slave      *)
(* drives it; the SPI driver holds a chip select just during calls and sends *)
(* every frame in the protocol of its phase.                                 *)
THEOREM WiresStayAsAsked == Spec => []WiresAreAsAsked
  <1>1. DevicesInv => WiresAreAsAsked
    BY I2cFollows, SpiFollows DEF DevicesInv, WiresAreAsAsked
  <1>. QED  BY <1>1, Invariance, PTL

(* What a call returns is true: every byte of an I2C call was accepted, SPI  *)
(* answers are in their places, times have lost no carry in muldiv, the      *)
(* trace has what was printed, and metal_get_memory_from_address finds the   *)
(* memory of the address.                                                    *)
THEOREM ResultsStayTrue == Spec => []ResultsAreTrue
  <1>1. DevicesInv => ResultsAreTrue
    BY I2cFollows, SpiFollows, TimeFollows, TraceFollows, MemFollows
       DEF DevicesInv, ResultsAreTrue
  <1>. QED  BY <1>1, Invariance, PTL

(* Counters that are read or cleared in halves (HPM, cycle, RTC, caches)     *)
(* give values they had, or, the RTC, not ahead of it.                       *)
THEOREM ReadsAreCurrent == Spec => []ReadIsCurrent
  <1>1. DevicesInv => ReadIsCurrent
    BY HpmFollows, RtcFollows, MonFollows, TimeFollows
       DEF DevicesInv, ReadIsCurrent
  <1>. QED  BY <1>1, Invariance, PTL

(* PMP regions are as large as the hart can protect (but for those whose     *)
(* address a locked TOR region took), valid remappings are whole, the LIM    *)
(* section, and the bss behind one that is smaller than the ways it leaves,  *)
(* is not made cache, flushed lines are written, and what a program has of   *)
(* the heap, also after calls that failed, lies in it before the break and   *)
(* was scrubbed.                                                             *)
THEOREM MemoryStaysAsAsked == Spec => []MemoryIsAsAsked
  <1>1. DevicesInv => MemoryIsAsAsked
    BY PmpFollows, RemapFollows, CacheFollows
       DEF DevicesInv, HeapInv, MemoryIsAsAsked
  <1>. QED  BY <1>1, Invariance, PTL

(* A call leaves alone what it does not name: other PMP regions, edges of    *)
(* other pins that come after its read, error events that its read has seen, *)
(* and memory that the program keeps; and the heap scrubs nothing past its   *)
(* end but one byte, when memory is given back after a call that failed.     *)
THEOREM OthersAreLeft == Spec => OnlyTheNamed
  <1>. DEFINE Regions0 == \A r \in Pmp!Regions :
                  cfg'[r] # cfg[r] /\ pmpLast'.region # -1 => r = pmpLast'.region
              Edges == \A t \in PinTypes, p \in Pins :
                  p \in gpioIp[t] /\ p \notin gpioIp'[t] => p = gpioOp.pin \/ p \in gpioOp.seen
              Occurred == \A e \in Errors :
                  e \in accrued /\ e \notin accrued' =>
                      e \in beuOp.events \/ e \notin beuOp.seen
              Kept0 == /\ \A a \in own \cap own' : mem[a] = "data" => mem'[a] = "data"
                       /\ \A a \in own' \ own : mem'[a] = "zero"
                       /\ mem'[HeapEnd] # mem[HeapEnd] => brk = HeapEnd /\ brk' < HeapEnd
  <1>1. DevicesInv /\ [Next]_vars => [Regions0]_(Pmp!vars)
    BY StepsAreOfOne, PmpInductive DEF DevicesInv
  <1>2. DevicesInv /\ [Next]_vars => [Edges]_(Gpio!vars)
    BY StepsAreOfOne, GpioEdges DEF DevicesInv
  <1>3. DevicesInv /\ [Next]_vars => [Occurred]_(BusError!vars)
    BY StepsAreOfOne, BeuEvents DEF DevicesInv
  <1>4. DevicesInv /\ [Next]_vars => [Kept0]_(Heap!vars)
    BY StepsAreOfOne, HeapAssumed, HeapKept DEF DevicesInv
  <1>. HIDE DEF Regions0, Edges, Occurred, Kept0
  <1>5. Spec => [][Regions0]_(Pmp!vars) /\ [][Edges]_(Gpio!vars)
                /\ [][Occurred]_(BusError!vars) /\ [][Kept0]_(Heap!vars)
    BY <1>1, <1>2, <1>3, <1>4, Invariance, PTL DEF Spec
  <1>. QED
    BY <1>5 DEF OnlyTheNamed, Pmp!OnlyTheNamedRegion, Gpio!LateEdgesAreKept,
                BusError!OtherEventsStay, Heap!MemoryIsKept, Regions0, Edges,
                Occurred, Kept0

(* A running watchdog never fires earlier than was asked, but between the    *)
(* writes of set_rate no earlier than at a scale of 0; and the time that     *)
(* times reports goes on by the cycles in between.                           *)
THEOREM TimeStaysSteady == Spec => TimeDoesNotJump
  <1>. DEFINE Late == bites' # bites => bites' >= wdogAsked.cmp * 2 ^ Watchdog!ScaleNow
              March ==
                clock' # clock =>
                  LET c == clock'.raw - clock.raw
                      whole == (c * ClocksPerSec) \div Timebase
                  IN /\ c >= 0
                     /\ (clock'.val - clock.val) % ClockWord
                            \in {whole % ClockWord, (whole + 1) % ClockWord}
  <1>1. DevicesInv /\ [Next]_vars => [Late]_(Watchdog!vars)
    BY StepsAreOfOne, WdogInductive DEF DevicesInv
  <1>2. DevicesInv /\ [Next]_vars => [March]_(Time!vars)
    BY StepsAreOfOne, TimeAssumed, Marches
       DEF DevicesInv, TimeInv, Elapsed, WholeOf
  <1>. HIDE DEF Late, March
  <1>3. Spec => [][Late]_(Watchdog!vars) /\ [][March]_(Time!vars)
    BY <1>1, <1>2, Invariance, PTL DEF Spec
  <1>. QED
    BY <1>3
       DEF TimeDoesNotJump, Watchdog!NeverEarly, Time!TimeMarches, Late, March

=============================================================================
