---------------------------- MODULE ServicesProof ----------------------------
(***************************************************************************)
(* The invariants that the run of MCServices checks, as theorems of its    *)
(* specification, for every value of its constants: the inductive          *)
(* invariant of each unit, what follows from it, and that a step of one    *)
(* unit leaves the others as they are.                                     *)
(***************************************************************************)
EXTENDS MCServices, FiniteSetTheorems, WellFoundedInduction, TLAPS

-----------------------------------------------------------------------------
(* Numbers.                                                                  *)

(* A property of some number has a least one.                                *)
LEMMA LeastOne ==
    ASSUME NEW S \in SUBSET Nat, S # {}
    PROVE  \E x \in S : \A y \in S : x <= y
  <1>. DEFINE R == {ss \in Nat \X Nat : ss[1] < ss[2]}
  <1>1. IsWellFoundedOn(R, Nat)
    BY NatLessThanWellFounded DEF OpToRel
  <1>2. PICK x \in S : \A y \in S : ~(<<y, x>> \in R)
    <2>. HIDE DEF R
    <2>. QED  BY <1>1, WFMin
  <1>3. ASSUME NEW y \in S PROVE x <= y
    <2>1. <<y, x>> \in Nat \X Nat /\ <<y, x>>[1] = y /\ <<y, x>>[2] = x
      OBVIOUS
    <2>2. y < x => <<y, x>> \in R
      BY <2>1
    <2>3. x \in Nat /\ y \in Nat
      OBVIOUS
    <2>. HIDE DEF R
    <2>. QED  BY <1>2, <2>2, <2>3
  <1>. QED  BY <1>3

LEMMA Divides ==
    ASSUME NEW r \in Nat, NEW m \in Nat \ {0}
    PROVE  /\ r \div m \in Nat /\ m * (r \div m) <= r
           /\ r < m * ((r \div m) + 1)
  OBVIOUS

-----------------------------------------------------------------------------
(* The PLLs: whatever the rate asked for, and the crystal.                   *)

(* The rows of the table. *)

LEMMA RowsAreTyped ==
    ASSUME NEW c \in pll_configs
    PROVE  /\ c # NoRow /\ c[1] \in 1 .. 68
           /\ c[6] \in 0 .. 3 /\ c[7] \in 0 .. 63 /\ c[8] \in 1 .. 3 /\ c[9] \in -1 .. 63
  BY SMT DEF pll_configs, NoRow

(* A PLL within its limits, and a range of inputs on which it is.            *)
Within(n, r, f) ==
    LET refr == n \div (r + 1)
    IN /\ 6000000 <= refr /\ refr <= 12000000
       /\ 383999900 <= refr * 2 * (f + 1)
       /\ refr * 2 * (f + 1) <= 768000100

InputRange(low, high, r, f) ==
    /\ 6000000 * (r + 1) <= low /\ high <= 12000000 * (r + 1)
    /\ 383999900 <= (low \div (r + 1)) * 2 * (f + 1)
    /\ (high \div (r + 1)) * 2 * (f + 1) <= 768000100

LEMMA RowsHaveLimits ==
    ASSUME NEW c \in pll_configs
    PROVE  c[4] \in Nat /\ c[5] \in Nat /\ InputRange(c[4], c[5], c[6], c[7])
  BY SMTT(30) DEF pll_configs, InputRange

LEMMA QuotientIsMonotone ==
    ASSUME NEW r \in 0 .. 3, NEW a \in Nat, NEW b \in Nat, a <= b
    PROVE  /\ a \div (r + 1) \in Nat /\ b \div (r + 1) \in Nat
           /\ a \div (r + 1) <= b \div (r + 1)
           /\ \A k \in Nat : k * (r + 1) <= a => k <= a \div (r + 1)
           /\ \A k \in Nat : b <= k * (r + 1) => b \div (r + 1) <= k
  <1>1. CASE r = 0
    BY <1>1, SMT
  <1>2. CASE r = 1
    BY <1>2, SMT
  <1>3. CASE r = 2
    BY <1>3, SMT
  <1>4. CASE r = 3
    BY <1>4, SMT
  <1>. QED  BY <1>1, <1>2, <1>3, <1>4, SMT

LEMMA ProductIsMonotone ==
    ASSUME NEW a \in Nat, NEW b \in Nat, NEW k \in Nat, a <= b
    PROVE  a * 2 * k <= b * 2 * k
  BY SMT

LEMMA LimitsFollow ==
    ASSUME NEW n \in Nat, NEW low \in Nat, NEW high \in Nat, low <= n, n <= high,
           NEW r \in 0 .. 3, NEW f \in 0 .. 63, InputRange(low, high, r, f)
    PROVE  Within(n, r, f)
  <1>. DEFINE x == low \div (r + 1)  y == n \div (r + 1)  z == high \div (r + 1)
  <1>1. x \in Nat /\ y \in Nat /\ z \in Nat /\ x <= y /\ y <= z
    BY QuotientIsMonotone, SMT
  <1>2. 6000000 <= x /\ z <= 12000000
    BY QuotientIsMonotone, SMT DEF InputRange
  <1>. HIDE DEF x, y, z
  <1>3. x * 2 * (f + 1) <= y * 2 * (f + 1) /\ y * 2 * (f + 1) <= z * 2 * (f + 1)
    BY <1>1, ProductIsMonotone, SMT
  <1>4. 383999900 <= x * 2 * (f + 1) /\ z * 2 * (f + 1) <= 768000100
    BY SMT DEF x, z, InputRange
  <1>. DEFINE p == y * 2 * (f + 1)
  <1>5. p \in Int /\ 383999900 <= p /\ p <= 768000100
    <2>1. f + 1 \in Nat /\ y * 2 \in Nat
      BY <1>1, SMT
    <2>2. p \in Int
      BY <2>1, SMT
    <2>3. x * 2 * (f + 1) \in Int /\ z * 2 * (f + 1) \in Int
      BY <1>1, <2>1, SMT
    <2>. HIDE DEF p
    <2>4. x * 2 * (f + 1) <= p /\ p <= z * 2 * (f + 1)
      BY <1>3, SMT DEF p
    <2>. QED  BY <1>4, <2>2, <2>3, <2>4, SMT
  <1>6. 6000000 <= y /\ y <= 12000000
    BY <1>1, <1>2, SMT
  <1>. QED  BY <1>5, <1>6, SMT DEF y, Within

LEMMA RowsAreWithinLimits ==
    ASSUME NEW c \in pll_configs, NEW n \in Nat, Valid(c, n)
    PROVE  Within(n, c[6], c[7])
  <1>1. /\ c[4] \in Nat /\ c[5] \in Nat /\ c[6] \in 0 .. 3 /\ c[7] \in 0 .. 63
        /\ c[4] <= n /\ n <= c[5]
    BY RowsAreTyped, RowsHaveLimits, SMT DEF Valid
  <1>. QED  BY <1>1, RowsHaveLimits, LimitsFollow

(* What the PLL makes of an input, and what the table says of it.            *)
OutputOf(c, n) ==
    LET out == ((n \div (c[6] + 1)) * 2 * (c[7] + 1)) \div <<2, 4, 8>>[c[8]]
    IN  IF c[9] = -1 THEN out ELSE out \div (2 * (c[9] + 1))

LEMMA RowsSayWhatComes ==
    ASSUME NEW c \in pll_configs, NEW n \in Nat
    PROVE  /\ OutputOf(c, n) \in Int /\ FreqOf(c, n) \in Int
           /\ Abs(OutputOf(c, n) - FreqOf(c, n)) <= 128
  <1>1. CASE c[1] > 0 /\ c[1] <= 10
    BY <1>1, SMTT(60) DEF pll_configs, OutputOf, FreqOf, Abs
  <1>2. CASE c[1] > 10 /\ c[1] <= 17
    BY <1>2, SMTT(60) DEF pll_configs, OutputOf, FreqOf, Abs
  <1>3. CASE c[1] > 17 /\ c[1] <= 20
    BY <1>3, SMTT(60) DEF pll_configs, OutputOf, FreqOf, Abs
  <1>4. CASE c[1] > 20 /\ c[1] <= 22
    BY <1>4, SMTT(60) DEF pll_configs, OutputOf, FreqOf, Abs
  <1>5. CASE c[1] > 22 /\ c[1] <= 25
    BY <1>5, SMTT(60) DEF pll_configs, OutputOf, FreqOf, Abs
  <1>6. CASE c[1] > 25 /\ c[1] <= 26
    BY <1>6, SMTT(60) DEF pll_configs, OutputOf, FreqOf, Abs
  <1>7. CASE c[1] > 26 /\ c[1] <= 28
    BY <1>7, SMTT(60) DEF pll_configs, OutputOf, FreqOf, Abs
  <1>8. CASE c[1] > 28 /\ c[1] <= 31
    BY <1>8, SMTT(60) DEF pll_configs, OutputOf, FreqOf, Abs
  <1>9. CASE c[1] > 31 /\ c[1] <= 34
    BY <1>9, SMTT(60) DEF pll_configs, OutputOf, FreqOf, Abs
  <1>10. CASE c[1] > 34 /\ c[1] <= 44
    BY <1>10, SMTT(60) DEF pll_configs, OutputOf, FreqOf, Abs
  <1>11. CASE c[1] > 44 /\ c[1] <= 52
    BY <1>11, SMTT(60) DEF pll_configs, OutputOf, FreqOf, Abs
  <1>12. CASE c[1] > 52 /\ c[1] <= 60
    BY <1>12, SMTT(60) DEF pll_configs, OutputOf, FreqOf, Abs
  <1>13. CASE c[1] > 60 /\ c[1] <= 68
    BY <1>13, SMTT(60) DEF pll_configs, OutputOf, FreqOf, Abs
  <1>14. c[1] \in 1 .. 68
    BY RowsAreTyped, SMT
  <1>. QED  BY <1>1, <1>2, <1>3, <1>4, <1>5, <1>6, <1>7, <1>8, <1>9, <1>10, <1>11, <1>12, <1>13, <1>14, SMT

(* An input that is near the rate is as near as a row comes to it.           *)
LEMMA InputIsClosest ==
    ASSUME NEW c \in pll_configs, NEW n \in Nat, NEW r \in Nat, Near(n, r)
    PROVE  Abs(n - r) <= Abs(FreqOf(c, n) - r) + 128
  BY SMT DEF pll_configs, Near, FreqOf, Abs

-----------------------------------------------------------------------------
(* The row that is chosen.                                                   *)

Inputs == RefRates \cup {RingRate}

LEMMA DistancesAreNaturals ==
    ASSUME NEW c \in pll_configs, NEW input \in Nat, NEW rate \in Nat
    PROVE  Distance(c, input, rate) \in Nat
  <1>1. FreqOf(c, input) \in Int
    BY RowsSayWhatComes
  <1>. QED  BY <1>1, SMT DEF Distance, Abs

LEMMA RatesAreNaturals ==
    ASSUME NEW input \in Inputs, NEW percent \in Rates
    PROVE  input \in Nat /\ percent \in Nat /\ RateFor(input, percent) \in Nat
  <1>1. input \in Nat /\ percent \in Nat
    BY PllAssumption DEF Inputs
  <1>2. input \div 100 \in Nat
    BY <1>1, SMT
  <1>. QED  BY <1>1, <1>2, SMT DEF RateFor

(* A set of rows has one that comes closest, and of those one that is last.  *)
LEMMA ClosestRow ==
    ASSUME NEW S \in SUBSET pll_configs, S # {}, NEW input \in Nat, NEW rate \in Nat
    PROVE  LET nearest == {c \in S : \A b \in S :
                              Distance(c, input, rate) <= Distance(b, input, rate)}
           IN \E c \in nearest : \A b \in nearest : b[1] <= c[1]
  <1>. DEFINE d(c) == Distance(c, input, rate)
              nearest == {c \in S : \A b \in S : d(c) <= d(b)}
              D == {d(c) : c \in S}
              I == {68 - c[1] : c \in nearest}
  <1>1. D \in SUBSET Nat /\ D # {}
    BY DistancesAreNaturals
  <1>2. PICK x \in D : \A y \in D : x <= y
    <2>. HIDE DEF D
    <2>. QED  BY <1>1, LeastOne
  <1>3. nearest # {}
    BY <1>2
  <1>4. \A c \in nearest : c[1] \in 1 .. 68
    BY RowsAreTyped
  <1>5. I \in SUBSET Nat /\ I # {}
    <2>. HIDE DEF nearest
    <2>. QED  BY <1>3, <1>4, SMT
  <1>6. PICK i \in I : \A j \in I : i <= j
    <2>. HIDE DEF I
    <2>. QED  BY <1>5, LeastOne
  <1>7. PICK c \in nearest : i = 68 - c[1]
    OBVIOUS
  <1>8. ASSUME NEW b \in nearest PROVE b[1] <= c[1]
    <2>. HIDE DEF nearest
    <2>1. 68 - b[1] \in I
      OBVIOUS
    <2>2. 68 - c[1] <= 68 - b[1]
      <3>. HIDE DEF I
      <3>. QED  BY <2>1, <1>6, <1>7
    <2>. QED  BY <2>2, <1>4, <1>7, SMT
  <1>. QED  BY <1>8

LEMMA ClosestIsClosest ==
    ASSUME NEW input \in Inputs, NEW percent \in Rates, Closest[input][percent] # NoRow
    PROVE  /\ Closest[input][percent] \in pll_configs
           /\ Valid(Closest[input][percent], input)
           /\ \A b \in pll_configs : Valid(b, input) =>
                 Distance(Closest[input][percent], input, RateFor(input, percent))
                   <= Distance(b, input, RateFor(input, percent))
  <1>. DEFINE rate == RateFor(input, percent)
              valid == {c \in pll_configs : Valid(c, input)}
              nearest == {c \in valid : \A b \in valid :
                             Distance(c, input, rate) <= Distance(b, input, rate)}
  <1>1. Closest[input][percent] =
          IF valid = {} THEN NoRow
          ELSE CHOOSE c \in nearest : \A b \in nearest : b[1] <= c[1]
    <2>1. Closest[input][percent] = FindClosest(input, rate)
      BY Zenon DEF Closest, Inputs
    <2>. QED  BY <2>1, Zenon DEF FindClosest
  <1>2. valid # {}
    BY <1>1, Zenon
  <1>3. input \in Nat /\ rate \in Nat
    BY RatesAreNaturals
  <1>4. \E c \in nearest : \A b \in nearest : b[1] <= c[1]
    <2>1. valid \in SUBSET pll_configs
      OBVIOUS
    <2>. HIDE DEF valid, rate
    <2>. QED  BY <1>2, <1>3, <2>1, ClosestRow
  <1>5. Closest[input][percent] \in nearest
    <2>. HIDE DEF nearest, valid
    <2>. QED  BY <1>1, <1>2, <1>4, Zenon
  <1>. QED  BY <1>5

LEMMA NoRowIsValid ==
    ASSUME NEW input \in Inputs, NEW percent \in Rates, Closest[input][percent] = NoRow,
           NEW b \in pll_configs
    PROVE  ~Valid(b, input)
  <1>. DEFINE rate == RateFor(input, percent)
              valid == {c \in pll_configs : Valid(c, input)}
              nearest == {c \in valid : \A x \in valid :
                             Distance(c, input, rate) <= Distance(x, input, rate)}
  <1>1. Closest[input][percent] =
          IF valid = {} THEN NoRow
          ELSE CHOOSE c \in nearest : \A x \in nearest : x[1] <= c[1]
    <2>1. Closest[input][percent] = FindClosest(input, rate)
      BY Zenon DEF Closest, Inputs
    <2>. QED  BY <2>1, Zenon DEF FindClosest
  <1>2. input \in Nat /\ rate \in Nat
    BY RatesAreNaturals
  <1>3. valid = {}
    <2>. SUFFICES ASSUME valid # {} PROVE FALSE
      OBVIOUS
    <2>1. valid \in SUBSET pll_configs
      OBVIOUS
    <2>2. \E c \in nearest : \A x \in nearest : x[1] <= c[1]
      <3>. HIDE DEF valid, rate
      <3>. QED  BY <1>2, <2>1, ClosestRow
    <2>3. NoRow \in nearest
      <3>. HIDE DEF nearest, valid
      <3>. QED  BY <1>1, <2>2, Zenon
    <2>. QED  BY <2>3, RowsAreTyped
  <1>. QED  BY <1>3

-----------------------------------------------------------------------------
(* The register, the calls, and what writing the fields of a record does.    *)
Cfgs == [r : 0 .. 7, f : 0 .. 63, q : 1 .. 3, sel : BOOLEAN, refsel : BOOLEAN,
         bypass : BOOLEAN]
Ops == [at : {"idle", "choose", "wait", "select"}, percent : Rates \cup {0}]

LEMMA SelWritten ==
    ASSUME NEW k \in Cfgs, NEW s \in BOOLEAN
    PROVE  LET l == [k EXCEPT !.sel = s]
           IN /\ l \in Cfgs /\ l.sel = s /\ l.refsel = k.refsel /\ l.bypass = k.bypass
              /\ l.r = k.r /\ l.f = k.f /\ l.q = k.q
  BY Zenon DEF Cfgs

LEMMA BypassWritten ==
    ASSUME NEW k \in Cfgs, NEW b \in BOOLEAN
    PROVE  LET l == [k EXCEPT !.bypass = b]
           IN l \in Cfgs /\ l.bypass = b /\ l.sel = k.sel /\ l.refsel = k.refsel
  BY Zenon DEF Cfgs

LEMMA InputWritten ==
    ASSUME NEW k \in Cfgs, NEW s \in BOOLEAN
    PROVE  LET l == [k EXCEPT !.sel = FALSE, !.refsel = @ \/ s]
           IN l \in Cfgs /\ l.sel = FALSE /\ l.refsel = (k.refsel \/ s)
  <1>1. FALSE \in BOOLEAN /\ (k.refsel \/ s) \in BOOLEAN
    BY Zenon
  <1>. QED  BY <1>1, Zenon DEF Cfgs

LEMMA CallMoves ==
    ASSUME NEW o \in Ops, NEW a \in {"idle", "choose", "wait", "select"}
    PROVE  LET p == [o EXCEPT !.at = a]
           IN p \in Ops /\ p.at = a /\ p.percent = o.percent
  BY Zenon DEF Ops

(* The PLL has the configuration that was chosen for the rate.               *)
Configured ==
    LET c == Closest[Input][op.percent]
    IN /\ c # NoRow
       /\ cfg.r = c[6] /\ cfg.f = c[7] /\ cfg.q = c[8] /\ div = c[9]

PllInv ==
    /\ TypeOK
    /\ op \in Ops
    /\ cfg.refsel => ref # 0
    /\ op.at # "idle" => ~cfg.sel /\ op.percent \in Rates
    /\ op.at = "wait" => ~cfg.bypass /\ Configured
    /\ op.at = "select" /\ ~cfg.bypass => stable /\ Configured
    /\ op.at = "select" /\ cfg.bypass =>
          \/ Near(Input, RateFor(Input, op.percent))
          \/ Closest[Input][op.percent] = NoRow
    /\ cfg.sel /\ ~cfg.bypass => stable /\ Within(Input, cfg.r, cfg.f)
    /\ RateIsClosest

LEMMA PllInitially == Init => PllInv
  <1>. SUFFICES ASSUME Init PROVE PllInv
    OBVIOUS
  <1>1. TypeOK
    <2>1. cfg \in Cfgs
      <3>1. 1 \in 0 .. 7 /\ 31 \in 0 .. 63 /\ 3 \in 1 .. 3
        BY SMT
      <3>. QED  BY <3>1, Zenon DEF Init, Cfgs
    <2>2. div \in -1 .. 63 /\ edges \in 0 .. 6
      BY SMT DEF Init
    <2>3. op.at = "idle"
      BY SMT DEF Init, Idle
    <2>. QED  BY <2>1, <2>2, <2>3, Zenon DEF Init, TypeOK, Cfgs
  <1>2. op \in Ops
    BY SMT DEF Init, Idle, Ops
  <1>3. RateIsClosest
    BY SMT DEF Init, RateIsClosest
  <1>4. op.at = "idle" /\ ~cfg.refsel /\ ~cfg.sel
    BY SMT DEF Init, Idle
  <1>. QED  BY <1>1, <1>2, <1>3, <1>4, SMT DEF PllInv

LEMMA PllFollows == PllInv => TypeOK /\ CoreClockIsStable /\ WithinLimits /\ RateIsClosest
  BY SMT DEF PllInv, CoreClockIsStable, WithinLimits, Within

LEMMA ConfiguredIsValid ==
    ASSUME PllInv, op.at # "idle", Configured
    PROVE  \E c \in pll_configs :
              /\ c = Closest[Input][op.percent] /\ Valid(c, Input)
              /\ cfg.r = c[6] /\ cfg.f = c[7] /\ cfg.q = c[8] /\ div = c[9]
  <1>1. Input \in Inputs /\ op.percent \in Rates
    BY DEF PllInv, TypeOK, Input, Inputs
  <1>. QED  BY <1>1, ClosestIsClosest DEF Configured

LEMMA ConfiguredIsWithin ==
    ASSUME PllInv, op.at # "idle", Configured
    PROVE  Within(Input, cfg.r, cfg.f)
  <1>1. Input \in Nat
    BY PllAssumption DEF PllInv, TypeOK, Input
  <1>. QED  BY <1>1, ConfiguredIsValid, RowsAreWithinLimits

(* What comes out is as close to the rate as any row that is valid.          *)
LEMMA OutputIsClosest ==
    ASSUME PllInv, op.at = "select",
           NEW out \in Int, out = RateOf([cfg EXCEPT !.sel = TRUE], div, Input),
           NEW b \in pll_configs, Valid(b, Input)
    PROVE  Abs(out - RateFor(Input, op.percent))
             <= Distance(b, Input, RateFor(Input, op.percent)) + 128
  <1>. DEFINE rate == RateFor(Input, op.percent)
  <1>1. Input \in Inputs /\ op.percent \in Rates
    BY DEF PllInv, TypeOK, Input, Inputs
  <1>2. Input \in Nat /\ rate \in Nat
    BY <1>1, RatesAreNaturals
  <1>3. CASE cfg.bypass
    <2>1. out = Input
      BY <1>3, SMT DEF RateOf, PllInv, TypeOK
    <2>2. Near(Input, rate)
      BY <1>1, <1>3, NoRowIsValid DEF PllInv
    <2>3. Abs(Input - rate) <= Abs(FreqOf(b, Input) - rate) + 128
      <3>. HIDE DEF rate
      <3>. QED  BY <1>2, <2>2, InputIsClosest, Zenon
    <2>. QED  BY <2>1, <2>3, Zenon DEF Distance
  <1>4. CASE ~cfg.bypass
    <2>1. Configured
      BY <1>4 DEF PllInv
    <2>2. PICK c \in pll_configs :
             /\ c = Closest[Input][op.percent] /\ Valid(c, Input)
             /\ cfg.r = c[6] /\ cfg.f = c[7] /\ cfg.q = c[8] /\ div = c[9]
      BY <2>1, ConfiguredIsValid
    <2>3. out = OutputOf(c, Input)
      BY <1>4, <2>2, SMT DEF RateOf, OutputOf, PllInv, TypeOK
    <2>4. Distance(c, Input, rate) <= Distance(b, Input, rate)
      BY <1>1, <2>2, ClosestIsClosest, RowsAreTyped
    <2>5. Distance(c, Input, rate) \in Nat /\ Distance(b, Input, rate) \in Nat
      BY <1>2, DistancesAreNaturals
    <2>6. FreqOf(c, Input) \in Int /\ Abs(out - FreqOf(c, Input)) <= 128
      BY <1>2, <2>3, RowsSayWhatComes
    <2>7. Abs(out - rate) <= Distance(c, Input, rate) + 128
      <3>. HIDE DEF rate
      <3>. QED  BY <1>2, <2>6, SMT DEF Distance, Abs
    <2>8. Abs(out - rate) \in Int
      <3>. HIDE DEF rate
      <3>. QED  BY <1>2, SMT DEF Abs
    <2>. DEFINE x == Abs(out - rate)  y == Distance(c, Input, rate)  z == Distance(b, Input, rate)
    <2>9. x \in Int /\ y \in Int /\ z \in Int /\ x <= y + 128 /\ y <= z
      <3>. HIDE DEF rate
      <3>. QED  BY <2>4, <2>5, <2>7, <2>8
    <2>10. x <= z + 128
      <3>. HIDE DEF x, y, z
      <3>. QED  BY <2>9, SMT
    <2>. QED  BY <2>10, Zenon
  <1>. QED  BY <1>3, <1>4

LEMMA PllInductive == PllInv /\ [Next]_vars => PllInv'
  <1>. SUFFICES ASSUME PllInv, [Next]_vars PROVE PllInv'
    OBVIOUS
  <1>0. TypeOK /\ op \in Ops /\ cfg \in Cfgs /\ (cfg.refsel => ref # 0) /\ RateIsClosest
    BY DEF PllInv, TypeOK, Cfgs
  <1>1. CASE Edge
    BY <1>1, SMT DEF Edge, Configured, Input, PllInv, TypeOK, RateIsClosest
  <1>2. CASE Settle
    BY <1>2, SMT DEF Settle, Configured, Input, PllInv, TypeOK, RateIsClosest
  <1>3. CASE Bypass
    <2>1. op' \in Ops /\ op'.at = "select" /\ op'.percent = op.percent /\ ~cfg.sel
      BY <1>0, <1>3, CallMoves DEF Bypass, PllInv
    <2>2. cfg' \in Cfgs /\ cfg'.bypass /\ cfg'.sel = cfg.sel /\ cfg'.refsel = cfg.refsel
      BY <1>0, <1>3, BypassWritten DEF Bypass
    <2>3. Input' = Input
      BY <1>3, <2>2 DEF Bypass, Input
    <2>4. TypeOK' /\ RateIsClosest'
      BY <1>0, <1>3, <2>1, <2>2 DEF Bypass, TypeOK, RateIsClosest, Cfgs
    <2>5. op.percent \in Rates
      BY <1>3, SMT DEF Bypass, PllInv
    <2>6. \/ Near(Input', RateFor(Input', op'.percent))
          \/ Closest[Input'][op'.percent] = NoRow
      BY <1>3, <2>1, <2>3, Zenon DEF Bypass
    <2>. QED  BY <1>0, <1>3, <2>1, <2>2, <2>3, <2>4, <2>5, <2>6, SMT DEF Bypass, PllInv
  <1>4. CASE Configure
    <2>. DEFINE c == Closest[Input][op.percent]
    <2>1. op.percent \in Rates /\ ~cfg.sel /\ c # NoRow /\ div' = c[9]
          /\ cfg' = [[cfg EXCEPT !.r = c[6], !.f = c[7], !.q = c[8]] EXCEPT !.bypass = FALSE]
      BY <1>4, Zenon DEF Configure, PllInv, Unbypassed
    <2>2. c \in pll_configs
      BY <1>0, <2>1, ClosestIsClosest DEF TypeOK, Input, Inputs
    <2>3. c[6] \in 0 .. 3 /\ c[7] \in 0 .. 63 /\ c[8] \in 1 .. 3 /\ c[9] \in -1 .. 63
      <3>. HIDE DEF c
      <3>. QED  BY <2>2, RowsAreTyped
    <2>4. /\ cfg' \in Cfgs /\ ~cfg'.bypass /\ cfg'.sel = cfg.sel /\ cfg'.refsel = cfg.refsel
          /\ cfg'.r = c[6] /\ cfg'.f = c[7] /\ cfg'.q = c[8] /\ div' = c[9]
      <3>. DEFINE k == [cfg EXCEPT !.r = c[6], !.f = c[7], !.q = c[8]]
      <3>1. k \in Cfgs /\ k.sel = cfg.sel /\ k.refsel = cfg.refsel
            /\ k.r = c[6] /\ k.f = c[7] /\ k.q = c[8]
        <4>. HIDE DEF c
        <4>1. c[6] \in 0 .. 7
          BY <2>3, SMT
        <4>. QED  BY <1>0, <2>3, <4>1, Zenon DEF Cfgs
      <3>2. cfg' = [k EXCEPT !.bypass = FALSE] /\ div' = c[9] /\ FALSE \in BOOLEAN
        BY <2>1, Zenon
      <3>. HIDE DEF k, c
      <3>3. cfg' \in Cfgs /\ ~cfg'.bypass /\ cfg'.sel = k.sel /\ cfg'.refsel = k.refsel
        BY <3>1, <3>2, BypassWritten, Zenon
      <3>4. cfg'.r = k.r /\ cfg'.f = k.f /\ cfg'.q = k.q
        BY <3>1, <3>2, Zenon DEF Cfgs
      <3>. QED  BY <3>1, <3>2, <3>3, <3>4, Zenon
    <2>5. op' \in Ops /\ op'.at = "wait" /\ op'.percent = op.percent
      BY <1>0, <1>4, CallMoves DEF Configure
    <2>6. Input' = Input
      BY <1>4, <2>4, Zenon DEF Configure, Input
    <2>7. Configured'
      BY <2>1, <2>4, <2>5, <2>6, Zenon DEF Configured
    <2>8. TypeOK' /\ RateIsClosest'
      <3>1. 0 \in 0 .. 6
        BY SMT
      <3>. HIDE DEF c
      <3>. QED  BY <1>0, <1>4, <2>3, <2>4, <2>5, <3>1, Zenon DEF Configure, TypeOK, RateIsClosest, Cfgs
    <2>. QED  BY <1>0, <1>4, <2>1, <2>4, <2>5, <2>7, <2>8, Zenon DEF Configure, PllInv
  <1>5. CASE Lock
    <2>1. op' \in Ops /\ op'.at = "select" /\ op'.percent = op.percent
      BY <1>0, <1>5, CallMoves DEF Lock
    <2>2. op.at = "wait" /\ stable
      BY <1>5, SMT DEF Lock, Waited, PllInv, TypeOK
    <2>3. Input' = Input
      BY <1>5 DEF Lock, Input
    <2>4. Configured'
      BY <1>5, <2>1, <2>2, <2>3, Zenon DEF Lock, Configured, PllInv
    <2>5. TypeOK' /\ RateIsClosest'
      BY <1>0, <1>5, <2>1, Zenon DEF Lock, TypeOK, RateIsClosest
    <2>. QED  BY <1>5, <2>1, <2>2, <2>3, <2>4, <2>5, Zenon DEF Lock, PllInv
  <1>6. CASE Select
    <2>1. cfg' \in Cfgs /\ cfg'.sel /\ cfg'.bypass = cfg.bypass /\ cfg'.refsel = cfg.refsel
          /\ cfg'.r = cfg.r /\ cfg'.f = cfg.f
      <3>1. TRUE \in BOOLEAN
        OBVIOUS
      <3>. QED  BY <1>0, <1>6, <3>1, SelWritten, Zenon DEF Select
    <2>2. op' = Idle /\ op' \in Ops /\ op'.at = "idle"
      BY <1>6, Zenon DEF Select, Idle, Ops
    <2>3. Input' = Input
      BY <1>6, <2>1, SMT DEF Select, Input
    <2>4. op.at = "select" /\ op.percent \in Rates /\ Input \in Inputs
      BY <1>0, <1>6, SMT DEF Select, PllInv, TypeOK, Input, Inputs
    <2>5. ~cfg.bypass => stable /\ Within(Input, cfg.r, cfg.f)
      BY <2>4, ConfiguredIsWithin DEF PllInv
    <2>6. TypeOK'
      BY <1>0, <1>6, <2>1, <2>2, Zenon DEF Select, TypeOK, Cfgs
    <2>7. RateIsClosest'
      <3>1. last' = [rate |-> RateFor(Input, op.percent),
                     out |-> RateOf([cfg EXCEPT !.sel = TRUE], div, Input), input |-> Input]
        BY <1>6 DEF Select
      <3>2. RateOf([cfg EXCEPT !.sel = TRUE], div, Input) \in Int
        <4>1. Input \in Nat
          BY <2>4, RatesAreNaturals
        <4>2. cfg.r \in 0 .. 7 /\ cfg.f \in 0 .. 63 /\ cfg.q \in 1 .. 3 /\ div \in -1 .. 63
          BY <1>0, Zenon DEF TypeOK, Cfgs
        <4>3. \A k \in Cfgs : RateOf(k, div, Input) \in Int
          BY PllAssumption, <4>1, <4>2, SMT DEF RateOf, Cfgs
        <4>. QED  BY <4>3, <1>6, <2>1, Zenon DEF Select
      <3>. QED  BY <2>4, <3>1, <3>2, OutputIsClosest DEF RateIsClosest
    <2>. QED  BY <1>0, <1>6, <2>1, <2>2, <2>3, <2>5, <2>6, <2>7, SMT DEF Select, PllInv
  <1>7. CASE \E percent \in Rates : InitPll(percent)
    <2>. PICK percent \in Rates : InitPll(percent)
      BY <1>7
    <2>1. cfg' \in Cfgs /\ ~cfg'.sel /\ (cfg'.refsel => ref # 0)
      <3>1. (ref # 0) \in BOOLEAN
        OBVIOUS
      <3>. QED  BY <1>0, <3>1, InputWritten, Zenon DEF InitPll
    <2>2. op' \in Ops /\ op'.at = "choose" /\ op'.percent \in Rates
      BY Zenon DEF Ops, InitPll
    <2>3. TypeOK' /\ RateIsClosest'
      BY <1>0, <2>1, <2>2 DEF InitPll, TypeOK, RateIsClosest, Cfgs
    <2>. QED  BY <2>1, <2>2, <2>3, SMT DEF InitPll, PllInv
  <1>8. CASE \E percent \in Rates : SetRate(percent)
    <2>. PICK percent \in Rates : SetRate(percent)
      BY <1>8
    <2>1. cfg' \in Cfgs /\ ~cfg'.sel /\ (cfg'.refsel => ref # 0)
      BY <1>0, SelWritten, Zenon DEF SetRate, SwitchedOff
    <2>2. op' \in Ops /\ op'.at = "choose" /\ op'.percent \in Rates
      BY Zenon DEF Ops, SetRate
    <2>3. TypeOK' /\ RateIsClosest'
      BY <1>0, <2>1, <2>2 DEF SetRate, TypeOK, RateIsClosest, Cfgs
    <2>. QED  BY <2>1, <2>2, <2>3, SMT DEF SetRate, PllInv
  <1>9. CASE UNCHANGED vars
    BY <1>9, SMT DEF vars, Configured, Input, PllInv, TypeOK, RateIsClosest
  <1>. QED  BY <1>1, <1>2, <1>3, <1>4, <1>5, <1>6, <1>7, <1>8, <1>9 DEF Next

-----------------------------------------------------------------------------
(* The timer: for every width of a word and every bound.                     *)

LEMMA DivMod ==
    ASSUME NEW n \in Int, NEW d \in Nat \ {0}
    PROVE  /\ n \div d \in Int
           /\ n % d \in 0 .. d - 1
           /\ n = d * (n \div d) + (n % d)
  OBVIOUS

LEMMA MulMono ==
    ASSUME NEW a \in Int, NEW b \in Int, NEW d \in Nat \ {0}, a < b
    PROVE  d * a + d <= d * b
  OBVIOUS

LEMMA DivMonotone ==
    ASSUME NEW m \in Nat, NEW n \in Nat, NEW d \in Nat \ {0}, m <= n
    PROVE  m \div d <= n \div d
  <1>1. m \div d \in Int /\ m % d \in 0 .. d - 1 /\ m = d * (m \div d) + (m % d)
    BY DivMod
  <1>2. n \div d \in Int /\ n % d \in 0 .. d - 1 /\ n = d * (n \div d) + (n % d)
    BY DivMod
  <1>3. ~(n \div d < m \div d)
    BY <1>1, <1>2, MulMono
  <1>. QED  BY <1>1, <1>2, <1>3

(* What the bounds on the constants say of times and words.                 *)
LEMMA TimerBounds ==
    ASSUME Timer!ClintTimerAssumption
    PROVE  /\ WordSize \in Nat \ {0} /\ WordSize \in Int /\ Timer!Top \in Nat /\ Timer!Top = WordSize - 1 /\ Timer!Top * WordSize \in Nat
           /\ 0 \in Timer!Words /\ Timer!Top \in Timer!Words /\ 0 \in Timer!Times /\ 0 \in Timer!Deadlines
           /\ MaxTime \in Nat /\ Period \in Nat
           /\ \A t \in Timer!Times : t \in Nat /\ t <= MaxTime /\ t \in Timer!Deadlines
           /\ \A t \in Timer!Deadlines : t \in Nat /\ t < Timer!Top * WordSize
           /\ \A t \in Nat : t <= MaxTime => t \in Timer!Times
           /\ \A t \in Nat : t <= MaxTime + Period => t \in Timer!Deadlines
           /\ \A w \in Timer!Words : w \in Nat
  <1>1. /\ WordSize \in Nat /\ WordSize > 1 /\ MaxTime \in Nat /\ Period \in Nat
        /\ MaxTime + Period < Timer!Top * WordSize
    BY DEF Timer!ClintTimerAssumption
  <1>2. Timer!Top \in Nat /\ Timer!Top = WordSize - 1
    BY <1>1 DEF Timer!Top
  <1>3. PICK n \in Nat : n = Timer!Top * WordSize
    BY <1>1, <1>2
  <1>4. MaxTime + Period < n
    BY <1>1, <1>3
  <1>5. \A t \in Timer!Deadlines : t \in Nat /\ t < n
    BY <1>1, <1>4 DEF Timer!Deadlines
  <1>. QED  BY <1>1, <1>2, <1>3, <1>5 DEF Timer!Words, Timer!Times, Timer!Deadlines

(* A time is what its two words say, and the high one does not reach the    *)
(* word of ones that masks the compare register.                            *)
LEMMA WordsOfTime ==
    ASSUME Timer!ClintTimerAssumption, NEW t \in Timer!Deadlines
    PROVE  /\ t \in Nat
           /\ Timer!Hi(t) \in 0 .. Timer!Top - 1 /\ Timer!Lo(t) \in Timer!Words
           /\ Timer!Join(Timer!Hi(t), Timer!Lo(t)) = t
  <1>1. t \in Nat /\ t < Timer!Top * WordSize /\ WordSize \in Nat \ {0} /\ Timer!Top \in Nat
    BY TimerBounds
  <1>2. Timer!Hi(t) \in Int /\ Timer!Lo(t) \in 0 .. WordSize - 1 /\ t = WordSize * Timer!Hi(t) + Timer!Lo(t)
    BY <1>1, DivMod DEF Timer!Hi, Timer!Lo
  <1>3. ~(Timer!Hi(t) < 0)
    <2>. SUFFICES ASSUME Timer!Hi(t) < 0 PROVE FALSE
      OBVIOUS
    <2>1. WordSize * Timer!Hi(t) + WordSize <= WordSize * 0
      BY <1>1, <1>2, MulMono
    <2>. QED  BY <1>1, <1>2, <2>1
  <1>4. ~(Timer!Top <= Timer!Hi(t))
    <2>. SUFFICES ASSUME Timer!Top <= Timer!Hi(t) PROVE FALSE
      OBVIOUS
    <2>1. WordSize * Timer!Top <= WordSize * Timer!Hi(t)
      <3>1. CASE Timer!Top = Timer!Hi(t)
        BY <1>1, <1>2, <3>1
      <3>2. CASE Timer!Top < Timer!Hi(t)
        BY <1>1, <1>2, <3>2, MulMono
      <3>. QED  BY <1>1, <1>2, <3>1, <3>2
    <2>2. WordSize * Timer!Top = Timer!Top * WordSize
      BY <1>1
    <2>. QED  BY <1>1, <1>2, <2>1, <2>2
  <1>5. Timer!Hi(t) * WordSize = WordSize * Timer!Hi(t)
    BY <1>1, <1>2
  <1>. QED  BY <1>1, <1>2, <1>3, <1>4, <1>5 DEF Timer!Join, Timer!Words, Timer!Top

(* With its high word masked the register holds no time of the counter.     *)
LEMMA MaskedIsLate ==
    ASSUME Timer!ClintTimerAssumption, Timer!TypeOK, timerCmp.hi = Timer!Top
    PROVE  ~Timer!Pending
  <1>1. /\ WordSize \in Nat /\ Timer!Top \in Nat /\ timerCmp.lo \in Nat /\ mtime \in Nat
        /\ mtime < Timer!Top * WordSize /\ Timer!Top * WordSize \in Nat
    BY TimerBounds DEF Timer!TypeOK
  <1>. QED  BY <1>1 DEF Timer!Pending, Timer!Join

(* The words that a read has so far are those of counts since it began, the *)
(* low one's no earlier than the high one's.                                *)
ReadSoFar ==
    \A a \in Timer!Actors :
        /\ since[a] <= mtime
        /\ timerPc[a] \in {"lo", "again"} =>
              \E s \in since[a] .. mtime :
                  /\ hi[a] = Timer!Hi(s)
                  /\ timerPc[a] = "again" => \E t \in s .. mtime : lo[a] = Timer!Lo(t)

(* The handler finds the register whole, and between the writes of a set    *)
(* its high word is masked.                                                 *)
HalfWritten(a) == timerPc[a] \in {"low", "high"}

CompareInv ==
    /\ HalfWritten("thread") => timerPc["isr"] = "idle"
    /\ \A a \in Timer!Actors : HalfWritten(a) => timerCmp.hi = Timer!Top
    /\ \A a \in Timer!Actors : timerPc[a] = "high" => timerCmp.lo = Timer!Lo(value[a])
    /\ (\A a \in Timer!Actors : ~HalfWritten(a)) => Timer!Join(timerCmp.hi, timerCmp.lo) = deadline

Places ==
    timerPc["thread"] # "rearm" /\ timerPc["isr"] # "read"

TimerInv == Timer!TypeOK /\ Places /\ ReadSoFar /\ Timer!ReadIsCurrent /\ CompareInv

LEMMA TimerInitially ==
    ASSUME Timer!ClintTimerAssumption, Timer!Init
    PROVE  TimerInv
  <1>1. Timer!Top \in Timer!Words /\ 0 \in Timer!Words /\ 0 \in Timer!Times /\ 0 \in Timer!Deadlines
    BY TimerBounds
  <1>2. Timer!TypeOK
    BY <1>1 DEF Timer!Init, Timer!TypeOK
  <1>3. Places /\ ReadSoFar /\ Timer!ReadIsCurrent /\ CompareInv
    BY DEF Timer!Init, Timer!Actors, Places, ReadSoFar, Timer!ReadIsCurrent, CompareInv,
           HalfWritten
  <1>. QED  BY <1>2, <1>3 DEF TimerInv

(* A step of the counter or of an actor keeps the types.                     *)
LEMMA TypeKept ==
    ASSUME Timer!ClintTimerAssumption, TimerInv, Timer!Next
    PROVE  Timer!TypeOK'
  <1>. USE DEF TimerInv, Timer!TypeOK, Timer!Goto, Timer!ForgetRead
  <1>0. /\ 0 \in Timer!Words /\ Timer!Top \in Timer!Words /\ 0 \in Timer!Times /\ 0 \in Timer!Deadlines
        /\ Timer!Times \subseteq Timer!Deadlines /\ mtime \in Timer!Deadlines
    BY TimerBounds
  <1>00. Timer!Hi(mtime) \in Timer!Words /\ Timer!Lo(mtime) \in Timer!Words
    BY <1>0, WordsOfTime, TimerBounds DEF Timer!Words
  <1>1. CASE Timer!Tick
    <2>1. mtime + 1 \in Timer!Times
      BY <1>1, TimerBounds DEF Timer!Tick
    <2>. QED  BY <1>1, <2>1 DEF Timer!Tick
  <1>2. CASE Timer!Interrupt \/ Timer!BeginRead \/ Timer!EndRead
    BY <1>0, <1>2 DEF Timer!Interrupt, Timer!BeginRead, Timer!EndRead
  <1>3. CASE Timer!Rearm
    <2>1. Timer!Join(hi["isr"], lo["isr"]) + Period \in Timer!Deadlines
      <3>1. Timer!Join(hi["isr"], lo["isr"]) \in Int
        BY TimerBounds DEF Timer!Actors, Timer!Join
      <3>2. since["isr"] \in Nat /\ since["isr"] <= Timer!Join(hi["isr"], lo["isr"])
            /\ Timer!Join(hi["isr"], lo["isr"]) <= mtime
        BY <1>3, TimerBounds DEF Timer!Rearm, Timer!ReadIsCurrent, Timer!Actors
      <3>. QED  BY <3>1, <3>2, TimerBounds
    <2>. QED  BY <1>0, <1>3, <2>1 DEF Timer!Rearm
  <1>4. ASSUME NEW a \in Timer!Actors, Timer!GetStep(a)
        PROVE  Timer!TypeOK'
    BY <1>0, <1>00, <1>4 DEF Timer!GetStep, Timer!ReadHi, Timer!ReadLo, Timer!Recheck
  <1>5. ASSUME NEW a \in Timer!Actors, Timer!SetStep(a)
        PROVE  Timer!TypeOK'
    <2>1. Timer!Hi(value[a]) \in Timer!Words /\ Timer!Lo(value[a]) \in Timer!Words
      BY WordsOfTime, TimerBounds DEF Timer!Words
    <2>. QED  BY <1>0, <1>5, <2>1 DEF Timer!SetStep, Timer!MaskHigh, Timer!WriteLow, Timer!WriteHigh
  <1>6. ASSUME NEW t \in Timer!Times, Timer!BeginSet(t)
        PROVE  Timer!TypeOK'
    BY <1>0, <1>6 DEF Timer!BeginSet
  <1>. QED  BY <1>1, <1>2, <1>3, <1>4, <1>5, <1>6 DEF Timer!Next

LEMMA ReadKept ==
    ASSUME Timer!ClintTimerAssumption, TimerInv, Timer!Next
    PROVE  Places' /\ ReadSoFar' /\ Timer!ReadIsCurrent'
  <1>. USE DEF TimerInv, Timer!Goto, Timer!ForgetRead
  <1>0. /\ timerPc \in [Timer!Actors -> {"idle", "hi", "lo", "again", "read", "rearm",
                              "mask", "low", "high"}]
        /\ since \in [Timer!Actors -> Timer!Times] /\ mtime \in Timer!Times /\ Timer!Times \subseteq Nat
        /\ hi \in [Timer!Actors -> Timer!Words] /\ lo \in [Timer!Actors -> Timer!Words]
        /\ mtime \in Nat /\ \A a \in Timer!Actors : since[a] \in Nat
    BY TimerBounds DEF Timer!TypeOK
  <1>00. \A h, l \in Timer!Words : Timer!Join(h, l) \in Int
    <2>. SUFFICES ASSUME NEW h \in Timer!Words, NEW l \in Timer!Words PROVE Timer!Join(h, l) \in Int
      OBVIOUS
    <2>1. h \in Int /\ l \in Int /\ WordSize \in Int
      BY TimerBounds
    <2>. QED  BY <2>1 DEF Timer!Join
  <1>1. Places'
    BY <1>0 DEF Timer!Next, Places, Timer!Tick, Timer!Interrupt, Timer!BeginRead, Timer!EndRead, Timer!Rearm,
       Timer!GetStep, Timer!ReadHi, Timer!ReadLo, Timer!Recheck, Timer!SetStep, Timer!MaskHigh, Timer!WriteLow, Timer!WriteHigh,
       Timer!BeginSet, Timer!Actors
  <1>. SUFFICES ASSUME NEW b \in Timer!Actors
                PROVE  /\ since'[b] <= mtime'
                       /\ timerPc'[b] \in {"lo", "again"} =>
                             \E s \in since'[b] .. mtime' :
                                /\ hi'[b] = Timer!Hi(s)
                                /\ timerPc'[b] = "again" =>
                                      \E t \in s .. mtime' : lo'[b] = Timer!Lo(t)
                       /\ timerPc'[b] \in {"read", "rearm"} =>
                             /\ since'[b] <= Timer!Join(hi'[b], lo'[b])
                             /\ Timer!Join(hi'[b], lo'[b]) <= mtime'
    BY <1>1 DEF ReadSoFar, Timer!ReadIsCurrent
  <1>2. mtime' \in Nat /\ mtime <= mtime' /\ mtime \in Nat
    BY <1>0 DEF Timer!Next, Timer!Tick, Timer!Interrupt, Timer!BeginRead, Timer!EndRead, Timer!Rearm,
       Timer!GetStep, Timer!ReadHi, Timer!ReadLo, Timer!Recheck, Timer!SetStep, Timer!MaskHigh, Timer!WriteLow, Timer!WriteHigh,
       Timer!BeginSet
  (* What an actor has read stays true while it does nothing. *)
  <1>3. CASE /\ timerPc'[b] = timerPc[b] \/ timerPc'[b] \notin {"lo", "again", "read", "rearm"}
             /\ since'[b] = since[b] /\ hi'[b] = hi[b] /\ lo'[b] = lo[b]
    <2>1. since'[b] <= mtime'
      BY <1>0, <1>2, <1>3 DEF ReadSoFar
    <2>2. ASSUME timerPc'[b] \in {"lo", "again"}
          PROVE  \E s \in since'[b] .. mtime' :
                    /\ hi'[b] = Timer!Hi(s)
                    /\ timerPc'[b] = "again" => \E t \in s .. mtime' : lo'[b] = Timer!Lo(t)
      <3>1. PICK s \in since[b] .. mtime :
                    /\ hi[b] = Timer!Hi(s)
                    /\ timerPc[b] = "again" => \E t \in s .. mtime : lo[b] = Timer!Lo(t)
        BY <1>3, <2>2 DEF ReadSoFar
      <3>2. s \in since'[b] .. mtime' /\ \A t \in s .. mtime : t \in s .. mtime'
        BY <1>0, <1>2, <1>3
      <3>. QED  BY <1>3, <2>2, <3>1, <3>2
    <2>3. ASSUME timerPc'[b] \in {"read", "rearm"}
          PROVE  since'[b] <= Timer!Join(hi'[b], lo'[b]) /\ Timer!Join(hi'[b], lo'[b]) <= mtime'
      BY <1>0, <1>00, <1>2, <1>3, <2>3 DEF Timer!ReadIsCurrent
    <2>. QED  BY <2>1, <2>2, <2>3
  <1>4. CASE Timer!ReadHi(b)
    <2>1. /\ timerPc'[b] = "lo" /\ hi'[b] = Timer!Hi(mtime) /\ since'[b] = since[b]
          /\ mtime' = mtime /\ since[b] <= mtime
      BY <1>0, <1>4 DEF Timer!ReadHi, ReadSoFar
    <2>2. mtime \in since'[b] .. mtime'
      BY <1>0, <2>1
    <2>. QED  BY <1>0, <2>1, <2>2
  <1>5. CASE Timer!ReadLo(b)
    <2>1. /\ timerPc[b] = "lo" /\ timerPc'[b] = "again" /\ lo'[b] = Timer!Lo(mtime)
          /\ hi'[b] = hi[b] /\ since'[b] = since[b]
          /\ mtime' = mtime /\ since[b] <= mtime
      BY <1>0, <1>5 DEF Timer!ReadLo, ReadSoFar
    <2>2. PICK s \in since[b] .. mtime : hi[b] = Timer!Hi(s)
      BY <2>1 DEF ReadSoFar
    <2>3. mtime \in s .. mtime'
      BY <1>0, <2>1
    <2>. QED  BY <1>0, <2>1, <2>2, <2>3
  <1>6. CASE Timer!Recheck(b)
    <2>1. /\ timerPc[b] = "again" /\ since'[b] = since[b] /\ hi'[b] = hi[b]
          /\ lo'[b] = lo[b] /\ mtime' = mtime /\ since[b] <= mtime
          /\ timerPc'[b] = IF Timer!Hi(mtime) # hi[b] THEN "hi"
                      ELSE IF b = "isr" THEN "rearm" ELSE "read"
      BY <1>0, <1>6 DEF Timer!Recheck, ReadSoFar
    <2>2. CASE Timer!Hi(mtime) # hi[b]
      BY <1>0, <2>1, <2>2
    <2>3. CASE Timer!Hi(mtime) = hi[b]
      <3>0. PICK s \in since[b] .. mtime :
                    hi[b] = Timer!Hi(s) /\ \E t \in s .. mtime : lo[b] = Timer!Lo(t)
        BY <2>1 DEF ReadSoFar
      <3>1. PICK t \in s .. mtime : hi[b] = Timer!Hi(s) /\ lo[b] = Timer!Lo(t)
        BY <3>0
      <3>2. /\ s \in Nat /\ t \in Nat /\ s <= t /\ t <= mtime /\ since[b] <= t
            /\ WordSize \in Nat \ {0}
        BY <1>0, <3>1, TimerBounds
      <3>3. Timer!Hi(s) <= Timer!Hi(t) /\ Timer!Hi(t) <= Timer!Hi(mtime) /\ Timer!Hi(t) \in Int /\ Timer!Hi(s) \in Int
        <4>. DEFINE d == WordSize
        <4>1. d \in Nat \ {0} /\ mtime \in Nat /\ s \in Nat /\ t \in Nat
              /\ s <= t /\ t <= mtime
          BY <1>2, <3>2
        <4>. HIDE DEF d
        <4>2. s \div d <= t \div d
          BY <4>1, DivMonotone
        <4>3. t \div d <= mtime \div d
          BY <4>1, DivMonotone
        <4>4. s \div d \in Int /\ t \div d \in Int
          BY <4>1, DivMod
        <4>. QED  BY <4>2, <4>3, <4>4 DEF Timer!Hi, d
      <3>4. Timer!Hi(t) = hi[b]
        BY <2>3, <3>1, <3>3
      <3>5. t \in Timer!Deadlines
        BY <1>0, <3>2, TimerBounds
      <3>6. Timer!Join(hi[b], lo[b]) = t
        BY <3>1, <3>4, <3>5, WordsOfTime
      <3>. QED  BY <1>0, <2>1, <2>3, <3>2, <3>6
    <2>. QED  BY <2>2, <2>3
  <1>7. CASE \/ b = "isr" /\ (Timer!Interrupt \/ Timer!Rearm)
             \/ b = "thread" /\ (Timer!BeginRead \/ Timer!EndRead)
    BY <1>0, <1>7 DEF Timer!Interrupt, Timer!Rearm, Timer!BeginRead, Timer!EndRead, Timer!Times
  <1>8. CASE \/ Timer!Tick \/ \E t \in Timer!Times : Timer!BeginSet(t)
             \/ \E a \in Timer!Actors : Timer!SetStep(a)
             \/ \E a \in Timer!Actors \ {b} : Timer!GetStep(a)
             \/ b = "thread" /\ (Timer!Interrupt \/ Timer!Rearm)
             \/ b = "isr" /\ (Timer!BeginRead \/ Timer!EndRead)
    <2>1. /\ timerPc'[b] = timerPc[b] \/ timerPc'[b] \notin {"lo", "again", "read", "rearm"}
          /\ since'[b] = since[b] /\ hi'[b] = hi[b] /\ lo'[b] = lo[b]
      BY <1>0, <1>8 DEF Timer!Tick, Timer!BeginSet, Timer!SetStep, Timer!MaskHigh, Timer!WriteLow, Timer!WriteHigh,
         Timer!GetStep, Timer!ReadHi, Timer!ReadLo, Timer!Recheck, Timer!Interrupt, Timer!Rearm, Timer!BeginRead, Timer!EndRead
    <2>. QED  BY <1>3, <2>1
  <1>. QED  BY <1>4, <1>5, <1>6, <1>7, <1>8 DEF Timer!Next, Timer!GetStep, Timer!Actors

LEMMA CompareKept ==
    ASSUME Timer!ClintTimerAssumption, TimerInv, Timer!Next
    PROVE  CompareInv'
  <1>. USE DEF TimerInv, Timer!Goto
  <1>0. /\ timerPc \in [Timer!Actors -> {"idle", "hi", "lo", "again", "read", "rearm",
                              "mask", "low", "high"}]
        /\ timerCmp \in [hi : Timer!Words, lo : Timer!Words] /\ value \in [Timer!Actors -> Timer!Deadlines]
        /\ Timer!Actors = {"thread", "isr"}
    BY DEF Timer!TypeOK, Timer!Actors
  <1>1. CASE Timer!Tick \/ Timer!BeginRead \/ Timer!EndRead \/ Timer!Rearm \/ (\E t \in Timer!Times : Timer!BeginSet(t))
             \/ \E a \in Timer!Actors : Timer!GetStep(a)
    <2>1. /\ timerCmp' = timerCmp /\ deadline' = deadline
          /\ \A a \in Timer!Actors : HalfWritten(a)' <=> HalfWritten(a)
          /\ \A a \in Timer!Actors : HalfWritten(a) => timerPc'[a] = timerPc[a] /\ value'[a] = value[a]
          /\ timerPc["isr"] = "idle" => timerPc'["isr"] = "idle"
      BY <1>0, <1>1 DEF Timer!Tick, Timer!BeginRead, Timer!EndRead, Timer!Rearm, Timer!BeginSet, Timer!GetStep,
         Timer!ReadHi, Timer!ReadLo, Timer!Recheck, HalfWritten, Places
    <2>. QED  BY <1>0, <2>1 DEF CompareInv, HalfWritten
  <1>2. CASE Timer!Interrupt
    <2>1. timerCmp.hi # Timer!Top
      BY <1>2, MaskedIsLate DEF Timer!Interrupt
    <2>2. /\ timerPc'["isr"] = "hi" /\ timerPc'["thread"] = timerPc["thread"]
          /\ timerCmp' = timerCmp /\ deadline' = deadline /\ timerPc["isr"] = "idle"
      BY <1>0, <1>2 DEF Timer!Interrupt
    <2>. QED  BY <1>0, <2>1, <2>2 DEF CompareInv, HalfWritten
  <1>3. ASSUME NEW a \in Timer!Actors, Timer!SetStep(a)
        PROVE  CompareInv'
    <2>. DEFINE b == IF a = "thread" THEN "isr" ELSE "thread"
    <2>1. /\ b \in Timer!Actors /\ b # a /\ \A c \in Timer!Actors : c = a \/ c = b
          /\ ~HalfWritten(b) /\ timerPc'[b] = timerPc[b] /\ (a = "thread" => timerPc["isr"] = "idle")
      BY <1>0, <1>3 DEF Timer!SetStep, Timer!MaskHigh, Timer!WriteLow, Timer!WriteHigh, Timer!Runs,
         CompareInv, HalfWritten
    <2>. HIDE DEF b
    <2>2. CASE Timer!MaskHigh(a)
      BY <1>0, <2>1, <2>2 DEF Timer!MaskHigh, CompareInv, HalfWritten
    <2>3. CASE Timer!WriteLow(a)
      BY <1>0, <2>1, <2>3 DEF Timer!WriteLow, CompareInv, HalfWritten
    <2>4. CASE Timer!WriteHigh(a)
      <3>1. timerCmp' = [hi |-> Timer!Hi(value[a]), lo |-> Timer!Lo(value[a])]
        BY <1>0, <2>4 DEF Timer!WriteHigh, CompareInv
      <3>2. Timer!Join(timerCmp'.hi, timerCmp'.lo) = value[a] /\ deadline' = value[a]
        BY <1>0, <2>4, <3>1, WordsOfTime DEF Timer!WriteHigh
      <3>3. ~HalfWritten(a)' /\ ~HalfWritten(b)'
        BY <1>0, <2>1, <2>4 DEF Timer!WriteHigh, HalfWritten
      <3>. QED  BY <1>0, <2>1, <3>2, <3>3 DEF CompareInv, HalfWritten
    <2>. QED  BY <1>3, <2>2, <2>3, <2>4 DEF Timer!SetStep
  <1>. QED  BY <1>1, <1>2, <1>3 DEF Timer!Next

LEMMA TimerInductive ==
    ASSUME Timer!ClintTimerAssumption, TimerInv, [Timer!Next]_Timer!vars
    PROVE  TimerInv'
  <1>1. CASE Timer!Next
    BY <1>1, TypeKept, ReadKept, CompareKept DEF TimerInv
  <1>2. CASE UNCHANGED Timer!vars
    BY <1>2 DEF Timer!vars, TimerInv, Timer!TypeOK, Places, ReadSoFar, Timer!ReadIsCurrent,
       CompareInv, HalfWritten
  <1>. QED  BY <1>1, <1>2

LEMMA TimerFollows ==
    ASSUME Timer!ClintTimerAssumption, TimerInv
    PROVE  Timer!ReadIsCurrent /\ Timer!NoSpuriousInterrupt /\ Timer!CompareIsDeadline
  <1>. USE DEF TimerInv
  <1>1. Timer!CompareIsDeadline
    BY DEF CompareInv, Timer!CompareIsDeadline, HalfWritten, Timer!Writing
  <1>2. Timer!NoSpuriousInterrupt
    BY MaskedIsLate DEF Timer!NoSpuriousInterrupt, CompareInv, Timer!Pending
  <1>. QED  BY <1>1, <1>2

-----------------------------------------------------------------------------
(* A clock: for every set of devices on it.                                  *)

Chain(l, o) ==
    /\ l.head = IF Len(o) = 0 THEN Null ELSE o[1]
    /\ \A k \in 1 .. Len(o) :
          l.next[o[k]] = IF k < Len(o) THEN o[k+1] ELSE Null

Known(d) == \E k \in 1 .. Len(order) : order[k] = d

Distinct(o) == \A i, j \in 1 .. Len(o) : o[i] = o[j] => i = j

(* The node that k steps lead to, of a list that holds o.                    *)
LEMMA NodeOfChain ==
    ASSUME NEW o \in Seq(Clock!Devices), NEW l \in Clock!List, Null \notin Clock!Devices,
           Chain(l, o), NEW n \in Nat
    PROVE  Clock!NodeAt(l, n) = IF n < Len(o) THEN o[n+1] ELSE Null
  <1>. DEFINE Step(f) == [k \in 0 .. n |->
                 IF k = 0 THEN l.head
                 ELSE IF f[k-1] = Null THEN Null ELSE l.next[f[k-1]]]
              node == CHOOSE f : f = Step(f)
              g == [k \in 0 .. n |-> IF k < Len(o) THEN o[k+1] ELSE Null]
  <1>1. Clock!NodeAt(l, n) = node[n]
    BY Zenon DEF Clock!NodeAt
  <1>2. Len(o) \in Nat /\ \A k \in 1 .. Len(o) : o[k] \in Clock!Devices
    OBVIOUS
  <1>3. g = Step(g)
    <2>. SUFFICES ASSUME NEW k \in 0 .. n
                  PROVE  g[k] = IF k = 0 THEN l.head
                                ELSE IF g[k-1] = Null THEN Null ELSE l.next[g[k-1]]
      OBVIOUS
    <2>1. CASE k = 0
      BY <1>2, <2>1 DEF Chain
    <2>2. CASE k # 0 /\ k - 1 < Len(o)
      <3>1. k \in 1 .. Len(o) /\ k - 1 \in 0 .. n /\ g[k-1] = o[k] /\ o[k] # Null
        BY <1>2, <2>2
      <3>. QED  BY <1>2, <2>2, <3>1 DEF Chain
    <2>3. CASE k # 0 /\ ~(k - 1 < Len(o))
      BY <1>2, <2>3
    <2>. QED  BY <2>1, <2>2, <2>3
  <1>4. node = Step(node)
    <2>. HIDE DEF g, Step
    <2>. QED  BY <1>3, Zenon
  <1>. HIDE DEF node
  <1>5. \A k \in 0 .. n : node[k] = g[k]
    <2>. DEFINE Bad == {k \in 0 .. n : node[k] # g[k]}
    <2>. SUFFICES ASSUME Bad # {} PROVE FALSE
      OBVIOUS
    <2>1. PICK k \in Bad : \A j \in Bad : k <= j
      <3>1. Bad \in SUBSET Nat
        OBVIOUS
      <3>. HIDE DEF Bad
      <3>. QED  BY <3>1, LeastOne
    <2>2. k \in 0 .. n /\ node[k] # g[k]
      OBVIOUS
    <2>3. /\ node[k] = IF k = 0 THEN l.head
                       ELSE IF node[k-1] = Null THEN Null ELSE l.next[node[k-1]]
          /\ g[k] = IF k = 0 THEN l.head
                    ELSE IF g[k-1] = Null THEN Null ELSE l.next[g[k-1]]
      <3>. HIDE DEF g, Bad
      <3>. QED  BY <1>3, <1>4, <2>2
    <2>4. CASE k = 0
      BY <2>2, <2>3, <2>4
    <2>5. CASE k # 0
      <3>1. k - 1 \in 0 .. n /\ k - 1 \notin Bad
        <4>1. k - 1 \in 0 .. n /\ ~(k <= k - 1)
          BY <2>2, <2>5
        <4>. HIDE DEF Bad
        <4>. QED  BY <2>1, <4>1
      <3>2. node[k-1] = g[k-1]
        BY <3>1
      <3>. HIDE DEF g, Bad
      <3>. QED  BY <2>2, <2>3, <2>5, <3>2
    <2>. QED  BY <2>2, <2>4, <2>5
  <1>6. node[n] = g[n]
    BY <1>5, SMTT(40)
  <1>. QED  BY <1>1, <1>6

(* No more devices are in a list than there are.                             *)
LEMMA OrderFits ==
    ASSUME IsFiniteSet(Clock!Devices), NEW o \in Seq(Clock!Devices), Distinct(o)
    PROVE  Len(o) <= Cardinality(Clock!Devices) /\ Cardinality(Clock!Devices) \in Nat
  <1>1. Len(o) \in Nat
    OBVIOUS
  <1>2. DOMAIN o = 1 .. Len(o)
    OBVIOUS
  <1>. DEFINE R == {o[k] : k \in 1 .. Len(o)}
  <1>3. R \subseteq Clock!Devices
    OBVIOUS
  <1>4. o \in Bijection(1 .. Len(o), R)
    BY <1>2 DEF Distinct, Bijection, Injection, Surjection, IsInjective
  <1>5. ExistsBijection(1 .. Len(o), R)
    BY <1>4 DEF ExistsBijection
  <1>6. IsFiniteSet(1 .. Len(o)) /\ Cardinality(1 .. Len(o)) = Len(o)
    <2>1. Cardinality(1 .. Len(o)) = IF 1 > Len(o) THEN 0 ELSE Len(o) - 1 + 1
      BY <1>1, FS_Interval
    <2>. QED  BY <1>1, <2>1, FS_Interval
  <1>7. Cardinality(R) = Len(o)
    BY <1>5, <1>6, FS_Bijection
  <1>8. Cardinality(R) <= Cardinality(Clock!Devices)
    BY <1>3, FS_Subset
  <1>9. Cardinality(Clock!Devices) \in Nat
    BY FS_CardinalityType
  <1>. QED  BY <1>7, <1>8, <1>9

LEMMA AppendToIsList ==
    ASSUME NEW l \in Clock!List, NEW d \in Clock!Devices
    PROVE  Clock!AppendTo(l, d) \in Clock!List
  BY DEF Clock!AppendTo, Clock!List

(* The instance counts with the same operators.                              *)
LEMMA ClockCounts ==
    /\ Clock!IsFiniteSet(Clock!Devices) <=> IsFiniteSet(Clock!Devices)
    /\ Clock!Cardinality(Clock!Devices) = Cardinality(Clock!Devices)
  BY Zenon DEF Clock!IsFiniteSet, IsFiniteSet, Clock!Cardinality, Cardinality

(* A device that is not in a list is put at its end.                         *)
LEMMA AppendToEnd ==
    ASSUME Clock!MetalClockAssumption, NEW o \in Seq(Clock!Devices), Distinct(o),
           NEW l \in Clock!List, Chain(l, o),
           NEW d \in Clock!Devices, \A k \in 1 .. Len(o) : o[k] # d
    PROVE  /\ Clock!Ends([l EXCEPT !.next = [@ EXCEPT ![d] = Null]])
           /\ Chain(Clock!AppendTo(l, d), Append(o, d))
           /\ Distinct(Append(o, d))
  <1>. DEFINE cut == [l EXCEPT !.next = [@ EXCEPT ![d] = Null]]
              N == Cardinality(Clock!Devices)
              p == Append(o, d)
  <1>1. Len(o) \in Nat /\ \A k \in 1 .. Len(o) : o[k] \in Clock!Devices /\ o[k] # Null
    BY DEF Clock!MetalClockAssumption
  <1>2. /\ cut \in Clock!List /\ cut.head = l.head /\ cut.next[d] = Null
        /\ \A e \in Clock!Devices \ {d} : cut.next[e] = l.next[e]
    BY DEF Clock!List
  <1>3. Chain(cut, o)
    BY <1>1, <1>2 DEF Chain
  <1>4. Len(o) <= N /\ N \in Nat /\ Null \notin Clock!Devices
    BY OrderFits, ClockCounts DEF Clock!MetalClockAssumption
  <1>5. \A n \in Nat : Clock!NodeAt(cut, n) = IF n < Len(o) THEN o[n+1] ELSE Null
    <2>. HIDE DEF cut
    <2>. QED  BY <1>2, <1>3, <1>4, NodeOfChain
  <1>6. Clock!Ends(cut)
    <2>. HIDE DEF cut
    <2>. QED  BY <1>1, <1>4, <1>5, ClockCounts DEF Clock!Ends
  <1>7. /\ Len(p) = Len(o) + 1 /\ p[Len(o) + 1] = d
        /\ \A k \in 1 .. Len(o) : p[k] = o[k]
    OBVIOUS
  <1>8. Distinct(p)
    <2>. HIDE DEF p
    <2>. QED  BY <1>1, <1>7 DEF Distinct
  <1>9. CASE Len(o) = 0
    <2>1. cut.head = Null
      BY <1>3, <1>9 DEF Chain
    <2>2. Clock!AppendTo(l, d) = [cut EXCEPT !.head = d]
      BY <2>1 DEF Clock!AppendTo
    <2>3. Clock!AppendTo(l, d).head = d /\ Clock!AppendTo(l, d).next = cut.next
      BY <2>2, <1>2 DEF Clock!List
    <2>. HIDE DEF cut, p
    <2>4. Chain(Clock!AppendTo(l, d), p)
      BY <1>2, <1>7, <1>9, <2>3 DEF Chain
    <2>. QED  BY <1>6, <1>8, <2>4 DEF cut, p
  <1>10. CASE Len(o) # 0
    <2>. DEFINE final == o[Len(o)]
                end == CHOOSE n \in Clock!Nodes(cut) : cut.next[n] = Null
    <2>1. final \in Clock!Devices /\ final # d
      BY <1>1, <1>10
    <2>2. cut.head # Null
      BY <1>1, <1>3, <1>10 DEF Chain
    <2>3. final \in Clock!Nodes(cut) /\ cut.next[final] = Null
      <3>1. Clock!NodeAt(cut, Len(o) - 1) = final
        <4>. HIDE DEF cut
        <4>. QED  BY <1>1, <1>5, <1>10
      <3>2. cut.next[final] = Null
        <4>. HIDE DEF cut
        <4>. QED  BY <1>1, <1>3, <1>10 DEF Chain
      <3>3. final # Null /\ Len(o) - 1 \in 0 .. N
        BY <1>1, <1>4, <1>10
      <3>. HIDE DEF cut, final
      <3>. QED  BY <3>1, <3>2, <3>3, ClockCounts DEF Clock!Nodes
    <2>4. ASSUME NEW n \in Clock!Nodes(cut), cut.next[n] = Null PROVE n = final
      <3>. HIDE DEF cut
      <3>1. PICK m \in 0 .. N : n = Clock!NodeAt(cut, m)
        BY ClockCounts DEF Clock!Nodes
      <3>2. n # Null
        BY DEF Clock!Nodes
      <3>3. m \in Nat /\ m < Len(o) /\ n = o[m+1]
        BY <1>4, <1>5, <3>1, <3>2
      <3>4. m + 1 \in 1 .. Len(o)
        BY <1>1, <3>3
      <3>5. ~(m + 1 < Len(o))
        BY <1>1, <1>3, <2>4, <3>3, <3>4 DEF Chain
      <3>. QED  BY <1>1, <3>3, <3>4, <3>5
    <2>5. end = final
      <3>. HIDE DEF cut, final
      <3>. QED  BY <2>3, <2>4
    <2>6. Clock!AppendTo(l, d) = [cut EXCEPT !.next = [@ EXCEPT ![end] = d]]
      BY <2>2 DEF Clock!AppendTo
    <2>7. /\ Clock!AppendTo(l, d).head = cut.head
          /\ Clock!AppendTo(l, d).next = [cut.next EXCEPT ![final] = d]
      <3>. HIDE DEF final, end
      <3>. QED  BY <1>2, <2>5, <2>6 DEF Clock!List
    <2>8. cut.next \in [Clock!Devices -> Clock!Devices \cup {Null}]
      BY <1>2 DEF Clock!List
    <2>. HIDE DEF cut, p
    <2>9. ASSUME NEW k \in 1 .. Len(p)
          PROVE  Clock!AppendTo(l, d).next[p[k]] = IF k < Len(p) THEN p[k+1] ELSE Null
      <3>1. CASE k = Len(o) + 1
        BY <1>1, <1>2, <1>7, <2>1, <2>7, <2>8, <3>1
      <3>2. CASE k = Len(o)
        BY <1>1, <1>7, <1>10, <2>1, <2>7, <2>8, <3>2
      <3>3. CASE k \in 1 .. Len(o) - 1
        <4>1. o[k] # final /\ o[k] \in Clock!Devices
          BY <1>1, <3>3 DEF Distinct
        <4>2. cut.next[o[k]] = o[k+1] /\ p[k] = o[k] /\ p[k+1] = o[k+1]
          BY <1>1, <1>3, <1>7, <3>3 DEF Chain
        <4>. QED  BY <1>1, <1>7, <2>7, <2>8, <3>3, <4>1, <4>2
      <3>. QED  BY <1>1, <1>7, <3>1, <3>2, <3>3
    <2>10. Clock!AppendTo(l, d).head = p[1]
      BY <1>1, <1>3, <1>7, <1>10, <2>7 DEF Chain
    <2>11. Chain(Clock!AppendTo(l, d), p)
      BY <1>1, <1>7, <2>9, <2>10 DEF Chain
    <2>. QED  BY <1>6, <1>8, <2>11 DEF cut, p
  <1>. QED  BY <1>1, <1>9, <1>10

-----------------------------------------------------------------------------

Follows(d) == divisor[d] \in {0, clockRate}

(* What the lists hold while nobody has registered twice.                    *)
Lists ==
    /\ Chain(lists.pre, order) /\ Chain(lists.post, order) /\ Distinct(order)
    /\ \A d \in Clock!Devices : divisor[d] # 0 => Known(d)
    /\ clockPc # "stuck"

(* How far a walk of the post-callbacks has come.                            *)
Walked ==
    IF clockPc = "post"
      THEN \E i \in 1 .. Len(order) + 1 :
              /\ current = IF i <= Len(order) THEN order[i] ELSE Null
              /\ \A k \in 1 .. i - 1 : Follows(order[k])
      ELSE \A d \in Clock!Devices : Follows(d)

ClockInv == Clock!TypeOK /\ (~again => Lists /\ Walked)

LEMMA RegisterKeeps ==
    ASSUME Clock!MetalClockAssumption, ClockInv,
           NEW d \in Clock!Devices, NEW then \in {"idle", "post"}, clockPc = then,
           Clock!Register(d, then)
    PROVE  /\ lists' \in [pre : Clock!List, post : Clock!List] /\ order' \in Seq(Clock!Devices)
           /\ again' \in BOOLEAN
           /\ clockPc' \in {"idle", "post", "stuck"}
           /\ ~again' =>
                 /\ ~again /\ ~Known(d) /\ clockPc' = then
                 /\ order' = Append(order, d)
                 /\ Chain(lists'.pre, order') /\ Chain(lists'.post, order')
                 /\ Distinct(order')
  <1>1. /\ lists \in [pre : Clock!List, post : Clock!List] /\ order \in Seq(Clock!Devices)
        /\ again \in BOOLEAN
    BY DEF ClockInv, Clock!TypeOK
  <1>2. lists.pre \in Clock!List /\ lists.post \in Clock!List
    BY <1>1
  <1>. DEFINE cut(l) == [l EXCEPT !.next = [@ EXCEPT ![d] = Null]]
  <1>3. /\ again' = (again \/ Known(d))
        /\ order' = IF Known(d) THEN order ELSE Append(order, d)
        /\ IF Clock!Ends(cut(lists.pre)) /\ Clock!Ends(cut(lists.post))
             THEN /\ lists' = [pre  |-> Clock!AppendTo(lists.pre, d),
                               post |-> Clock!AppendTo(lists.post, d)]
                  /\ clockPc' = then
             ELSE clockPc' = "stuck" /\ UNCHANGED lists
    BY Zenon DEF Clock!Register, Known
  <1>4. Clock!AppendTo(lists.pre, d) \in Clock!List /\ Clock!AppendTo(lists.post, d) \in Clock!List
    BY <1>2, AppendToIsList
  <1>5. Append(order, d) \in Seq(Clock!Devices)
    BY <1>1
  <1>6. ASSUME ~again'
        PROVE  /\ ~again /\ ~Known(d) /\ clockPc' = then
               /\ order' = Append(order, d)
               /\ Chain(lists'.pre, order') /\ Chain(lists'.post, order')
               /\ Distinct(order')
    <2>1. ~again /\ ~Known(d)
      BY <1>3, <1>6
    <2>2. Chain(lists.pre, order) /\ Chain(lists.post, order) /\ Distinct(order)
      BY <2>1 DEF ClockInv, Lists
    <2>3. \A k \in 1 .. Len(order) : order[k] # d
      BY <2>1 DEF Known
    <2>4. /\ Clock!Ends(cut(lists.pre)) /\ Chain(Clock!AppendTo(lists.pre, d), Append(order, d))
          /\ Distinct(Append(order, d))
      <3>. HIDE DEF Clock!MetalClockAssumption
      <3>. QED  BY <1>1, <1>2, <2>2, <2>3, AppendToEnd
    <2>5. /\ Clock!Ends(cut(lists.post)) /\ Chain(Clock!AppendTo(lists.post, d), Append(order, d))
      BY <1>1, <1>2, <2>2, <2>3, AppendToEnd
    <2>6. /\ lists' = [pre  |-> Clock!AppendTo(lists.pre, d),
                       post |-> Clock!AppendTo(lists.post, d)]
          /\ clockPc' = then
      <3>. HIDE DEF cut
      <3>. QED  BY <1>3, <2>4, <2>5
    <2>7. order' = Append(order, d)
      BY <1>3, <2>1
    <2>8. lists'.pre = Clock!AppendTo(lists.pre, d) /\ lists'.post = Clock!AppendTo(lists.post, d)
      BY <2>6
    <2>. QED  BY <2>1, <2>4, <2>5, <2>6, <2>7, <2>8
  <1>7. lists' \in [pre : Clock!List, post : Clock!List] /\ clockPc' \in {"idle", "post", "stuck"}
    <2>. HIDE DEF cut
    <2>. QED  BY <1>1, <1>3, <1>4
  <1>8. order' \in Seq(Clock!Devices) /\ again' \in BOOLEAN
    BY <1>1, <1>3, <1>5
  <1>. QED  BY <1>6, <1>7, <1>8

LEMMA ClockInitially ==
    ASSUME Clock!MetalClockAssumption, Clock!Init PROVE ClockInv
  <1>1. Clock!TypeOK
    <2>1. Clock!Empty \in Clock!List
      BY DEF Clock!Empty, Clock!List
    <2>2. order \in Seq(Clock!Devices)
      BY DEF Clock!Init
    <2>. QED  BY <2>1, <2>2 DEF Clock!MetalClockAssumption, Clock!Init, Clock!TypeOK
  <1>2. Lists
    <2>1. Len(order) = 0
      BY DEF Clock!Init
    <2>. QED  BY <2>1 DEF Clock!Init, Lists, Chain, Distinct, Clock!Empty
  <1>3. Walked
    BY DEF Clock!Init, Walked, Follows
  <1>. QED  BY <1>1, <1>2, <1>3 DEF ClockInv

(* A registration between two rate changes.                                  *)
LEMMA RegisteredAndTuned ==
    ASSUME Clock!MetalClockAssumption, ClockInv, clockPc = "idle", NEW d \in Clock!Devices,
           Clock!Register(d, "idle"), divisor' = Clock!Tuned(d), inited \subseteq inited',
           inited' \subseteq Clock!Devices, UNCHANGED <<active, oneshot, clockRate, target, current>>
    PROVE  ClockInv'
  <1>1. /\ lists' \in [pre : Clock!List, post : Clock!List] /\ order' \in Seq(Clock!Devices)
        /\ again' \in BOOLEAN
        /\ clockPc' \in {"idle", "post", "stuck"}
        /\ ~again' =>
              /\ ~again /\ ~Known(d) /\ clockPc' = "idle"
              /\ order' = Append(order, d)
              /\ Chain(lists'.pre, order') /\ Chain(lists'.post, order')
              /\ Distinct(order')
    BY RegisterKeeps
  <1>2. divisor' \in [Clock!Devices -> ClockRates \cup {0}]
    BY DEF Clock!Tuned, ClockInv, Clock!TypeOK
  <1>3. Clock!TypeOK'
    BY <1>1, <1>2 DEF ClockInv, Clock!TypeOK
  <1>4. ASSUME ~again' PROVE Lists' /\ Walked'
    <2>1. Lists /\ Walked /\ order' = Append(order, d) /\ clockPc' = "idle"
      BY <1>1, <1>4 DEF ClockInv
    <2>2. divisor' = [divisor EXCEPT ![d] = clockRate] /\ divisor \in [Clock!Devices -> ClockRates \cup {0}]
      BY <2>1 DEF Clock!Tuned, ClockInv, Clock!TypeOK
    <2>3. /\ Len(order) \in Nat /\ Len(order') = Len(order) + 1
          /\ \A k \in 1 .. Len(order) : order'[k] = order[k]
          /\ order'[Len(order) + 1] = d
      BY <2>1 DEF ClockInv, Clock!TypeOK
    <2>4. Known(d)'
      BY <2>3 DEF Known
    <2>5. ASSUME NEW e \in Clock!Devices, divisor'[e] # 0 PROVE Known(e)'
      <3>1. CASE e = d
        BY <2>4, <3>1
      <3>2. CASE e # d
        <4>1. PICK k \in 1 .. Len(order) : order[k] = e
          BY <2>1, <2>2, <2>5, <3>2 DEF Lists, Known
        <4>2. k \in 1 .. Len(order') /\ order'[k] = e
          BY <2>3, <4>1
        <4>. QED  BY <4>2 DEF Known
      <3>. QED  BY <3>1, <3>2
    <2>6. \A e \in Clock!Devices : Follows(e)'
      BY <2>1, <2>2 DEF Walked, Follows
    <2>. QED  BY <1>1, <1>4, <2>1, <2>5, <2>6 DEF Lists, Walked
  <1>. QED  BY <1>3, <1>4 DEF ClockInv

LEMMA CallPostKeeps ==
    ASSUME Clock!MetalClockAssumption, ClockInv, Clock!CallPost PROVE ClockInv'
  <1>. USE DEF Clock!MetalClockAssumption, Clock!devices
  <1>1. /\ clockPc = "post" /\ current \in Clock!Devices
        /\ UNCHANGED <<inited, active, oneshot, clockRate, target>>
        /\ current' = lists'.post.next[current]
        /\ divisor' = [divisor EXCEPT ![current] =
                          IF current \in Pwms /\ @ = 0 THEN 0 ELSE clockRate]
    BY DEF Clock!CallPost, ClockInv, Clock!TypeOK
  <1>2. /\ lists' \in [pre : Clock!List, post : Clock!List] /\ order' \in Seq(Clock!Devices)
        /\ again' \in BOOLEAN /\ clockPc' \in {"idle", "post", "stuck"}
    <2>1. CASE current \in I2c
      BY <1>1, <2>1, RegisterKeeps DEF Clock!CallPost
    <2>2. CASE current \notin I2c
      BY <1>1, <2>2 DEF Clock!CallPost, ClockInv, Clock!TypeOK
    <2>. QED  BY <2>1, <2>2
  <1>3. divisor \in [Clock!Devices -> ClockRates \cup {0}] /\ clockRate \in ClockRates
    BY DEF ClockInv, Clock!TypeOK
  <1>4. divisor' \in [Clock!Devices -> ClockRates \cup {0}]
    BY <1>1, <1>3
  <1>5. current' \in Clock!Devices \cup {Null}
    BY <1>1, <1>2 DEF Clock!List
  <1>6. Clock!TypeOK'
    BY <1>1, <1>2, <1>4, <1>5 DEF ClockInv, Clock!TypeOK
  <1>7. ASSUME ~again' PROVE Lists' /\ Walked'
    <2>1. ~again
      BY <1>1, <1>7, RegisterKeeps DEF Clock!CallPost
    <2>2. Lists /\ Walked
      BY <2>1 DEF ClockInv
    <2>3. PICK i \in 1 .. Len(order) + 1 :
              /\ current = IF i <= Len(order) THEN order[i] ELSE Null
              /\ \A k \in 1 .. i - 1 : Follows(order[k])
      BY <1>1, <2>2 DEF Walked
    <2>4. Len(order) \in Nat /\ \A k \in 1 .. Len(order) : order[k] \in Clock!Devices
      BY DEF ClockInv, Clock!TypeOK
    <2>5. i \in 1 .. Len(order) /\ current = order[i]
      BY <1>1, <2>3, <2>4
    <2>6. Known(current)
      BY <2>5 DEF Known
    <2>7. current \notin I2c /\ UNCHANGED <<lists, order, again, clockPc>>
      BY <1>1, <1>7, <2>6, RegisterKeeps DEF Clock!CallPost
    <2>8. Lists'
      BY <1>1, <1>3, <2>2, <2>6, <2>7 DEF Lists, Known, Chain, Distinct
    <2>9. current' = IF i < Len(order) THEN order[i+1] ELSE Null
      BY <1>1, <2>2, <2>5, <2>7 DEF Lists, Chain
    <2>10. \A e \in Clock!Devices : Follows(e) => divisor'[e] \in {0, clockRate}
      BY <1>1, <1>3 DEF Follows
    <2>11. divisor'[current] \in {0, clockRate}
      BY <1>1, <1>3
    <2>12. \A k \in 1 .. i : divisor'[order[k]] \in {0, clockRate}
      BY <2>3, <2>4, <2>5, <2>10, <2>11
    <2>13. \A k \in 1 .. (i + 1) - 1 : Follows(order[k])'
      <3>. SUFFICES ASSUME NEW k \in 1 .. i PROVE Follows(order[k])'
        BY <2>4, <2>5
      <3>. QED  BY <1>1, <2>7, <2>12 DEF Follows
    <2>14. i + 1 \in 1 .. Len(order') + 1
      BY <2>4, <2>5, <2>7
    <2>15. current' = IF i + 1 <= Len(order') THEN order'[i+1] ELSE Null
      BY <2>4, <2>5, <2>7, <2>9
    <2>. QED  BY <1>1, <2>7, <2>8, <2>13, <2>14, <2>15 DEF Walked, Follows
  <1>. QED  BY <1>6, <1>7 DEF ClockInv

LEMMA ClockInductive ==
    ASSUME Clock!MetalClockAssumption, ClockInv, [Clock!Next]_Clock!vars PROVE ClockInv'
  <1>. USE DEF Clock!devices, Clock!calls
  <1>1. ASSUME NEW d \in Serial, Clock!InitSerial(d) PROVE ClockInv'
    BY <1>1, RegisteredAndTuned DEF Clock!InitSerial, Clock!RegisterAndTune, Clock!Devices, ClockInv, Clock!TypeOK
  <1>2. ASSUME NEW d \in I2c, Clock!SetI2cBaudRate(d) PROVE ClockInv'
    BY <1>2, RegisteredAndTuned DEF Clock!SetI2cBaudRate, Clock!RegisterAndTune, Clock!Devices, ClockInv, Clock!TypeOK
  <1>3. ASSUME NEW d \in Pwms, Clock!EnablePwm(d) PROVE ClockInv'
    <2>1. d \in Clock!Devices
      BY DEF Clock!Devices
    <2>2. Clock!TypeOK'
      BY <1>3, <2>1 DEF Clock!EnablePwm, ClockInv, Clock!TypeOK
    <2>3. ASSUME ~again' PROVE Lists' /\ Walked'
      BY <1>3, <2>3 DEF Clock!EnablePwm, ClockInv, Clock!TypeOK, Lists, Walked, Follows, Known, Chain, Distinct
    <2>. QED  BY <2>2, <2>3 DEF ClockInv
  <1>4. ASSUME NEW d \in Pwms, Clock!SetPwmFreq(d) PROVE ClockInv'
    <2>1. d \in Clock!Devices /\ clockPc = "idle"
      BY <1>4 DEF Clock!Devices, Clock!SetPwmFreq
    <2>2. CASE divisor[d] = 0
      BY <1>4, <2>1, <2>2, RegisteredAndTuned DEF Clock!SetPwmFreq, ClockInv, Clock!TypeOK
    <2>3. CASE divisor[d] # 0
      <3>1. /\ UNCHANGED <<lists, order, again, clockPc, inited, active, oneshot, clockRate, target, current>>
            /\ divisor' = [divisor EXCEPT ![d] = clockRate]
        BY <1>4, <2>1, <2>3 DEF Clock!SetPwmFreq, Clock!Tuned
      <3>2. Clock!TypeOK'
        BY <3>1 DEF ClockInv, Clock!TypeOK
      <3>3. divisor \in [Clock!Devices -> ClockRates \cup {0}]
        BY DEF ClockInv, Clock!TypeOK
      <3>4. ASSUME ~again' PROVE Lists' /\ Walked'
        <4>1. Lists /\ Walked
          BY <3>1, <3>4 DEF ClockInv
        <4>2. Lists'
          BY <2>3, <3>1, <3>3, <4>1 DEF Lists, Known, Chain, Distinct
        <4>3. Walked'
          BY <2>1, <3>1, <3>3, <4>1 DEF Walked, Follows
        <4>. QED  BY <4>2, <4>3
      <3>. QED  BY <3>2, <3>4 DEF ClockInv
    <2>. QED  BY <2>2, <2>3
  <1>5. ASSUME \/ \E d \in Serial \cup I2c : Clock!Start(d) \/ Clock!TransferEnds(d)
               \/ \E d \in Pwms : Clock!Trigger(d) \/ Clock!StopPwm(d) \/ Clock!OneShotEnds(d)
        PROVE  ClockInv'
    <2>1. UNCHANGED <<lists, order, again, inited, divisor, clockRate, target, clockPc, current>>
      BY <1>5 DEF Clock!Start, Clock!TransferEnds, Clock!Trigger, Clock!StopPwm, Clock!OneShotEnds
    <2>2. active' \subseteq Clock!Devices /\ oneshot' \subseteq Pwms
      BY <1>5 DEF Clock!Start, Clock!TransferEnds, Clock!Trigger, Clock!StopPwm, Clock!OneShotEnds,
                  Clock!Devices, ClockInv, Clock!TypeOK
    <2>. QED  BY <2>1, <2>2 DEF ClockInv, Clock!TypeOK, Lists, Walked, Follows, Known, Chain, Distinct
  <1>6. ASSUME NEW r \in ClockRates, Clock!SetRate(r) PROVE ClockInv'
    BY <1>6 DEF Clock!SetRate, ClockInv, Clock!TypeOK, Clock!List, Lists, Walked, Follows, Known, Chain, Distinct
  <1>7. ASSUME Clock!CallPre PROVE ClockInv'
    BY <1>7 DEF Clock!CallPre, ClockInv, Clock!TypeOK, Clock!List, Lists, Walked, Follows, Known, Chain, Distinct
  <1>8. ASSUME Clock!ChangeRate PROVE ClockInv'
    <2>1. Clock!TypeOK'
      BY <1>8 DEF Clock!ChangeRate, ClockInv, Clock!TypeOK, Clock!List
    <2>2. ASSUME ~again' PROVE Lists' /\ Walked'
      <3>1. Lists /\ Len(order) \in Nat
        BY <1>8, <2>2 DEF Clock!ChangeRate, ClockInv, Clock!TypeOK
      <3>2. current' = IF 1 <= Len(order) THEN order[1] ELSE Null
        BY <1>8, <3>1 DEF Clock!ChangeRate, Lists, Chain
      <3>3. 1 \in 1 .. Len(order) + 1 /\ \A k \in 1 .. 1 - 1 : FALSE
        BY <3>1
      <3>4. order' = order /\ clockPc' = "post"
        BY <1>8 DEF Clock!ChangeRate
      <3>5. Walked'
        BY <3>2, <3>3, <3>4 DEF Walked
      <3>6. Lists'
        BY <1>8, <3>1 DEF Clock!ChangeRate, Lists, Known, Chain, Distinct
      <3>. QED  BY <3>5, <3>6
    <2>. QED  BY <2>1, <2>2 DEF ClockInv
  <1>9. ASSUME Clock!CallPost PROVE ClockInv'
    BY <1>9, CallPostKeeps
  <1>10. ASSUME Clock!Return PROVE ClockInv'
    <2>1. Clock!TypeOK'
      BY <1>10 DEF Clock!Return, ClockInv, Clock!TypeOK
    <2>2. ASSUME ~again' PROVE Lists' /\ Walked'
      <3>1. Lists /\ Walked /\ clockPc = "post" /\ current = Null
        BY <1>10, <2>2 DEF Clock!Return, ClockInv
      <3>2. order \in Seq(Clock!Devices) /\ Len(order) \in Nat
        BY DEF ClockInv, Clock!TypeOK
      <3>3. \A k \in 1 .. Len(order) : Follows(order[k])
        BY <3>1, <3>2 DEF Walked, Clock!MetalClockAssumption
      <3>4. \A d \in Clock!Devices : Follows(d)
        <4>. SUFFICES ASSUME NEW d \in Clock!Devices, divisor[d] # 0 PROVE Follows(d)
          BY DEF Follows
        <4>. QED  BY <3>1, <3>3 DEF Lists, Known
      <3>. QED  BY <1>10, <3>1, <3>4 DEF Clock!Return, Lists, Walked, Follows, Known, Chain, Distinct
    <2>. QED  BY <2>1, <2>2 DEF ClockInv
  <1>11. ASSUME Clock!Spin \/ UNCHANGED Clock!vars PROVE ClockInv'
    BY <1>11 DEF Clock!Spin, Clock!vars, ClockInv, Clock!TypeOK, Lists, Walked, Follows, Known, Chain, Distinct
  <1>. QED
    BY <1>1, <1>2, <1>3, <1>4, <1>5, <1>6, <1>7, <1>8, <1>9, <1>10, <1>11 DEF Clock!Next

LEMMA ClockFollows ==
    ASSUME Clock!MetalClockAssumption, ClockInv
    PROVE  Clock!ListsHoldOrder /\ Clock!DivisorsFollowRate
  <1>1. ASSUME ~again, NEW l \in {lists.pre, lists.post}
        PROVE  /\ \A k \in 1 .. Len(order) : Clock!NodeAt(l, k-1) = order[k]
               /\ Clock!NodeAt(l, Len(order)) = Null
    <2>1. l \in Clock!List /\ order \in Seq(Clock!Devices) /\ Len(order) \in Nat
      BY DEF ClockInv, Clock!TypeOK
    <2>2. Chain(l, order)
      BY <1>1 DEF ClockInv, Lists
    <2>3. \A n \in Nat : Clock!NodeAt(l, n) = IF n < Len(order) THEN order[n+1] ELSE Null
      BY <2>1, <2>2, NodeOfChain DEF Clock!MetalClockAssumption
    <2>. QED  BY <2>1, <2>3
  <1>2. Clock!ListsHoldOrder
    BY <1>1 DEF Clock!ListsHoldOrder
  <1>3. Clock!DivisorsFollowRate
    BY DEF ClockInv, Clock!TypeOK, Walked, Follows, Clock!DivisorsFollowRate
  <1>. QED  BY <1>2, <1>3

-----------------------------------------------------------------------------
(* The rate of the clock changes at rest: the walk over the callbacks comes  *)
(* by all devices that have registered, or, once a list was spoilt by a      *)
(* second registration, to no end.                                           *)

(* The nodes of any list follow each other.                                  *)
Walk(l, f, n) ==
    f = [k \in 0 .. n |->
           IF k = 0 THEN l.head
           ELSE IF f[k-1] = Null THEN Null ELSE l.next[f[k-1]]]

After(l, node) == IF node = Null THEN Null ELSE l.next[node]

Steps(l, f, n) ==
    f[0] = l.head /\ \A k \in 0 .. n : k # 0 => f[k] = After(l, f[k-1])

LEMMA WalkStep ==
    ASSUME NEW l, NEW n \in Nat, NEW f, Walk(l, f, n)
    PROVE  Steps(l, f, n)
  <1>. DEFINE g == [k \in 0 .. n |->
                      IF k = 0 THEN l.head
                      ELSE IF f[k-1] = Null THEN Null ELSE l.next[f[k-1]]]
  <1>1. f = g
    BY DEF Walk
  <1>2. g[0] = l.head /\ \A k \in 0 .. n : k # 0 => g[k] = After(l, f[k-1])
    BY DEF After
  <1>. HIDE DEF g
  <1>. QED  BY <1>1, <1>2 DEF Steps

LEMMA WalksAgree ==
    ASSUME NEW l, NEW n \in Nat, NEW m \in Nat, NEW f, Walk(l, f, n), NEW g, Walk(l, g, m)
    PROVE  \A k \in 0 .. n : k <= m => f[k] = g[k]
  <1>. DEFINE Bad == {k \in 0 .. n : k <= m /\ f[k] # g[k]}
  <1>. SUFFICES ASSUME Bad # {} PROVE FALSE
    OBVIOUS
  <1>1. PICK k \in Bad : \A j \in Bad : k <= j
    <2>1. Bad \in SUBSET Nat
      OBVIOUS
    <2>. HIDE DEF Bad
    <2>. QED  BY <2>1, LeastOne
  <1>2. k \in 0 .. n /\ k \in 0 .. m /\ f[k] # g[k]
    OBVIOUS
  <1>3. /\ f[0] = l.head /\ g[0] = l.head
        /\ k # 0 => f[k] = After(l, f[k-1]) /\ g[k] = After(l, g[k-1])
    <2>1. Steps(l, f, n) /\ Steps(l, g, m)
      BY WalkStep
    <2>. QED  BY <1>2, <2>1 DEF Steps
  <1>4. k # 0
    BY <1>2, <1>3
  <1>5. k - 1 \in 0 .. n /\ k - 1 <= m /\ ~(k <= k - 1)
    BY <1>2, <1>4
  <1>6. f[k-1] = g[k-1]
    <2>1. k - 1 \notin Bad
      <3>. HIDE DEF Bad
      <3>. QED  BY <1>1, <1>5
    <2>. QED  BY <1>5, <2>1
  <1>. HIDE DEF Bad
  <1>. QED  BY <1>2, <1>3, <1>4, <1>6

LEMMA WalksExist ==
    ASSUME NEW l, NEW n \in Nat PROVE \E f : Walk(l, f, n)
  <1>. DEFINE Bad == {m \in Nat : ~ \E f : Walk(l, f, m)}
  <1>. SUFFICES ASSUME Bad # {} PROVE FALSE
    OBVIOUS
  <1>1. PICK m \in Bad : \A j \in Bad : m <= j
    <2>1. Bad \in SUBSET Nat
      OBVIOUS
    <2>. HIDE DEF Bad
    <2>. QED  BY <2>1, LeastOne
  <1>2. m \in Nat /\ ~ \E f : Walk(l, f, m)
    OBVIOUS
  <1>3. m # 0
    <2>. SUFFICES ASSUME m = 0 PROVE FALSE
      OBVIOUS
    <2>. DEFINE f == [k \in 0 .. 0 |-> l.head]
    <2>1. Walk(l, f, 0)
      BY DEF Walk
    <2>. HIDE DEF f, Bad
    <2>. QED  BY <1>2, <2>1
  <1>4. m - 1 \in Nat /\ ~(m <= m - 1)
    BY <1>2, <1>3
  <1>5. PICK f : Walk(l, f, m - 1)
    <2>1. m - 1 \notin Bad
      <3>. HIDE DEF Bad
      <3>. QED  BY <1>1, <1>4
    <2>. QED  BY <1>4, <2>1
  <1>. DEFINE g == [k \in 0 .. m |->
                      IF k < m THEN f[k]
                      ELSE IF f[k-1] = Null THEN Null ELSE l.next[f[k-1]]]
  <1>. HIDE DEF Bad
  <1>6. Steps(l, f, m - 1)
    BY <1>4, <1>5, WalkStep
  <1>7. \A k \in 0 .. m :
           g[k] = IF k = 0 THEN l.head
                  ELSE IF g[k-1] = Null THEN Null ELSE l.next[g[k-1]]
    <2>. SUFFICES ASSUME NEW k \in 0 .. m
                  PROVE  g[k] = IF k = 0 THEN l.head
                                ELSE IF g[k-1] = Null THEN Null ELSE l.next[g[k-1]]
      OBVIOUS
    <2>1. CASE k = 0
      BY <1>2, <1>3, <1>6, <2>1 DEF Steps
    <2>2. CASE k # 0
      <3>1. k - 1 \in 0 .. m /\ k - 1 < m /\ g[k-1] = f[k-1]
        BY <1>2, <2>2
      <3>2. g[k] = IF f[k-1] = Null THEN Null ELSE l.next[f[k-1]]
        <4>1. CASE k < m
          <5>1. k \in 0 .. m - 1 /\ g[k] = f[k]
            BY <1>2, <4>1
          <5>. HIDE DEF g
          <5>. QED  BY <1>6, <2>2, <5>1 DEF Steps, After
        <4>2. CASE ~(k < m)
          BY <4>2
        <4>. QED  BY <4>1, <4>2
      <3>. HIDE DEF g
      <3>. QED  BY <2>2, <3>1, <3>2
    <2>. QED  BY <2>1, <2>2
  <1>8. Walk(l, g, m)
    BY <1>7 DEF Walk
  <1>. HIDE DEF g
  <1>. QED  BY <1>2, <1>8

LEMMA NodesFollow ==
    ASSUME NEW l, NEW n \in Nat
    PROVE  /\ Clock!NodeAt(l, 0) = l.head
           /\ Clock!NodeAt(l, n + 1) = IF Clock!NodeAt(l, n) = Null THEN Null
                                        ELSE l.next[Clock!NodeAt(l, n)]
  <1>1. ASSUME NEW m \in Nat PROVE \E f : Walk(l, f, m) /\ Clock!NodeAt(l, m) = f[m]
    <2>. DEFINE f == CHOOSE g : g = [k \in 0 .. m |->
                        IF k = 0 THEN l.head
                        ELSE IF g[k-1] = Null THEN Null ELSE l.next[g[k-1]]]
    <2>1. Clock!NodeAt(l, m) = f[m]
      BY Zenon DEF Clock!NodeAt
    <2>2. \E g : g = [k \in 0 .. m |->
                        IF k = 0 THEN l.head
                        ELSE IF g[k-1] = Null THEN Null ELSE l.next[g[k-1]]]
      BY WalksExist, Zenon DEF Walk
    <2>3. Walk(l, f, m)
      BY <2>2, Zenon DEF Walk
    <2>. HIDE DEF f
    <2>. QED  BY <2>1, <2>3, Zenon
  <1>2. PICK f : Walk(l, f, n) /\ Clock!NodeAt(l, n) = f[n]
    BY <1>1
  <1>3. PICK g : Walk(l, g, n + 1) /\ Clock!NodeAt(l, n + 1) = g[n + 1]
    BY <1>1, n + 1 \in Nat
  <1>4. PICK h : Walk(l, h, 0) /\ Clock!NodeAt(l, 0) = h[0]
    BY <1>1, 0 \in Nat
  <1>5. f[n] = g[n]
    <2>1. n \in 0 .. n /\ n + 1 \in Nat /\ n <= n + 1
      OBVIOUS
    <2>. QED  BY <1>2, <1>3, <2>1, WalksAgree
  <1>6. g[n + 1] = After(l, g[n])
    <2>1. n + 1 \in Nat /\ n + 1 \in 0 .. n + 1 /\ n + 1 # 0 /\ (n + 1) - 1 = n
      OBVIOUS
    <2>2. Steps(l, g, n + 1)
      BY <1>3, <2>1, WalkStep
    <2>. QED  BY <2>1, <2>2 DEF Steps
  <1>7. h[0] = l.head
    BY <1>4, 0 \in Nat, WalkStep DEF Steps
  <1>. QED  BY <1>2, <1>3, <1>4, <1>5, <1>6, <1>7 DEF After

(* A list that has no end, and a set that it does not leave.                 *)
Endless(l, S) == l.head \in S /\ \A e \in S : l.next[e] \in S

(* If a list is cut at a device it ends there, if it has had no end before.  *)
LEMMA EndIsWhereCut ==
    ASSUME Clock!MetalClockAssumption, NEW l \in Clock!List, NEW d \in Clock!Devices,
           NEW S \in SUBSET Clock!Devices, l.head \in S,
           \A e \in S \ {d} : l.next[e] \in S, l.next[d] = Null, Clock!Ends(l)
    PROVE  /\ d \in S /\ d \in Clock!Nodes(l)
           /\ \A n \in Clock!Nodes(l) : l.next[n] = Null => n = d
  <1>. DEFINE N == Cardinality(Clock!Devices)
              At(n) == Clock!NodeAt(l, n)
              Nulls == {n \in Nat : At(n) = Null}
              Bad == {n \in Nat : At(n) \notin S \cup {Null}}
  <1>1. N \in Nat /\ At(N) = Null /\ Null \notin Clock!Devices
    <2>1. N \in Nat
      BY ClockCounts, FS_CardinalityType DEF Clock!MetalClockAssumption
    <2>. QED  BY <2>1, ClockCounts DEF Clock!Ends, Clock!MetalClockAssumption
  <1>2. At(0) = l.head
    BY NodesFollow, 0 \in Nat
  <1>3. \A n \in Nat : n # 0 =>
           n - 1 \in Nat /\ At(n) = IF At(n - 1) = Null THEN Null ELSE l.next[At(n - 1)]
    <2>. TAKE n \in Nat
    <2>. SUFFICES ASSUME n # 0
                  PROVE  n - 1 \in Nat /\ At(n) = IF At(n - 1) = Null THEN Null ELSE l.next[At(n - 1)]
      OBVIOUS
    <2>1. n - 1 \in Nat /\ (n - 1) + 1 = n
      OBVIOUS
    <2>. QED  BY <2>1, NodesFollow
  <1>. HIDE DEF At, N
  <1>4. Bad = {}
    <2>. SUFFICES ASSUME Bad # {} PROVE FALSE
      OBVIOUS
    <2>1. PICK n \in Bad : \A j \in Bad : n <= j
      <3>1. Bad \in SUBSET Nat
        OBVIOUS
      <3>. HIDE DEF Bad
      <3>. QED  BY <3>1, LeastOne
    <2>2. n \in Nat /\ At(n) \notin S \cup {Null}
      OBVIOUS
    <2>3. n # 0
      BY <1>2, <2>2
    <2>4. n - 1 \in Nat /\ ~(n <= n - 1)
      BY <2>2, <2>3
    <2>5. At(n - 1) \in S \cup {Null}
      <3>1. n - 1 \notin Bad
        <4>. HIDE DEF Bad
        <4>. QED  BY <2>1, <2>4
      <3>. QED  BY <2>4, <3>1
    <2>. HIDE DEF Bad
    <2>. QED  BY <1>3, <2>2, <2>3, <2>5
  <1>5. \A n \in Nat : At(n) \in S \cup {Null}
    BY <1>4
  <1>6. PICK m \in Nulls : \A j \in Nulls : m <= j
    <2>1. Nulls \in SUBSET Nat /\ Nulls # {}
      BY <1>1
    <2>. HIDE DEF Nulls
    <2>. QED  BY <2>1, LeastOne
  <1>7. m \in Nat /\ At(m) = Null /\ m <= N
    <2>1. N \in Nulls
      BY <1>1
    <2>2. m <= N
      <3>. HIDE DEF Nulls
      <3>. QED  BY <1>6, <2>1
    <2>. QED  BY <2>2
  <1>8. m # 0
    BY <1>1, <1>2, <1>7
  <1>9. m - 1 \in 0 .. N /\ m - 1 \in Nat /\ ~(m <= m - 1)
    BY <1>1, <1>7, <1>8
  <1>10. At(m - 1) # Null
    <2>1. m - 1 \notin Nulls
      <3>. HIDE DEF Nulls
      <3>. QED  BY <1>6, <1>9
    <2>. QED  BY <1>9, <2>1
  <1>11. At(m - 1) = d /\ d \in S
    <2>1. At(m - 1) \in S
      BY <1>5, <1>9, <1>10
    <2>2. l.next[At(m - 1)] = Null
      BY <1>3, <1>7, <1>8, <1>10
    <2>. QED  BY <1>1, <2>1, <2>2
  <1>12. d \in Clock!Nodes(l)
    <2>1. d # Null
      BY <1>1
    <2>. QED  BY <1>9, <1>11, <2>1, ClockCounts DEF Clock!Nodes, At, N
  <1>13. \A n \in Clock!Nodes(l) : l.next[n] = Null => n = d
    <2>. SUFFICES ASSUME NEW n \in Clock!Nodes(l), l.next[n] = Null PROVE n = d
      OBVIOUS
    <2>1. PICK j \in 0 .. N : n = At(j)
      BY ClockCounts DEF Clock!Nodes, At, N
    <2>2. n # Null /\ j \in Nat
      BY <1>1 DEF Clock!Nodes
    <2>3. n \in S
      BY <1>5, <2>1, <2>2
    <2>. QED  BY <1>1, <2>3
  <1>. QED  BY <1>11, <1>12, <1>13

(* Whoever is appended once more is linked to itself.                        *)
LEMMA AppendedAgain ==
    ASSUME Clock!MetalClockAssumption, NEW l \in Clock!List, NEW d \in Clock!Devices,
           NEW S \in SUBSET Clock!Devices, l.head \in S,
           \A e \in S \ {d} : l.next[e] \in S,
           Clock!Ends([l EXCEPT !.next = [@ EXCEPT ![d] = Null]])
    PROVE  Endless(Clock!AppendTo(l, d), S)
  <1>. DEFINE cut == [l EXCEPT !.next = [@ EXCEPT ![d] = Null]]
              end == CHOOSE n \in Clock!Nodes(cut) : cut.next[n] = Null
  <1>1. /\ cut \in Clock!List /\ cut.head = l.head /\ cut.next[d] = Null
        /\ \A e \in Clock!Devices \ {d} : cut.next[e] = l.next[e]
    BY DEF Clock!List
  <1>2. \A e \in S \ {d} : cut.next[e] \in S
    BY <1>1
  <1>3. /\ d \in S /\ d \in Clock!Nodes(cut)
        /\ \A n \in Clock!Nodes(cut) : cut.next[n] = Null => n = d
    <2>. HIDE DEF cut
    <2>1. Clock!Ends(cut)
      BY DEF cut
    <2>2. cut.head \in S
      BY <1>1
    <2>. QED  BY <1>1, <1>2, <2>1, <2>2, EndIsWhereCut
  <1>4. cut.head # Null
    BY <1>1 DEF Clock!MetalClockAssumption
  <1>5. Clock!AppendTo(l, d) = [cut EXCEPT !.next = [@ EXCEPT ![end] = d]]
    BY <1>4 DEF Clock!AppendTo
  <1>6. end = d
    <2>. HIDE DEF cut
    <2>. QED  BY <1>1, <1>3
  <1>7. /\ Clock!AppendTo(l, d).head = cut.head
        /\ Clock!AppendTo(l, d).next = [cut.next EXCEPT ![d] = d]
    <2>. HIDE DEF end
    <2>. QED  BY <1>1, <1>5, <1>6 DEF Clock!List
  <1>8. cut.next \in [Clock!Devices -> Clock!Devices \cup {Null}]
    BY <1>1 DEF Clock!List
  <1>. HIDE DEF cut, end
  <1>. QED  BY <1>1, <1>2, <1>3, <1>7, <1>8 DEF Endless

(* How far a walk of the pre-callbacks has come.                             *)
Ahead ==
    \E i \in 1 .. Len(order) + 1 :
        /\ current = IF i <= Len(order) THEN order[i] ELSE Null
        /\ \A k \in 1 .. i - 1 : order[k] \notin active

RestInv ==
    /\ ~again /\ clockPc = "pre" => Ahead
    /\ again /\ clockPc # "stuck" =>
          \E S \in SUBSET Clock!Devices :
             Endless(lists.pre, S) /\ (clockPc = "pre" => current \in S)

LEMMA RegisteredAgain ==
    ASSUME Clock!MetalClockAssumption, ClockInv, RestInv,
           NEW d \in Clock!Devices, NEW then \in {"idle", "post"}, clockPc = then,
           Clock!Register(d, then), again', clockPc' # "stuck"
    PROVE  clockPc' = then /\ \E S \in SUBSET Clock!Devices : Endless(lists'.pre, S)
  <1>. DEFINE cut(l) == [l EXCEPT !.next = [@ EXCEPT ![d] = Null]]
  <1>1. /\ again' = (again \/ Known(d))
        /\ IF Clock!Ends(cut(lists.pre)) /\ Clock!Ends(cut(lists.post))
             THEN /\ lists' = [pre  |-> Clock!AppendTo(lists.pre, d),
                               post |-> Clock!AppendTo(lists.post, d)]
                  /\ clockPc' = then
             ELSE clockPc' = "stuck" /\ UNCHANGED lists
    BY Zenon DEF Clock!Register, Known
  <1>2. /\ Clock!Ends(cut(lists.pre)) /\ clockPc' = then
        /\ lists'.pre = Clock!AppendTo(lists.pre, d)
    <2>. HIDE DEF cut
    <2>. QED  BY <1>1
  <1>3. lists.pre \in Clock!List
    BY DEF ClockInv, Clock!TypeOK
  <1>4. CASE again
    <2>1. PICK S \in SUBSET Clock!Devices : Endless(lists.pre, S)
      BY <1>4 DEF RestInv
    <2>2. Endless(Clock!AppendTo(lists.pre, d), S)
      BY <1>2, <1>3, <2>1, AppendedAgain DEF Endless
    <2>. QED  BY <1>2, <2>2
  <1>5. CASE ~again
    <2>1. Chain(lists.pre, order)
      BY <1>5 DEF ClockInv, Lists
    <2>2. PICK k \in 1 .. Len(order) : order[k] = d
      BY <1>1, <1>5 DEF Known
    <2>3. Len(order) \in Nat /\ \A j \in 1 .. Len(order) : order[j] \in Clock!Devices
      BY DEF ClockInv, Clock!TypeOK
    <2>. DEFINE S == {order[j] : j \in 1 .. k}
    <2>4. S \in SUBSET Clock!Devices
      BY <2>2, <2>3
    <2>5. lists.pre.head \in S
      <3>1. lists.pre.head = order[1] /\ 1 \in 1 .. k
        BY <2>1, <2>2, <2>3 DEF Chain
      <3>. QED  BY <3>1
    <2>6. \A e \in S \ {d} : lists.pre.next[e] \in S
      <3>. SUFFICES ASSUME NEW j \in 1 .. k, order[j] # d PROVE lists.pre.next[order[j]] \in S
        OBVIOUS
      <3>1. j # k
        BY <2>2
      <3>2. j + 1 \in 1 .. k /\ j < Len(order) /\ j \in 1 .. Len(order)
        BY <2>2, <2>3, <3>1
      <3>3. lists.pre.next[order[j]] = order[j+1]
        BY <2>1, <3>2 DEF Chain
      <3>. QED  BY <3>2, <3>3
    <2>. HIDE DEF S
    <2>7. Endless(Clock!AppendTo(lists.pre, d), S)
      BY <1>2, <1>3, <2>4, <2>5, <2>6, AppendedAgain
    <2>. QED  BY <1>2, <2>4, <2>7
  <1>. QED  BY <1>4, <1>5

(* A registration is not in a walk over the pre-callbacks.                   *)
LEMMA RegisterLeavesActive ==
    ASSUME Clock!MetalClockAssumption, ClockInv, RestInv,
           NEW d \in Clock!Devices, NEW then \in {"idle", "post"}, clockPc = then,
           Clock!Register(d, then)
    PROVE  RestInv'
  <1>1. ASSUME ~again' PROVE clockPc' # "pre"
    BY <1>1, RegisterKeeps
  <1>2. ASSUME again', clockPc' # "stuck"
        PROVE  clockPc' # "pre" /\ \E S \in SUBSET Clock!Devices : Endless(lists'.pre, S)
    BY <1>2, RegisteredAgain
  <1>. QED  BY <1>1, <1>2 DEF RestInv

LEMMA RestInitially == ASSUME Clock!Init PROVE RestInv
  BY DEF Clock!Init, RestInv

LEMMA RestInductive ==
    ASSUME Clock!MetalClockAssumption, ClockInv, RestInv, [Clock!Next]_Clock!vars
    PROVE  RestInv'
  <1>. USE DEF Clock!devices, Clock!calls
  <1>0. again \in BOOLEAN /\ lists.pre \in Clock!List
    BY DEF ClockInv, Clock!TypeOK
  <1>1. ASSUME NEW d \in Serial, Clock!InitSerial(d) PROVE RestInv'
    BY <1>1, RegisterLeavesActive DEF Clock!InitSerial, Clock!RegisterAndTune, Clock!Devices
  <1>2. ASSUME NEW d \in I2c, Clock!SetI2cBaudRate(d) PROVE RestInv'
    BY <1>2, RegisterLeavesActive DEF Clock!SetI2cBaudRate, Clock!RegisterAndTune, Clock!Devices
  <1>3. ASSUME NEW d \in Pwms, Clock!EnablePwm(d) PROVE RestInv'
    BY <1>3 DEF Clock!EnablePwm, RestInv
  <1>4. ASSUME NEW d \in Pwms, Clock!SetPwmFreq(d) PROVE RestInv'
    <2>1. d \in Clock!Devices /\ clockPc = "idle"
      BY <1>4 DEF Clock!Devices, Clock!SetPwmFreq
    <2>2. CASE divisor[d] = 0
      BY <1>4, <2>1, <2>2, RegisterLeavesActive DEF Clock!SetPwmFreq
    <2>3. CASE divisor[d] # 0
      BY <1>4, <2>1, <2>3 DEF Clock!SetPwmFreq, RestInv
    <2>. QED  BY <2>2, <2>3
  <1>5. ASSUME \/ \E d \in Serial \cup I2c : Clock!Start(d)
               \/ \E d \in Pwms : Clock!Trigger(d) \/ Clock!StopPwm(d)
        PROVE  RestInv'
    <2>1. clockPc = "idle" /\ UNCHANGED <<lists, order, again, clockPc, current>>
      BY <1>5 DEF Clock!Start, Clock!Trigger, Clock!StopPwm
    <2>. QED  BY <2>1 DEF RestInv
  <1>6. ASSUME \/ \E d \in Serial \cup I2c : Clock!TransferEnds(d)
               \/ \E d \in Pwms : Clock!OneShotEnds(d)
        PROVE  RestInv'
    <2>1. active' \subseteq active /\ UNCHANGED <<lists, order, again, clockPc, current>>
      BY <1>6 DEF Clock!TransferEnds, Clock!OneShotEnds
    <2>. QED  BY <2>1 DEF RestInv, Ahead
  <1>7. ASSUME NEW r \in ClockRates, Clock!SetRate(r) PROVE RestInv'
    <2>1. /\ clockPc' = "pre" /\ current' = lists.pre.head /\ clockPc = "idle"
          /\ UNCHANGED <<lists, order, again, active>>
      BY <1>7 DEF Clock!SetRate
    <2>2. ASSUME ~again PROVE Ahead'
      <3>1. Chain(lists.pre, order) /\ Len(order) \in Nat
        BY <2>2 DEF ClockInv, Lists, Clock!TypeOK
      <3>2. lists.pre.head = IF 1 <= Len(order) THEN order[1] ELSE Null
        BY <3>1 DEF Chain
      <3>3. 1 \in 1 .. Len(order) + 1 /\ 1 .. 1 - 1 = {}
        BY <3>1
      <3>. QED  BY <2>1, <3>2, <3>3 DEF Ahead
    <2>. QED  BY <1>0, <2>1, <2>2 DEF RestInv, Endless
  <1>8. ASSUME Clock!CallPre PROVE RestInv'
    <2>1. /\ clockPc = "pre" /\ clockPc' = "pre" /\ current # Null
          /\ active' = active \ {current} /\ current' = lists.pre.next[current]
          /\ UNCHANGED <<lists, order, again>>
      BY <1>8 DEF Clock!CallPre
    <2>2. ASSUME ~again PROVE Ahead'
      <3>1. Chain(lists.pre, order) /\ Len(order) \in Nat
        BY <2>2 DEF ClockInv, Lists, Clock!TypeOK
      <3>2. PICK i \in 1 .. Len(order) + 1 :
                /\ current = IF i <= Len(order) THEN order[i] ELSE Null
                /\ \A k \in 1 .. i - 1 : order[k] \notin active
        BY <2>1, <2>2 DEF RestInv, Ahead
      <3>3. i \in 1 .. Len(order) /\ current = order[i] /\ i + 1 \in 1 .. Len(order) + 1
        BY <2>1, <3>1, <3>2
      <3>4. current' = IF i + 1 <= Len(order) THEN order[i+1] ELSE Null
        BY <2>1, <3>1, <3>3 DEF Chain
      <3>5. ASSUME NEW k \in 1 .. (i + 1) - 1 PROVE order[k] \notin active'
        <4>1. k = i \/ k \in 1 .. i - 1
          BY <3>3
        <4>. QED  BY <2>1, <3>2, <3>3, <4>1
      <3>. QED  BY <2>1, <3>3, <3>4, <3>5 DEF Ahead
    <2>. QED  BY <1>0, <2>1, <2>2 DEF RestInv, Endless
  <1>9. ASSUME Clock!ChangeRate \/ Clock!Return PROVE RestInv'
    BY <1>9 DEF Clock!ChangeRate, Clock!Return, RestInv
  <1>10. ASSUME Clock!CallPost PROVE RestInv'
    <2>1. clockPc = "post" /\ current \in Clock!Devices
      BY <1>10 DEF Clock!CallPost, ClockInv, Clock!TypeOK
    <2>2. CASE current \in I2c
      BY <1>10, <2>1, <2>2, RegisterLeavesActive DEF Clock!CallPost
    <2>3. CASE current \notin I2c
      BY <1>10, <2>1, <2>3 DEF Clock!CallPost, RestInv
    <2>. QED  BY <2>2, <2>3
  <1>11. ASSUME Clock!Spin \/ UNCHANGED Clock!vars PROVE RestInv'
    BY <1>11 DEF Clock!Spin, Clock!vars, RestInv, Ahead
  <1>. QED
    BY <1>1, <1>2, <1>3, <1>4, <1>5, <1>6, <1>7, <1>8, <1>9, <1>10, <1>11 DEF Clock!Next

LEMMA RateChangesWhenNothingIsActive ==
    ASSUME Clock!MetalClockAssumption, ClockInv, RestInv, [Clock!Next]_Clock!vars,
           clockRate' # clockRate
    PROVE  Clock!AtRest
  <1>1. Clock!ChangeRate
    BY DEF Clock!Next, Clock!vars, Clock!InitSerial, Clock!SetI2cBaudRate,
           Clock!EnablePwm, Clock!SetPwmFreq, Clock!Start, Clock!TransferEnds,
           Clock!Trigger, Clock!StopPwm, Clock!OneShotEnds,
           Clock!SetRate, Clock!CallPre, Clock!CallPost, Clock!Return, Clock!Spin
  <1>2. clockPc = "pre" /\ current = Null /\ Null \notin Clock!Devices
    BY <1>1 DEF Clock!ChangeRate, Clock!MetalClockAssumption
  <1>3. ~again
    BY <1>2 DEF RestInv
  <1>4. PICK i \in 1 .. Len(order) + 1 :
            /\ current = IF i <= Len(order) THEN order[i] ELSE Null
            /\ \A k \in 1 .. i - 1 : order[k] \notin active
    BY <1>2, <1>3 DEF RestInv, Ahead
  <1>5. Len(order) \in Nat /\ \A k \in 1 .. Len(order) : order[k] \in Clock!Devices
    BY DEF ClockInv, Clock!TypeOK
  <1>6. i = Len(order) + 1
    BY <1>2, <1>4, <1>5
  <1>7. i - 1 = Len(order)
    BY <1>5, <1>6
  <1>. QED  BY <1>4, <1>7 DEF Clock!AtRest

-----------------------------------------------------------------------------
(* A SPI on a clock.                                                         *)

SpiInv ==
    /\ Spi!TypeOK
    /\ spiPhase # "reset" => baud \in Bauds
    /\ spiPhase = "changing" => words = 0
    /\ spiPhase = "rest" /\ Spi!DivFor(baud) \in 0 .. MaxDiv => sckDiv = Spi!DivFor(baud)

LEMMA SetsBaudIsTyped ==
    ASSUME Spi!SpiBaudAssumption, Spi!TypeOK, NEW b \in Bauds, Spi!SetsBaud(b)
    PROVE  /\ baud' \in Bauds /\ sckDiv' \in 0 .. MaxDiv \cup {3}
           /\ Spi!DivFor(baud') \in 0 .. MaxDiv => sckDiv' = Spi!DivFor(baud')
  <1>1. b \in Nat \ {0} /\ spiRate \in Nat /\ 2 * b \in Nat \ {0} /\ MaxDiv \in Nat
    BY DEF Spi!SpiBaudAssumption, Spi!TypeOK
  <1>2. spiRate \div (2 * b) \in Nat
    BY <1>1, Divides
  <1>3. Spi!DivFor(b) \in Int
    BY <1>2 DEF Spi!DivFor
  <1>4. \A n \in Int : n % (MaxDiv + 1) \in 0 .. MaxDiv
    BY <1>1
  <1>5. \A n \in 0 .. MaxDiv : n % (MaxDiv + 1) = n
    BY <1>1
  <1>. QED  BY <1>1, <1>3, <1>4, <1>5 DEF Spi!SetsBaud, Spi!TypeOK

LEMMA SpiInitially ==
    ASSUME Spi!SpiBaudAssumption, Spi!Init PROVE SpiInv
  BY DEF Spi!Init, SpiInv, Spi!TypeOK, Spi!SpiBaudAssumption

LEMMA SpiInductive ==
    ASSUME Spi!SpiBaudAssumption, SpiInv, [Spi!Next]_Spi!vars PROVE SpiInv'
  <1>1. ASSUME NEW b \in Bauds, Spi!InitSpi(b) \/ Spi!SetBaudRate(b) PROVE SpiInv'
    <2>1. Spi!SetsBaud(b) /\ UNCHANGED <<spiRate, txmark, words>> /\ spiPhase' = "rest"
      BY <1>1 DEF Spi!InitSpi, Spi!SetBaudRate
    <2>2. /\ baud' \in Bauds /\ sckDiv' \in 0 .. MaxDiv \cup {3}
          /\ Spi!DivFor(baud') \in 0 .. MaxDiv => sckDiv' = Spi!DivFor(baud')
      BY <2>1, SetsBaudIsTyped DEF SpiInv
    <2>. QED  BY <2>1, <2>2 DEF SpiInv, Spi!TypeOK, Spi!DivFor
  <1>2. ASSUME Spi!AfterChange PROVE SpiInv'
    <2>1. Spi!SetsBaud(baud) /\ UNCHANGED <<spiRate, txmark, words>> /\ spiPhase' = "rest"
          /\ baud \in Bauds
      BY <1>2 DEF Spi!AfterChange, SpiInv
    <2>2. /\ baud' \in Bauds /\ sckDiv' \in 0 .. MaxDiv \cup {3}
          /\ Spi!DivFor(baud') \in 0 .. MaxDiv => sckDiv' = Spi!DivFor(baud')
      BY <2>1, SetsBaudIsTyped DEF SpiInv
    <2>. QED  BY <2>1, <2>2 DEF SpiInv, Spi!TypeOK, Spi!DivFor
  <1>3. ASSUME Spi!Queue \/ Spi!Send PROVE SpiInv'
    BY <1>3 DEF Spi!Queue, Spi!Send, SpiInv, Spi!TypeOK, Spi!DivFor
  <1>4. ASSUME Spi!BeforeChange \/ Spi!SeeEmpty \/ Spi!Change PROVE SpiInv'
    BY <1>4 DEF Spi!BeforeChange, Spi!SeeEmpty, Spi!IsEmpty, Spi!Change, SpiInv, Spi!TypeOK
  <1>5. ASSUME UNCHANGED Spi!vars PROVE SpiInv'
    BY <1>5 DEF Spi!vars, SpiInv, Spi!TypeOK, Spi!DivFor
  <1>. QED  BY <1>1, <1>2, <1>3, <1>4, <1>5 DEF Spi!Next

LEMMA SpiFollows ==
    ASSUME Spi!SpiBaudAssumption, SpiInv PROVE Spi!SckFollowsRate
  <1>. SUFFICES ASSUME spiPhase = "rest", Spi!DivFor(baud) \in 0 .. MaxDiv
                PROVE  spiRate >= 2 * baud * (sckDiv + 1) /\ spiRate < 2 * baud * (sckDiv + 2)
    BY DEF Spi!SckFollowsRate
  <1>1. sckDiv = Spi!DivFor(baud) /\ baud \in Nat \ {0} /\ spiRate \in Nat
    BY DEF SpiInv, Spi!TypeOK, Spi!SpiBaudAssumption
  <1>. DEFINE q == spiRate \div (2 * baud)
  <1>2. 2 * baud \in Nat \ {0}
    BY <1>1
  <1>3. q \in Nat /\ (2 * baud) * q <= spiRate /\ spiRate < (2 * baud) * (q + 1)
    BY <1>1, <1>2, Divides
  <1>4. sckDiv + 1 = q /\ sckDiv + 2 = q + 1
    BY <1>1, <1>3 DEF Spi!DivFor
  <1>. HIDE DEF q
  <1>. QED  BY <1>3, <1>4

-----------------------------------------------------------------------------
(* A PWM on a clock.                                                         *)

LEMMA DividesAtLeast ==
    ASSUME NEW r \in Nat, NEW m \in Nat \ {0}, NEW k \in Nat, m * k <= r
    PROVE  k <= r \div m
  <1>. DEFINE q == r \div m
  <1>1. q \in Nat /\ r < m * (q + 1)
    BY Divides
  <1>. HIDE DEF q
  <1>2. ASSUME q + 1 <= k PROVE FALSE
    <2>1. m * (q + 1) <= m * k
      BY <1>1, <1>2
    <2>2. m * (q + 1) \in Nat /\ m * k \in Nat
      BY <1>1
    <2>. QED  BY <1>1, <2>1, <2>2
  <1>. QED  BY <1>1, <1>2 DEF q

-----------------------------------------------------------------------------
(* Scales. *)

LEMMA Powers ==
    /\ Pwm!PowerOfTwo(0) = 1
    /\ \A p \in 0 .. 16 : Pwm!PowerOfTwo(p) \in Nat \ {0}
    /\ \A p \in 0 .. 15 : Pwm!PowerOfTwo(p + 1) = 2 * Pwm!PowerOfTwo(p)
  BY DEF Pwm!PowerOfTwo

LEMMA OrIsFourBits == ASSUME NEW a, NEW b PROVE Pwm!BitOr(a, b) \in 0 .. 15
  BY DEF Pwm!BitOr

(* The period is that of the frequency, and the next longer one is of less   *)
(* than least.                                                               *)
IsPeriod == freq = (pwmRate \div Pwm!PowerOfTwo(prescale)) \div (count + 1)
LongerIsBelow(least) == (pwmRate \div Pwm!PowerOfTwo(prescale)) \div (count + 2) < least

LEMMA NextAfter ==
    ASSUME NEW x \in Nat, NEW y, x + 1 = y PROVE x + 2 = y + 1
  OBVIOUS

(* A frequency that is not above the rate has a period, and is not lost.     *)
LEMMA FrequencyIsSet ==
    ASSUME Pwm!PwmAssumption, pwmRate \in Nat, NEW f \in Nat \ {0}, f <= pwmRate,
           Pwm!SetsFreq(f)
    PROVE  /\ freq' \in Nat /\ count' \in Nat /\ prescale' \in 0 .. 15
           /\ rescaled' \in BOOLEAN
           /\ Pwm!ScaleFor(f) > MaxPrescale \/ freq' >= f
           /\ ~rescaled' =>
                 ~(Pwm!ScaleFor(f) > MaxPrescale) /\ (pwmRate' = pwmRate => IsPeriod' /\ LongerIsBelow(f)')
  <1>. DEFINE p == Pwm!ScaleFor(f)
              m == Pwm!Min({p, MaxPrescale})
              n == Pwm!PeriodAt(m, f)
              Fits == {k \in 0 .. MaxPrescale : Pwm!PeriodAt(k, f) <= MaxCount}
  <1>. USE DEF Pwm!PwmAssumption
  <1>1. /\ p \in Fits \cup {MaxPrescale + 1}
        /\ \A k \in Fits \cup {MaxPrescale + 1} : p <= k
    <2>1. Fits \cup {MaxPrescale + 1} \in SUBSET Nat
      OBVIOUS
    <2>2. PICK x \in Fits \cup {MaxPrescale + 1} :
              \A k \in Fits \cup {MaxPrescale + 1} : x <= k
      <3>. HIDE DEF Fits
      <3>. QED  BY <2>1, LeastOne
    <2>3. p = CHOOSE y \in Fits \cup {MaxPrescale + 1} :
                 \A k \in Fits \cup {MaxPrescale + 1} : y <= k
      BY DEF Pwm!ScaleFor, Pwm!Min
    <2>. HIDE DEF Fits, p
    <2>. QED  BY <2>2, <2>3
  <1>2. p \in 0 .. MaxPrescale + 1 /\ p \in 0 .. 16
    BY <1>1
  <1>3. /\ freq' = (pwmRate \div Pwm!PowerOfTwo(p)) \div n
        /\ count' = n - 1
        /\ prescale' = Pwm!BitOr(prescale, p % (MaxPrescale + 1))
        /\ rescaled' = (p > MaxPrescale \/ prescale' # p)
    BY DEF Pwm!SetsFreq
  <1>4. m \in 0 .. MaxPrescale /\ m <= p /\ (p <= MaxPrescale => m = p)
    <2>. HIDE DEF p
    <2>1. CASE p <= MaxPrescale
      <3>1. \A y \in {p, MaxPrescale} :
               (\A k \in {p, MaxPrescale} : y <= k) <=> y = p
        BY <1>2, <2>1
      <3>. QED  BY <1>2, <2>1, <3>1 DEF Pwm!Min
    <2>2. CASE ~(p <= MaxPrescale)
      <3>1. \A y \in {p, MaxPrescale} :
               (\A k \in {p, MaxPrescale} : y <= k) <=> y = MaxPrescale
        BY <1>2, <2>2
      <3>. QED  BY <1>2, <2>2, <3>1 DEF Pwm!Min
    <2>. QED  BY <2>1, <2>2
  <1>5. \A k \in 0 .. 16 : pwmRate \div Pwm!PowerOfTwo(k) \in Nat
    BY Powers, Divides
  <1>6. \A k \in 0 .. 16 : Pwm!PeriodAt(k, f) \in Nat
    BY <1>5, Divides DEF Pwm!PeriodAt
  <1>7. f <= pwmRate \div Pwm!PowerOfTwo(m)
    <2>. HIDE DEF m, p, Fits
    <2>1. CASE m = 0
      BY <2>1, Powers
    <2>2. CASE m # 0
      <3>. DEFINE j == m - 1
                  w == Pwm!PowerOfTwo(j)
                  r == pwmRate \div w
      <3>1. j \in 0 .. MaxPrescale /\ j \notin Fits /\ j \in 0 .. 15
        BY <1>1, <1>2, <1>4, <2>2 DEF Fits
      <3>2. Pwm!PeriodAt(j, f) > MaxCount
        BY <1>6, <3>1 DEF Fits
      <3>3. w \in Nat \ {0} /\ Pwm!PowerOfTwo(m) = 2 * w
        <4>1. m = j + 1
          BY <1>4
        <4>. QED  BY <3>1, <4>1, Powers
      <3>4. r \in Nat /\ w * r <= pwmRate
        <4>. HIDE DEF w
        <4>. QED  BY <3>3, Divides
      <3>5. r \div f >= 2
        BY <1>6, <3>1, <3>2 DEF Pwm!PeriodAt
      <3>. HIDE DEF r, w, j
      <3>6. r \div f \in Nat /\ f * (r \div f) <= r
        BY <3>4, Divides
      <3>7. 2 * f <= r
        BY <3>4, <3>5, <3>6
      <3>8. (2 * w) * f <= pwmRate
        <4>1. w * (2 * f) <= w * r
          BY <3>3, <3>4, <3>7
        <4>2. w * (2 * f) = (2 * w) * f /\ w * r \in Nat /\ (2 * w) * f \in Nat
          BY <3>3, <3>4
        <4>. QED  BY <3>4, <4>1, <4>2
      <3>9. 2 * w \in Nat \ {0}
        BY <3>3
      <3>. QED  BY <3>3, <3>8, <3>9, DividesAtLeast
    <2>. QED  BY <2>1, <2>2
  <1>8. n \in Nat \ {0}
    <2>1. m \in 0 .. 16
      BY <1>4
    <2>2. pwmRate \div Pwm!PowerOfTwo(m) \in Nat
      BY <1>5, <2>1
    <2>3. f * 1 <= pwmRate \div Pwm!PowerOfTwo(m)
      <3>. HIDE DEF m
      <3>. QED  BY <1>7
    <2>4. 1 <= (pwmRate \div Pwm!PowerOfTwo(m)) \div f
      <3>. HIDE DEF m
      <3>. QED  BY <2>2, <2>3, DividesAtLeast
    <2>5. n \in Nat
      BY <1>6, <2>1
    <2>. QED  BY <2>4, <2>5 DEF Pwm!PeriodAt
  <1>9. count' \in Nat /\ count' + 1 = n
    BY <1>3, <1>8
  <1>10. freq' \in Nat
    <2>1. pwmRate \div Pwm!PowerOfTwo(p) \in Nat
      <3>. HIDE DEF p
      <3>. QED  BY <1>2, <1>5
    <2>. HIDE DEF p, n
    <2>. QED  BY <1>3, <1>8, <2>1, Divides
  <1>11. rescaled' \in BOOLEAN /\ prescale' \in 0 .. 15
    BY <1>3, OrIsFourBits
  <1>. DEFINE r == pwmRate \div Pwm!PowerOfTwo(p)
  <1>12. ASSUME p <= MaxPrescale PROVE r \in Nat /\ n = r \div f /\ freq' >= f /\ r \div (n + 1) < f
    <2>1. m = p
      BY <1>4, <1>12
    <2>2. r \in Nat /\ n = r \div f
      <3>1. r \in Nat
        <4>. HIDE DEF p
        <4>. QED  BY <1>2, <1>5
      <3>2. n = Pwm!PeriodAt(p, f)
        <4>. HIDE DEF p, m
        <4>. QED  BY <2>1
      <3>. QED  BY <3>1, <3>2 DEF Pwm!PeriodAt
    <2>3. freq' = r \div n
      BY <1>3
    <2>. HIDE DEF r, n, p, m
    <2>4. f * n <= r /\ r < f * (n + 1)
      BY <2>2, Divides
    <2>5. f <= r \div n
      <3>1. n * f = f * n
        BY <1>8
      <3>2. n * f <= r
        BY <2>4, <3>1
      <3>. QED  BY <1>8, <2>2, <3>2, DividesAtLeast
    <2>6. ASSUME ~(r \div (n + 1) < f) PROVE FALSE
      <3>. DEFINE q == r \div (n + 1)
      <3>1. q \in Nat /\ (n + 1) * q <= r
        <4>1. n + 1 \in Nat \ {0}
          BY <1>8
        <4>. QED  BY <2>2, <4>1, Divides
      <3>2. f <= q
        BY <2>6, <3>1
      <3>. HIDE DEF q
      <3>3. (n + 1) * f <= (n + 1) * q
        BY <1>8, <3>1, <3>2
      <3>4. (n + 1) * f = f * (n + 1) /\ (n + 1) * f \in Nat /\ (n + 1) * q \in Nat
        BY <1>8, <3>1
      <3>. QED  BY <2>2, <2>4, <3>1, <3>3, <3>4
    <2>. QED  BY <2>2, <2>3, <2>5, <2>6
  <1>13. p > MaxPrescale \/ freq' >= f
    <2>. HIDE DEF p, r, n
    <2>. QED  BY <1>2, <1>12
  <1>14. ASSUME ~rescaled'
         PROVE  ~(p > MaxPrescale) /\ (pwmRate' = pwmRate => IsPeriod' /\ LongerIsBelow(f)')
    <2>1. ~(p > MaxPrescale) /\ prescale' = p
      <3>. HIDE DEF p, n
      <3>. QED  BY <1>3, <1>14, Zenon
    <2>2. p <= MaxPrescale
      <3>. HIDE DEF p
      <3>. QED  BY <1>2, <2>1
    <2>3. freq' = r \div n /\ count' + 1 = n /\ count' + 2 = n + 1 /\ r \div (n + 1) < f
      <3>1. freq' = r \div n
        BY <1>3
      <3>2. r \div (n + 1) < f
        <4>. HIDE DEF n, r, p
        <4>. QED  BY <1>12, <2>2, Zenon
      <3>. HIDE DEF n, r, p
      <3>3. count' + 2 = n + 1
        BY <1>8, <1>9, NextAfter
      <3>. QED  BY <1>9, <3>1, <3>2, <3>3
    <2>4. ASSUME pwmRate' = pwmRate PROVE IsPeriod' /\ LongerIsBelow(f)'
      <3>1. pwmRate' \div Pwm!PowerOfTwo(prescale') = r
        <4>. HIDE DEF p
        <4>. QED  BY <2>1, <2>4
      <3>. HIDE DEF n, r, p
      <3>. QED  BY <2>3, <3>1 DEF IsPeriod, LongerIsBelow, Pwm!PowerOfTwo
    <2>. QED  BY <2>1, <2>4
  <1>. QED  BY <1>9, <1>10, <1>11, <1>13, <1>14

-----------------------------------------------------------------------------

FreqInv ==
    /\ freq # 0 => registered
    /\ freq # 0 => freq >= pwmAsked
    /\ phase = "changed" => moved
    /\ phase = "rest" /\ ~rescaled /\ freq # 0 =>
          pwmCmp[0] = count /\ IsPeriod /\ (~moved => LongerIsBelow(pwmAsked))

(* Also during a change of the rate, until the new period is set.            *)
DutyInv == \A c \in Channels \ stale : pwmCmp[c] = Pwm!CompareFor(duty[c], count)

PwmInv == Pwm!TypeOK /\ FreqInv /\ DutyInv

LEMMA ComparesAreTyped ==
    ASSUME NEW percent \in Nat, NEW period \in Nat
    PROVE  Pwm!CompareFor(percent, period) \in Nat /\ Pwm!CompareFor(0, period) = 0
  <1>1. percent * period \in Nat /\ 100 \in Nat \ {0}
    OBVIOUS
  <1>2. (percent * period) \div 100 \in Nat
    BY <1>1, Divides
  <1>3. 0 * period = 0
    OBVIOUS
  <1>. QED  BY <1>2, <1>3 DEF Pwm!CompareFor

LEMMA PwmInitially ==
    ASSUME Pwm!PwmAssumption, Pwm!Init PROVE PwmInv
  <1>1. Pwm!CompareFor(0, 0) = 0
    BY ComparesAreTyped
  <1>2. Pwm!TypeOK
    <2>1. modes \subseteq {"always", "oneshot"}
      BY DEF Pwm!Init
    <2>2. prescale \in 0 .. 15
      BY DEF Pwm!Init
    <2>3. stale \subseteq Channels
      BY DEF Pwm!Init
    <2>. QED  BY <2>1, <2>2, <2>3 DEF Pwm!PwmAssumption, Pwm!Init, Pwm!TypeOK
  <1>3. FreqInv
    BY DEF Pwm!Init, FreqInv
  <1>4. DutyInv
    BY <1>1 DEF Pwm!Init, DutyInv
  <1>. QED  BY <1>2, <1>3, <1>4 DEF PwmInv

(* What only sets or clears modes keeps the invariant.                       *)
LEMMA PwmUntouched ==
    ASSUME PwmInv, modes' \subseteq {"always", "oneshot"},
           UNCHANGED <<pwmRate, prescale, pwmCmp, freq, count, duty, registered,
                       phase, rescaled, pwmAsked, moved, stale>>
    PROVE  PwmInv'
  <1>1. Pwm!TypeOK'
    BY DEF PwmInv, Pwm!TypeOK
  <1>2. FreqInv'
    BY DEF PwmInv, FreqInv, IsPeriod, LongerIsBelow
  <1>3. DutyInv'
    BY DEF PwmInv, DutyInv, Pwm!CompareFor
  <1>. QED  BY <1>1, <1>2, <1>3 DEF PwmInv

LEMMA PwmInductive ==
    ASSUME Pwm!PwmAssumption, PwmInv, [Pwm!Next]_Pwm!vars PROVE PwmInv'
  <1>. USE DEF Pwm!PwmAssumption, Pwm!history
  <1>1. ASSUME Pwm!Enable PROVE PwmInv'
    <2>1. Pwm!TypeOK'
      <3>1. modes' \subseteq {"always", "oneshot"}
        BY <1>1 DEF Pwm!Enable
      <3>2. prescale' \in 0 .. 15
        BY <1>1 DEF Pwm!Enable, Pwm!ClearedScale
      <3>3. stale' \subseteq Channels
        BY <1>1 DEF Pwm!Enable
      <3>. QED  BY <1>1, <3>1, <3>2, <3>3 DEF Pwm!Enable, PwmInv, Pwm!TypeOK
    <2>2. FreqInv'
      BY <1>1 DEF Pwm!Enable, Pwm!ClearedScale, FreqInv
    <2>3. DutyInv'
      BY <1>1 DEF Pwm!Enable, DutyInv
    <2>. QED  BY <2>1, <2>2, <2>3 DEF PwmInv
  <1>2. ASSUME NEW f \in Freqs, Pwm!SetFreq(f) PROVE PwmInv'
    <2>1. /\ phase = "rest" /\ Pwm!SetsFreq(f)
          /\ pwmCmp' = [pwmCmp EXCEPT ![0] = count']
          /\ registered' = (registered \/ freq = 0)
          /\ pwmAsked' = Pwm!Kept(f, f) /\ moved' = FALSE
          /\ stale' = Channels
          /\ UNCHANGED <<pwmRate, modes, duty, phase>>
      BY <1>2 DEF Pwm!SetFreq
    <2>2. f \in Nat \ {0} /\ f <= pwmRate /\ pwmRate \in Nat
      BY DEF PwmInv, Pwm!TypeOK
    <2>3. prescale \in 0 .. 15 /\ rescaled \in BOOLEAN
      BY DEF PwmInv, Pwm!TypeOK
    <2>4. /\ freq' \in Nat /\ count' \in Nat /\ prescale' \in 0 .. 15
          /\ rescaled' \in BOOLEAN
          /\ Pwm!ScaleFor(f) > MaxPrescale \/ freq' >= f
          /\ ~rescaled' =>
                ~(Pwm!ScaleFor(f) > MaxPrescale) /\ IsPeriod' /\ LongerIsBelow(f)'
      BY <2>1, <2>2, <2>3, FrequencyIsSet
    <2>5. /\ pwmAsked' \in Nat /\ freq' >= pwmAsked'
          /\ ~rescaled' => pwmAsked' = f
      BY <2>1, <2>2, <2>4 DEF Pwm!Kept
    <2>6. registered' \in BOOLEAN /\ registered'
      BY <2>1 DEF PwmInv, Pwm!TypeOK, FreqInv
    <2>7. Pwm!TypeOK'
      BY <2>1, <2>4, <2>5, <2>6 DEF PwmInv, Pwm!TypeOK
    <2>8. pwmCmp'[0] = count'
      BY <2>1 DEF PwmInv, Pwm!TypeOK
    <2>a. ~rescaled' => LongerIsBelow(pwmAsked)'
      BY <2>4, <2>5 DEF LongerIsBelow
    <2>9. FreqInv'
      BY <2>1, <2>4, <2>5, <2>6, <2>8, <2>a DEF PwmInv, FreqInv
    <2>10. DutyInv'
      BY <2>1 DEF DutyInv
    <2>. QED  BY <2>7, <2>9, <2>10 DEF PwmInv
  <1>3. ASSUME NEW c \in Channels, NEW percent \in Duties, Pwm!SetDuty(c, percent) PROVE PwmInv'
    <2>a. percent \in Nat /\ count \in Nat
      BY DEF PwmInv, Pwm!TypeOK
    <2>1. Pwm!CompareFor(percent, count) \in Nat
      BY <2>a, ComparesAreTyped
    <2>2. Pwm!TypeOK'
      BY <1>3, <2>1 DEF Pwm!SetDuty, PwmInv, Pwm!TypeOK
    <2>3. pwmCmp'[0] = pwmCmp[0]
      BY <1>3 DEF Pwm!SetDuty, PwmInv, Pwm!TypeOK
    <2>4. FreqInv'
      BY <1>3, <2>3 DEF Pwm!SetDuty, PwmInv, FreqInv, IsPeriod, LongerIsBelow
    <2>5. DutyInv'
      <3>. SUFFICES ASSUME NEW d \in Channels \ stale'
                    PROVE  pwmCmp'[d] = Pwm!CompareFor(duty'[d], count')
        BY DEF DutyInv, Pwm!CompareFor
      <3>. QED  BY <1>3 DEF Pwm!SetDuty, PwmInv, Pwm!TypeOK, DutyInv
    <2>. QED  BY <2>2, <2>4, <2>5 DEF PwmInv
  <1>4. ASSUME NEW mode \in {"always", "oneshot"}, Pwm!Trigger(mode) PROVE PwmInv'
    <2>1. /\ phase = "rest" /\ modes' = modes \cup {mode}
          /\ UNCHANGED <<pwmRate, prescale, pwmCmp, freq, count, duty, registered,
                         phase, rescaled, pwmAsked, moved, stale>>
      BY <1>4 DEF Pwm!Trigger, Pwm!kept
    <2>2. modes' \subseteq {"always", "oneshot"}
      BY <2>1 DEF PwmInv, Pwm!TypeOK
    <2>. QED  BY <2>1, <2>2, PwmUntouched
  <1>5. ASSUME Pwm!Stop \/ UNCHANGED Pwm!vars PROVE PwmInv'
    <2>1. /\ modes' \subseteq modes
          /\ UNCHANGED <<pwmRate, prescale, pwmCmp, freq, count, duty, registered,
                         phase, rescaled, pwmAsked, moved, stale>>
      BY <1>5 DEF Pwm!Stop, Pwm!vars, Pwm!kept
    <2>2. modes' \subseteq {"always", "oneshot"}
      BY <2>1 DEF PwmInv, Pwm!TypeOK
    <2>. QED  BY <2>1, <2>2, PwmUntouched
  <1>6. ASSUME Pwm!BeforeChange \/ Pwm!Change \/ Pwm!AfterChangeUndefined PROVE PwmInv'
    BY <1>6 DEF Pwm!BeforeChange, Pwm!Change, Pwm!AfterChangeUndefined, Pwm!device, Pwm!kept, PwmInv, Pwm!TypeOK, FreqInv, DutyInv
  <1>7. ASSUME Pwm!AfterChange PROVE PwmInv'
    <2>1. /\ phase = "changed" /\ ~Pwm!HasNoPeriod /\ phase' = "rest"
          /\ UNCHANGED <<pwmRate, modes, duty, registered, moved>>
      BY <1>7 DEF Pwm!AfterChange
    <2>2. CASE registered /\ freq # 0
      <3>1. /\ Pwm!SetsFreq(freq)
            /\ pwmCmp' = [c \in Channels \cup {0} |->
                         IF c = 0 THEN count'
                         ELSE IF duty[c] = 0 THEN pwmCmp[c]
                         ELSE Pwm!CompareFor(duty[c], count')]
            /\ stale' = {c \in stale : duty[c] = 0}
            /\ pwmAsked' = Pwm!Kept(pwmAsked, freq)
        BY <1>7, <2>2 DEF Pwm!AfterChange, Pwm!NewPeriod
      <3>2. freq \in Nat \ {0} /\ freq <= pwmRate /\ pwmRate \in Nat
        BY <2>1, <2>2 DEF Pwm!HasNoPeriod, PwmInv, Pwm!TypeOK
      <3>3. prescale \in 0 .. 15 /\ rescaled \in BOOLEAN
        BY DEF PwmInv, Pwm!TypeOK
      <3>4. /\ freq' \in Nat /\ count' \in Nat /\ prescale' \in 0 .. 15
            /\ rescaled' \in BOOLEAN
            /\ Pwm!ScaleFor(freq) > MaxPrescale \/ freq' >= freq
            /\ ~rescaled' => IsPeriod'
        BY <2>1, <3>1, <3>2, <3>3, FrequencyIsSet
      <3>a. pwmAsked' \in Nat /\ freq' >= pwmAsked'
        <4>1. pwmAsked \in Nat /\ freq >= pwmAsked
          BY <2>2 DEF PwmInv, FreqInv, Pwm!TypeOK
        <4>2. pwmAsked' = IF Pwm!ScaleFor(freq) > MaxPrescale THEN 0 ELSE pwmAsked
          BY <3>1 DEF Pwm!Kept
        <4>. QED  BY <3>2, <3>4, <4>1, <4>2
      <3>b. moved /\ moved'
        BY <2>1 DEF PwmInv, FreqInv, Pwm!TypeOK
      <3>5. \A c \in Channels : Pwm!CompareFor(duty[c], count') \in Nat /\ duty[c] \in Nat
        <4>1. \A c \in Channels : duty[c] \in Nat
          <5>. TAKE c \in Channels
          <5>1. duty[c] \in Duties \cup {0}
            BY DEF PwmInv, Pwm!TypeOK
          <5>2. Duties \cup {0} \subseteq Nat
            OBVIOUS
          <5>. QED  BY <5>1, <5>2
        <4>. QED  BY <3>4, <4>1, ComparesAreTyped
      <3>6. Pwm!TypeOK'
        <4>1. pwmCmp' \in [Channels \cup {0} -> Nat]
          BY <3>1, <3>4, <3>5 DEF PwmInv, Pwm!TypeOK
        <4>. QED  BY <2>1, <3>1, <3>4, <3>a, <4>1 DEF PwmInv, Pwm!TypeOK
      <3>7. pwmCmp'[0] = count'
        BY <3>1
      <3>8. FreqInv'
        BY <2>1, <2>2, <3>4, <3>7, <3>a, <3>b DEF PwmInv, FreqInv
      <3>9. DutyInv'
        <4>. SUFFICES ASSUME NEW d \in Channels \ stale'
                      PROVE  pwmCmp'[d] = Pwm!CompareFor(duty'[d], count')
          BY DEF DutyInv, Pwm!CompareFor
        <4>1. duty'[d] = duty[d]
          BY <2>1
        <4>2. CASE duty[d] # 0
          BY <3>1, <4>1, <4>2
        <4>3. CASE duty[d] = 0
          (* It was zero percent of the period before, and of any other.     *)
          <5>1. d \notin stale /\ pwmCmp'[d] = pwmCmp[d]
            BY <3>1, <4>3
          <5>2. pwmCmp[d] = Pwm!CompareFor(0, count)
            BY <4>3, <5>1 DEF PwmInv, DutyInv
          <5>3. count \in Nat
            BY DEF PwmInv, Pwm!TypeOK
          <5>4. Pwm!CompareFor(0, count) = 0 /\ Pwm!CompareFor(0, count') = 0
            BY <3>4, <5>3, ComparesAreTyped
          <5>. QED  BY <4>1, <4>3, <5>1, <5>2, <5>4
        <4>. QED  BY <4>2, <4>3
      <3>. QED  BY <3>6, <3>8, <3>9 DEF PwmInv
    <2>3. CASE ~(registered /\ freq # 0)
      <3>1. UNCHANGED <<prescale, pwmCmp, freq, count, rescaled, pwmAsked, stale>>
        BY <1>7, <2>3 DEF Pwm!AfterChange
      <3>2. Pwm!TypeOK' /\ FreqInv'
        BY <2>1, <2>3, <3>1 DEF PwmInv, Pwm!TypeOK, FreqInv, IsPeriod
      <3>. QED  BY <2>1, <3>1, <3>2 DEF PwmInv, DutyInv
    <2>. QED  BY <2>2, <2>3
  <1>. QED  BY <1>1, <1>2, <1>3, <1>4, <1>5, <1>6, <1>7 DEF Pwm!Next

LEMMA PwmFollows ==
    ASSUME Pwm!PwmAssumption, PwmInv PROVE Pwm!DutyFollowsRate /\ Pwm!FrequencyIsAsAsked
  <1>1. Pwm!DutyFollowsRate
    BY DEF PwmInv, DutyInv, Pwm!DutyFollowsRate, Pwm!GetDuty
  <1>2. ASSUME phase = "rest", freq # 0, ~rescaled
        PROVE  /\ Pwm!RealFreq = freq /\ Pwm!RealFreq >= pwmAsked
               /\ ~moved => Pwm!FreqOfPeriod(pwmCmp[0] + 2) < pwmAsked
    <2>1. /\ pwmCmp[0] = count /\ IsPeriod /\ freq >= pwmAsked
          /\ ~moved => LongerIsBelow(pwmAsked)
      BY <1>2 DEF PwmInv, FreqInv
    <2>. QED  BY <2>1 DEF IsPeriod, LongerIsBelow, Pwm!RealFreq, Pwm!FreqOfPeriod
  <1>3. Pwm!FrequencyIsAsAsked
    BY <1>2 DEF Pwm!FrequencyIsAsAsked, Pwm!GetFreq
  <1>. QED  BY <1>1, <1>3

-----------------------------------------------------------------------------
(* The UART of a thread and a handler.                                       *)

(* What came and was not lost: returned or in the FIFO, in order.            *)
OnceInv ==
    /\ rx \in Seq(1 .. came) /\ got \in Seq(1 .. came)
    /\ \A i \in 1 .. Len(rx) - 1 : rx[i] < rx[i + 1]
    /\ \A i \in 1 .. Len(got) - 1 : got[i] < got[i + 1]
    /\ Len(got) > 0 /\ Len(rx) > 0 => got[Len(got)] < rx[1]

(* The first character finds room.                                           *)
SentInv ==
    /\ uartPc = "room" => sent <= MaxPutc
    /\ sent = 0 => fifo = 0 /\ lost = 0
    /\ sent > 0 => lost < sent

UartInv == Both!TypeOK /\ OnceInv /\ SentInv

LEMMA UartInitially ==
    ASSUME Both!UartAssumption, Both!Init PROVE UartInv
  <1>1. Both!TypeOK
    BY DEF Both!UartAssumption, Both!Init, Both!TypeOK
  <1>2. OnceInv
    BY DEF Both!Init, OnceInv
  <1>3. SentInv
    BY DEF Both!UartAssumption, Both!Init, SentInv
  <1>. QED  BY <1>1, <1>2, <1>3 DEF UartInv

LEMMA ThreeBits ==
    ASSUME NEW a, NEW b
    PROVE  \E n \in 0 .. 7 :
              \A i \in {1, 2, 4} :
                 ((n \div i) % 2 = 1) =
                     ((a \div i) % 2 = 1 \/ (b \div i) % 2 = 1)
  <1>. DEFINE Is(i) == (a \div i) % 2 = 1 \/ (b \div i) % 2 = 1
              n == (IF Is(1) THEN 1 ELSE 0) + (IF Is(2) THEN 2 ELSE 0)
                     + (IF Is(4) THEN 4 ELSE 0)
  <1>1. n \in 0 .. 7 /\ \A i \in {1, 2, 4} : ((n \div i) % 2 = 1) = Is(i)
    <2>1. \A k \in 0 .. 7 : /\ ((k \div 1) % 2 = 1) = (k \in {1, 3, 5, 7})
                            /\ ((k \div 2) % 2 = 1) = (k \in {2, 3, 6, 7})
                            /\ ((k \div 4) % 2 = 1) = (k \in {4, 5, 6, 7})
      <3>. TAKE k \in 0 .. 7
      <3>1. k \in {0, 1, 2, 3, 4, 5, 6, 7}
        OBVIOUS
      <3>. QED  BY <3>1
    <2>. HIDE DEF Is
    <2>2. /\ n \in 0 .. 7
          /\ (n \in {1, 3, 5, 7}) = Is(1)
          /\ (n \in {2, 3, 6, 7}) = Is(2)
          /\ (n \in {4, 5, 6, 7}) = Is(4)
      <3>1. Is(1) \in BOOLEAN /\ Is(2) \in BOOLEAN /\ Is(4) \in BOOLEAN
        BY DEF Is
      <3>. QED  BY <3>1
    <2>. HIDE DEF n
    <2>3. \A i \in {1, 2, 4} : i = 1 \/ i = 2 \/ i = 4
      OBVIOUS
    <2>4. /\ ((n \div 1) % 2 = 1) = Is(1)
          /\ ((n \div 2) % 2 = 1) = Is(2)
          /\ ((n \div 4) % 2 = 1) = Is(4)
      BY <2>1, <2>2
    <2>. QED  BY <2>2, <2>3, <2>4
  <1>2. \E m \in 0 .. 7 : \A i \in {1, 2, 4} : ((m \div i) % 2 = 1) = Is(i)
    <2>. HIDE DEF Is, n
    <2>. QED  BY <1>1
  <1>. QED  BY <1>2

LEMMA SendsIsTyped ==
    ASSUME Both!UartAssumption, fifo \in 0 .. Depth, shift \in 0 .. Frame, Both!Sends
    PROVE  fifo' \in 0 .. fifo /\ shift' \in 0 .. Frame
  BY DEF Both!UartAssumption, Both!Sends

LEMMA WriteKeeps ==
    ASSUME Both!UartAssumption, UartInv, Both!Write, sent <= MaxPutc
    PROVE  /\ fifo' \in 0 .. Depth /\ shift' \in 0 .. Frame
           /\ sent' = sent + 1 /\ lost' \in 0 .. sent
  BY DEF Both!UartAssumption, UartInv, Both!TypeOK, SentInv, Both!Write

LEMMA ElementsOf ==
    ASSUME NEW S, NEW s \in Seq(S)
    PROVE  Len(s) \in Nat /\ \A i \in 1 .. Len(s) : s[i] \in S
  OBVIOUS

LEMMA ComesInOrder ==
    ASSUME Both!UartAssumption, UartInv, Both!Arrive PROVE OnceInv'
  <1>. DEFINE n == came + 1
  <1>1. /\ came \in Nat /\ n = came' /\ n \in 1 .. n /\ 1 .. came \subseteq 1 .. n
        /\ got' = got /\ rx' = IF Len(rx) < Depth THEN Append(rx, n) ELSE rx
    BY DEF Both!UartAssumption, UartInv, Both!TypeOK, Both!Arrive, Both!receiver
  <1>2. /\ rx \in Seq(1 .. came) /\ got \in Seq(1 .. came)
        /\ \A i \in 1 .. Len(rx) - 1 : rx[i] < rx[i + 1]
        /\ \A i \in 1 .. Len(got) - 1 : got[i] < got[i + 1]
        /\ Len(got) > 0 /\ Len(rx) > 0 => got[Len(got)] < rx[1]
    BY DEF UartInv, OnceInv
  <1>3. rx \in Seq(1 .. n) /\ got \in Seq(1 .. n)
    BY <1>1, <1>2
  <1>4. /\ Len(rx) \in Nat /\ Len(got) \in Nat
        /\ \A i \in 1 .. Len(rx) : rx[i] \in 1 .. came
        /\ \A i \in 1 .. Len(got) : got[i] \in 1 .. came
    <2>1. rx \in Seq(1 .. came) /\ got \in Seq(1 .. came)
      BY <1>2
    <2>. QED  BY <2>1, ElementsOf
  <1>5. CASE Len(rx) < Depth
    <2>1. /\ rx' = Append(rx, n) /\ rx' \in Seq(1 .. n) /\ Len(rx') = Len(rx) + 1
          /\ rx'[Len(rx) + 1] = n /\ \A i \in 1 .. Len(rx) : rx'[i] = rx[i]
      BY <1>1, <1>3, <1>5
    <2>. HIDE DEF n
    <2>2. \A i \in 1 .. Len(rx') - 1 : rx'[i] < rx'[i + 1]
      BY <1>1, <1>2, <1>4, <2>1 DEF n
    <2>3. ASSUME Len(got) > 0 PROVE got[Len(got)] < rx'[1]
      <3>1. got[Len(got)] \in 1 .. came
        BY <1>4, <2>3
      <3>2. CASE Len(rx) = 0
        BY <1>1, <2>1, <3>1, <3>2 DEF n
      <3>3. CASE Len(rx) > 0
        BY <1>2, <1>4, <2>1, <2>3, <3>3
      <3>. QED  BY <1>4, <3>2, <3>3
    <2>. QED  BY <1>1, <1>2, <1>3, <2>1, <2>2, <2>3 DEF OnceInv
  <1>6. CASE ~(Len(rx) < Depth)
    <2>. HIDE DEF n
    <2>. QED  BY <1>1, <1>2, <1>3, <1>6 DEF OnceInv
  <1>. QED  BY <1>5, <1>6

LEMMA GoesInOrder ==
    ASSUME Both!UartAssumption, UartInv, Both!ReadData, came' = came PROVE OnceInv'
  <1>1. /\ rx \in Seq(1 .. came) /\ got \in Seq(1 .. came)
        /\ \A i \in 1 .. Len(rx) - 1 : rx[i] < rx[i + 1]
        /\ \A i \in 1 .. Len(got) - 1 : got[i] < got[i + 1]
        /\ Len(got) > 0 /\ Len(rx) > 0 => got[Len(got)] < rx[1]
    BY DEF UartInv, OnceInv
  <1>0. came' = came
    OBVIOUS
  <1>2. rx # <<>> /\ got' = Append(got, Head(rx)) /\ rx' = Tail(rx)
    BY DEF Both!ReadData
  <1>3. /\ Len(rx) \in Nat \ {0} /\ Len(got) \in Nat /\ Head(rx) = rx[1]
        /\ rx[1] \in 1 .. came /\ came' = came
    <2>1. rx \in Seq(1 .. came) /\ got \in Seq(1 .. came) /\ rx # <<>>
      BY <1>1, <1>2
    <2>2. Len(rx) \in Nat \ {0} /\ Head(rx) = rx[1]
      <3>. HIDE DEF Both!ReadData
      <3>. QED  BY <2>1
    <2>3. Len(got) \in Nat /\ \A i \in 1 .. Len(rx) : rx[i] \in 1 .. came
      BY <2>1, ElementsOf
    <2>4. rx[1] \in 1 .. came
      BY <2>2, <2>3
    <2>. QED  BY <1>0, <2>2, <2>3, <2>4
  <1>4. /\ rx' \in Seq(1 .. came) /\ Len(rx') = Len(rx) - 1
        /\ \A i \in 1 .. Len(rx') : rx'[i] = rx[i + 1]
    BY <1>1, <1>2
  <1>5. /\ got' \in Seq(1 .. came) /\ Len(got') = Len(got) + 1
        /\ got'[Len(got) + 1] = rx[1] /\ \A i \in 1 .. Len(got) : got'[i] = got[i]
    BY <1>1, <1>2, <1>3
  <1>6. \A i \in 1 .. Len(rx') - 1 : rx'[i] < rx'[i + 1]
    BY <1>1, <1>3, <1>4, SMTT(40)
  <1>7. \A i \in 1 .. Len(got') - 1 : got'[i] < got'[i + 1]
    BY <1>1, <1>3, <1>5
  <1>8. Len(rx') > 0 => got'[Len(got')] < rx'[1]
    BY <1>1, <1>3, <1>4, <1>5
  <1>. QED  BY <1>3, <1>4, <1>5, <1>6, <1>7, <1>8 DEF OnceInv

LEMMA UartInductive ==
    ASSUME Both!UartAssumption, UartInv, [Both!Next]_Both!vars PROVE UartInv'
  <1>. USE DEF Both!UartAssumption
  <1>1. ASSUME Both!Bit \/ Both!Wait PROVE UartInv'
    <2>1. fifo' \in 0 .. fifo /\ shift' \in 0 .. Frame
      BY <1>1, SendsIsTyped DEF Both!Bit, Both!Wait, UartInv, Both!TypeOK
    <2>2. UNCHANGED <<txcnt, uartPc, sent, lost, torn, rx, came, got>>
      BY <1>1 DEF Both!Bit, Both!Wait, Both!receiver
    <2>3. fifo' \in 0 .. Depth /\ left' \in 0 .. Frame
      BY <1>1, <2>1, SMTT(40) DEF Both!Bit, Both!Wait, UartInv, Both!TypeOK
    <2>4. Both!TypeOK'
      BY <2>1, <2>2, <2>3 DEF UartInv, Both!TypeOK
    <2>5. OnceInv'
      BY <2>2 DEF UartInv, OnceInv
    <2>6. SentInv'
      BY <2>1, <2>2 DEF UartInv, Both!TypeOK, SentInv
    <2>. QED  BY <2>4, <2>5, <2>6 DEF UartInv
  <1>2. ASSUME Both!Arrive PROVE UartInv'
    <2>1. rx \in Seq(1 .. came) /\ came \in Nat /\ Len(rx) <= Depth
      BY DEF UartInv, OnceInv, Both!TypeOK
    <2>2. Len(rx') <= Depth
      BY <1>2, <2>1 DEF Both!Arrive
    <2>3. Both!TypeOK' /\ SentInv'
      BY <1>2, <2>2 DEF Both!Arrive, Both!transmitter, UartInv, Both!TypeOK, SentInv
    <2>. QED  BY <1>2, <2>3, ComesInOrder DEF UartInv
  <1>3. ASSUME Both!SeeRoom PROVE UartInv'
    BY <1>3 DEF Both!SeeRoom, Both!transmitter, Both!receiver, UartInv, Both!TypeOK, OnceInv, SentInv
  <1>4. ASSUME Both!Putc \/ Both!HandlerPutc PROVE UartInv'
    <2>1. sent <= MaxPutc /\ Both!Write
      BY <1>4 DEF Both!Putc, Both!HandlerPutc, UartInv, Both!TypeOK, SentInv
    <2>2. /\ fifo' \in 0 .. Depth /\ shift' \in 0 .. Frame
          /\ sent' = sent + 1 /\ lost' \in 0 .. sent
      BY <2>1, WriteKeeps
    <2>3. uartPc' = "idle" \/ (uartPc' = uartPc /\ sent < MaxPutc)
      BY <1>4 DEF Both!Putc, Both!HandlerPutc
    <2>a. UNCHANGED <<txcnt, left, torn, rx, came, got>>
      BY <1>4 DEF Both!Putc, Both!HandlerPutc, Both!receiver
    <2>b. sent' \in 0 .. MaxPutc + 1 /\ lost' \in 0 .. MaxPutc
      BY <2>1, <2>2 DEF UartInv, Both!TypeOK
    <2>4. Both!TypeOK'
      BY <2>2, <2>3, <2>a, <2>b DEF UartInv, Both!TypeOK
    <2>5. SentInv'
      BY <2>1, <2>2, <2>3 DEF UartInv, Both!TypeOK, SentInv
    <2>6. OnceInv'
      BY <1>4 DEF Both!Putc, Both!HandlerPutc, Both!receiver, UartInv, OnceInv
    <2>. QED  BY <2>4, <2>5, <2>6 DEF UartInv
  <1>5. ASSUME Both!Getc PROVE UartInv'
    <2>1. Both!ReadData /\ UNCHANGED <<Both!transmitter, txcnt, left, torn, came>>
      BY <1>5 DEF Both!Getc
    <2>2. rx \in Seq(1 .. came) /\ Len(rx) <= Depth /\ rx # <<>> /\ rx' = Tail(rx) /\ uartPc' = uartPc
      BY <2>1 DEF Both!ReadData, UartInv, OnceInv, Both!TypeOK
    <2>3. Len(rx') <= Depth
      BY <2>2
    <2>4. Both!TypeOK' /\ SentInv'
      BY <2>1, <2>2, <2>3 DEF Both!transmitter, UartInv, Both!TypeOK, SentInv
    <2>. QED  BY <2>1, <2>4, GoesInOrder DEF UartInv
  <1>6. ASSUME NEW level \in Watermarks, Both!SetTxWatermark(level) PROVE UartInv'
    <2>1. txcnt' \in 0 .. 7
      <3>1. \E n \in 0 .. 7 :
               \A i \in {1, 2, 4} :
                  ((n \div i) % 2 = 1) =
                      ((txcnt \div i) % 2 = 1 \/ (level \div i) % 2 = 1)
        BY ThreeBits
      <3>2. txcnt' = CHOOSE n \in 0 .. 7 :
               \A i \in {1, 2, 4} :
                  ((n \div i) % 2 = 1) =
                      ((txcnt \div i) % 2 = 1 \/ (level \div i) % 2 = 1)
        BY <1>6 DEF Both!SetTxWatermark
      <3>. QED  BY <3>1, <3>2, Zenon
    <2>. QED
      BY <1>6, <2>1 DEF Both!SetTxWatermark, Both!transmitter, Both!receiver, UartInv, Both!TypeOK, OnceInv, SentInv
  <1>7. ASSUME Both!SetBaudRate \/ Both!ChangeRate PROVE UartInv'
    BY <1>7 DEF Both!SetBaudRate, Both!ChangeRate, Both!transmitter, Both!receiver, UartInv, Both!TypeOK, OnceInv, SentInv
  <1>8. ASSUME Both!BeginDrain PROVE UartInv'
    BY <1>8 DEF Both!BeginDrain, Both!DrainLevel, Both!transmitter, Both!receiver, UartInv, Both!TypeOK, OnceInv, SentInv
  <1>9. ASSUME Both!SeeEmpty PROVE UartInv'
    BY <1>9 DEF Both!SeeEmpty, Both!BitsToWait, Both!transmitter, Both!receiver, UartInv, Both!TypeOK, OnceInv, SentInv
  <1>10. ASSUME UNCHANGED Both!vars PROVE UartInv'
    BY <1>10 DEF Both!vars, UartInv, Both!TypeOK, OnceInv, SentInv
  <1>. QED
    BY <1>1, <1>2, <1>3, <1>4, <1>5, <1>6, <1>7, <1>8, <1>9, <1>10 DEF Both!Next

LEMMA UartFollows ==
    ASSUME UartInv PROVE Both!EachOnceInOrder
  <1>1. got \in Seq(1 .. came) /\ \A i \in 1 .. Len(got) - 1 : got[i] < got[i + 1]
    BY DEF UartInv, OnceInv
  <1>2. \A i \in 1 .. Len(got) : got[i] \in 1 .. came
    BY <1>1, ElementsOf
  <1>. QED  BY <1>1, <1>2 DEF Both!EachOnceInOrder

-----------------------------------------------------------------------------
(* The UART of a thread alone.                                               *)

(* Of a thread that no handler interrupts.                                   *)
UartAloneInv ==
    /\ fifo \in Nat /\ shift \in 0 .. Frame
    /\ lost = 0 /\ "clock" \notin torn
    /\ uartPc = "room" => fifo < Depth
    /\ uartPc = "drain" => txcnt = 1
    /\ uartPc = "wait" => left \in Nat /\ fifo = 0 /\ shift <= left

LEMMA UartAloneInitially ==
    ASSUME Uart!UartAssumption, Uart!Init PROVE UartAloneInv
  BY DEF Uart!UartAssumption, Uart!Init, UartAloneInv

LEMMA UartAloneInductive ==
    ASSUME Uart!UartAssumption, UartAloneInv, [Uart!Next]_Uart!vars
    PROVE  UartAloneInv'
  <1>. USE DEF Uart!UartAssumption, UartAloneInv
  <1>1. ASSUME Uart!Bit PROVE UartAloneInv'
    BY <1>1 DEF Uart!Bit, Uart!Sends, Uart!receiver
  <1>2. ASSUME Uart!Wait PROVE UartAloneInv'
    BY <1>2 DEF Uart!Wait, Uart!Sends, Uart!receiver
  <1>3. ASSUME Uart!SeeRoom PROVE UartAloneInv'
    BY <1>3 DEF Uart!SeeRoom, Uart!TxReady, Uart!transmitter, Uart!receiver
  <1>4. ASSUME Uart!Putc PROVE UartAloneInv'
    BY <1>4 DEF Uart!Putc, Uart!Write, Uart!receiver
  <1>5. ASSUME Uart!HandlerPutc PROVE FALSE
    BY <1>5 DEF Uart!HandlerPutc
  <1>6. ASSUME Uart!Arrive \/ Uart!Getc PROVE UartAloneInv'
    BY <1>6 DEF Uart!Arrive, Uart!Getc, Uart!ReadData, Uart!transmitter
  <1>7. ASSUME NEW level \in Watermarks, Uart!SetTxWatermark(level) PROVE UartAloneInv'
    BY <1>7 DEF Uart!SetTxWatermark, Uart!transmitter, Uart!receiver
  <1>8. ASSUME Uart!SetBaudRate PROVE UartAloneInv'
    BY <1>8 DEF Uart!SetBaudRate, Uart!transmitter, Uart!receiver
  <1>9. ASSUME Uart!ChangeRate PROVE UartAloneInv'
    BY <1>9 DEF Uart!ChangeRate, Uart!transmitter, Uart!receiver
  <1>10. ASSUME Uart!BeginDrain \/ Uart!SeeEmpty PROVE UartAloneInv'
    BY <1>10 DEF Uart!BeginDrain, Uart!DrainLevel, Uart!SeeEmpty, Uart!BitsToWait, Uart!transmitter, Uart!receiver
  <1>11. ASSUME UNCHANGED Uart!vars PROVE UartAloneInv'
    BY <1>11 DEF Uart!vars
  <1>. QED
    BY <1>1, <1>2, <1>3, <1>4, <1>5, <1>6, <1>7, <1>8, <1>9, <1>10, <1>11 DEF Uart!Next

LEMMA UartAloneFollows ==
    ASSUME UartAloneInv PROVE Uart!NothingIsDropped /\ Uart!NoCharacterIsTorn
  BY DEF UartAloneInv, Uart!NothingIsDropped, Uart!NoCharacterIsTorn

-----------------------------------------------------------------------------
(* The console of a simulator, of a thread and a handler.                    *)

(* A request is with the host, or its answer on the way, for each call that  *)
(* waits at most.                                                            *)
Tokens ==
    (IF tohost # "none" THEN 1 ELSE 0) + (IF taken # "none" THEN 1 ELSE 0)
        + answers + (IF fromhost THEN 1 ELSE 0)

Waiting ==
    (IF htifPc["thread"] = "answer" THEN 1 ELSE 0)
        + (IF htifPc["handler"] = "answer" THEN 1 ELSE 0)

FrameOK(p) ==
    /\ frame[p].what \in {"gone", "write", "exit"}
    /\ frame[p].what = "exit" => frame[p].code \in {"passed", "failed"}

HtifInv ==
    /\ {tohost, taken} \subseteq Nested!Contexts \cup {"none"}
    /\ fromhost \in BOOLEAN
    /\ DOMAIN frame = Nested!Contexts /\ frame = [p \in Nested!Contexts |-> frame[p]]
    /\ \A p \in Nested!Contexts : FrameOK(p)
    /\ htifPc \in [Nested!Contexts -> {"idle", "print", "set", "answer"}]
    /\ answers \in Nat /\ writes \in 0 .. MaxWrites
    /\ status \in {"running", "passed", "failed"}
    /\ Tokens <= Waiting

LEMMA HtifInitially ==
    ASSUME Nested!HtifAssumption, Nested!Init PROVE HtifInv
  <1>1. frame = [p \in Nested!Contexts |-> Nested!Gone] /\ Nested!Gone.what = "gone"
    BY DEF Nested!Init, Nested!Gone
  <1>2. DOMAIN frame = Nested!Contexts /\ frame = [p \in Nested!Contexts |-> frame[p]]
    BY <1>1
  <1>3. \A p \in Nested!Contexts : FrameOK(p)
    BY <1>1 DEF FrameOK
  <1>4. Tokens = 0 /\ Waiting = 0
    BY DEF Nested!Init, Tokens, Waiting, Nested!Contexts
  <1>5. htifPc \in [Nested!Contexts -> {"idle", "print", "set", "answer"}]
    BY DEF Nested!Init
  <1>6. MaxWrites \in Nat
    BY DEF Nested!HtifAssumption
  <1>7. /\ {tohost, taken} \subseteq Nested!Contexts \cup {"none"}
        /\ fromhost \in BOOLEAN
        /\ answers \in Nat /\ writes \in 0 .. MaxWrites
        /\ status \in {"running", "passed", "failed"}
    <2>1. writes = 0 /\ 0 \in 0 .. MaxWrites
      BY <1>6 DEF Nested!Init
    <2>2. {tohost, taken} \subseteq Nested!Contexts \cup {"none"} /\ fromhost \in BOOLEAN
      BY DEF Nested!Init
    <2>3. answers \in Nat /\ status \in {"running", "passed", "failed"}
      BY DEF Nested!Init
    <2>. QED  BY <2>1, <2>2, <2>3
  <1>8. Tokens <= Waiting
    BY <1>4
  <1>. QED  BY <1>2, <1>3, <1>5, <1>7, <1>8 DEF HtifInv

LEMMA HtifInductive ==
    ASSUME Nested!HtifAssumption, HtifInv, [Nested!Next]_Nested!vars PROVE HtifInv'
  <1>. USE DEF Nested!HtifAssumption, Nested!Contexts
  <1>1. ASSUME NEW p \in Nested!Contexts, NEW t \in Texts, Nested!Write(p, t) PROVE HtifInv'
    BY <1>1 DEF Nested!Write, Nested!Goto, HtifInv, FrameOK, Tokens, Waiting
  <1>2. ASSUME NEW p \in Nested!Contexts, Nested!Putc(p) \/ Nested!WriteReturns(p) PROVE HtifInv'
    <2>1. CASE Nested!Putc(p)
      BY <2>1 DEF Nested!Putc, Nested!Goto, HtifInv, FrameOK, Tokens, Waiting
    <2>2. CASE Nested!WriteReturns(p)
      BY <2>2 DEF Nested!WriteReturns, Nested!Goto, HtifInv, FrameOK, Tokens, Waiting
    <2>. QED  BY <1>2, <2>1, <2>2
  <1>3. ASSUME NEW p \in Nested!Contexts, Nested!SetTohost(p) PROVE HtifInv'
    BY <1>3 DEF Nested!SetTohost, Nested!Goto, HtifInv, FrameOK, Tokens, Waiting
  <1>4. ASSUME NEW p \in Nested!Contexts, Nested!Done(p) PROVE HtifInv'
    <2>1. /\ htifPc[p] = "answer" /\ fromhost /\ fromhost' = FALSE
          /\ UNCHANGED <<tohost, taken, answers, writes, status>>
      BY <1>4 DEF Nested!Done, Nested!Answered
    <2>2. p \in Nested!Contexts
      OBVIOUS
    <2>3. CASE frame[p].what = "exit"
      <3>1. UNCHANGED <<frame, htifPc>>
        BY <1>4, <2>3 DEF Nested!Done
      <3>2. Tokens' <= Waiting'
        BY <2>1, <3>1 DEF HtifInv, Tokens, Waiting
      <3>. QED  BY <2>1, <3>1, <3>2 DEF HtifInv, FrameOK
    <2>4. CASE frame[p].what # "exit"
      <3>1. frame' = [frame EXCEPT ![p] = Nested!Gone] /\ htifPc' = [htifPc EXCEPT ![p] = "print"]
        BY <1>4, <2>4 DEF Nested!Done, Nested!Goto
      <3>2. Tokens' <= Waiting'
        BY <2>1, <3>1 DEF HtifInv, Tokens, Waiting
      <3>3. Nested!Gone.what = "gone"
        BY DEF Nested!Gone
      <3>4. \A q \in Nested!Contexts : FrameOK(q)'
        BY <2>2, <3>1, <3>3 DEF HtifInv, FrameOK
      <3>. QED  BY <2>1, <3>1, <3>2, <3>4 DEF HtifInv
    <2>. QED  BY <2>3, <2>4
  <1>5. ASSUME NEW p \in Nested!Contexts, Nested!CheckFromhost(p) PROVE HtifInv'
    <2>1. /\ fromhost' = FALSE
          /\ UNCHANGED <<tohost, frame, htifPc, writes, taken, answers, status>>
      BY <1>5 DEF Nested!CheckFromhost, Nested!program
    <2>2. Tokens' <= Waiting'
      BY <2>1 DEF HtifInv, Tokens, Waiting
    <2>. QED  BY <2>1, <2>2 DEF HtifInv, FrameOK
  <1>6. ASSUME NEW code \in {"passed", "failed"}, Nested!Exit(code) PROVE HtifInv'
    BY <1>6 DEF Nested!Exit, Nested!Goto, HtifInv, FrameOK, Tokens, Waiting
  <1>7. ASSUME Nested!Take PROVE HtifInv'
    BY <1>7 DEF Nested!Take, Nested!program, HtifInv, FrameOK, Tokens, Waiting
  <1>8. ASSUME Nested!Serve PROVE HtifInv'
    BY <1>8 DEF Nested!Serve, Nested!program, HtifInv, FrameOK, Tokens, Waiting
  <1>9. ASSUME Nested!Acknowledge PROVE HtifInv'
    BY <1>9 DEF Nested!Acknowledge, Nested!program, HtifInv, FrameOK, Tokens, Waiting
  <1>10. ASSUME UNCHANGED Nested!vars PROVE HtifInv'
    BY <1>10 DEF Nested!vars, Nested!program, HtifInv, FrameOK, Tokens, Waiting
  <1>. QED
    BY <1>1, <1>2, <1>3, <1>4, <1>5, <1>6, <1>7, <1>8, <1>9, <1>10 DEF Nested!Next, Nested!Step

LEMMA HtifFollows ==
    ASSUME HtifInv PROVE Nested!TypeOK
  BY DEF HtifInv, FrameOK, Tokens, Waiting, Nested!Contexts, Nested!TypeOK

-----------------------------------------------------------------------------
(* The console of a simulator, of a thread alone.                            *)

Chars == UNION {{t[i] : i \in 1 .. Len(t)} : t \in Texts}

LEMMA NothingMore ==
    ASSUME NEW C, NEW s \in Seq(C) PROVE s \o <<>> = s
  OBVIOUS

LEMMA OneMore ==
    ASSUME NEW C, NEW s \in Seq(C), NEW t \in Seq(C), t # <<>>
    PROVE  Append(s, Head(t)) \o Tail(t) = s \o t
  OBVIOUS

LEMMA Prefix ==
    ASSUME NEW C, NEW s \in Seq(C), NEW t \in Seq(C)
    PROVE  Htif!IsPrefix(s, s \o t)
  <1>1. Len(s \o t) = Len(s) + Len(t) /\ Len(s) \in Nat /\ Len(t) \in Nat
    OBVIOUS
  <1>2. SubSeq(s, 1, Len(s)) = SubSeq(s \o t, 1, Len(s))
    OBVIOUS
  <1>. QED  BY <1>1, <1>2 DEF Htif!IsPrefix

LEMMA Suffix ==
    ASSUME NEW C, NEW s \in Seq(C), NEW t \in Seq(C)
    PROVE  Htif!IsSuffix(t, s \o t)
  <1>. DEFINE r == Htif!Reverse(t)
              q == Htif!Reverse(s \o t)
  <1>1. Len(s \o t) = Len(s) + Len(t) /\ Len(s) \in Nat /\ Len(t) \in Nat
        /\ s \o t \in Seq(C)
    OBVIOUS
  <1>2. /\ r \in Seq(C) /\ Len(r) = Len(t)
        /\ \A i \in 1 .. Len(t) : r[i] = t[Len(t) - i + 1]
    BY <1>1 DEF Htif!Reverse
  <1>3. /\ q \in Seq(C) /\ Len(q) = Len(s) + Len(t)
        /\ \A i \in 1 .. Len(s) + Len(t) : q[i] = (s \o t)[Len(s) + Len(t) - i + 1]
    BY <1>1 DEF Htif!Reverse
  <1>4. \A i \in 1 .. Len(t) : r[i] = q[i]
    <2>. TAKE i \in 1 .. Len(t)
    <2>1. i \in 1 .. Len(s) + Len(t) /\ Len(t) - i + 1 \in 1 .. Len(t)
      BY <1>1
    <2>2. (s \o t)[Len(s) + (Len(t) - i + 1)] = t[Len(t) - i + 1]
      BY <1>1, <2>1
    <2>3. Len(s) + Len(t) - i + 1 = Len(s) + (Len(t) - i + 1)
      BY <1>1, <2>1
    <2>. HIDE DEF r, q
    <2>. QED  BY <1>2, <1>3, <2>1, <2>2, <2>3
  <1>. HIDE DEF r, q
  <1>5. SubSeq(r, 1, Len(r)) = SubSeq(q, 1, Len(r))
    BY <1>1, <1>2, <1>3, <1>4
  <1>6. Len(r) <= Len(q)
    BY <1>1, <1>2, <1>3
  <1>. QED  BY <1>5, <1>6 DEF Htif!IsSuffix, Htif!IsPrefix, r, q

-----------------------------------------------------------------------------

(* The thread's request in hand has been printed.                            *)
Served == answers > 0 \/ fromhost

(* What has been printed of what was asked, but for the request in hand.     *)
Printed ==
    \E done \in Seq(Chars) :
        /\ printed = done \o text["thread"]
        /\ screen = IF Served THEN Append(done, Head(text["thread"])) ELSE done

IsWrite ==
    /\ frame["thread"].what = "write" /\ text["thread"] # <<>>
    /\ frame["thread"].c = Head(text["thread"])

IsExit ==
    /\ frame["thread"].what = "exit" /\ text["thread"] = <<>>
    /\ frame["thread"].code \in {"passed", "failed"}
    /\ ~Served

(* Nothing is with the host, or the one request that it has, or its answer.  *)
None == tohost = "none" /\ taken = "none" /\ answers = 0 /\ ~fromhost
One ==
    \/ tohost = "thread" /\ taken = "none" /\ answers = 0 /\ ~fromhost
    \/ tohost = "none" /\ taken = "thread" /\ answers = 0 /\ ~fromhost
    \/ tohost = "none" /\ taken = "none" /\ answers = 1 /\ ~fromhost
    \/ tohost = "none" /\ taken = "none" /\ answers = 0 /\ fromhost

HtifAloneType ==
    /\ {tohost, taken} \subseteq {"thread", "none"}
    /\ fromhost \in BOOLEAN /\ answers \in Nat
    /\ frame = [p \in Htif!Contexts |-> frame[p]]
    /\ htifPc \in [Htif!Contexts -> {"idle", "print", "set", "answer"}]
    /\ text \in [Htif!Contexts -> Seq(Chars)]
    /\ printed \in Seq(Chars) /\ screen \in Seq(Chars)
    /\ status \in {"running", "passed", "failed"}
    /\ htifPc["handler"] = "idle" /\ text["handler"] = <<>>

HtifAloneInv ==
    /\ HtifAloneType
    /\ Printed
    /\ htifPc["thread"] = "idle" => text["thread"] = <<>>
    /\ htifPc["thread"] \in {"set", "answer"} => IsWrite \/ IsExit
    /\ htifPc["thread"] = "answer" /\ Htif!Running => One
    /\ htifPc["thread"] # "answer" => None
    /\ ~Htif!Running => None /\ htifPc["thread"] = "answer" /\ IsExit

LEMMA TextsAreTyped ==
    ASSUME Htif!HtifAssumption, NEW t \in Texts PROVE t \in Seq(Chars) /\ t # <<>>
  <1>. DEFINE T == {t[i] : i \in 1 .. Len(t)}
  <1>1. t \in Seq(T) /\ t # <<>>
    BY DEF Htif!HtifAssumption
  <1>2. T \subseteq Chars
    BY DEF Chars
  <1>. HIDE DEF T
  <1>. QED  BY <1>1, <1>2

LEMMA HtifAloneInitially ==
    ASSUME Htif!HtifAssumption, Htif!Init PROVE HtifAloneInv
  <1>1. HtifAloneType
    <2>1. frame = [p \in Htif!Contexts |-> Htif!Gone] /\ text = [p \in Htif!Contexts |-> <<>>]
          /\ htifPc = [p \in Htif!Contexts |-> "idle"]
      BY DEF Htif!Init
    <2>2. <<>> \in Seq(Chars)
      OBVIOUS
    <2>3. frame = [p \in Htif!Contexts |-> frame[p]]
      BY <2>1
    <2>4. /\ text \in [Htif!Contexts -> Seq(Chars)] /\ text["handler"] = <<>>
          /\ htifPc \in [Htif!Contexts -> {"idle", "print", "set", "answer"}]
          /\ htifPc["handler"] = "idle"
      BY <2>1, <2>2 DEF Htif!Contexts
    <2>5. /\ {tohost, taken} \subseteq {"thread", "none"}
          /\ fromhost \in BOOLEAN /\ answers \in Nat
          /\ status \in {"running", "passed", "failed"}
      BY DEF Htif!Init
    <2>. QED  BY <2>2, <2>3, <2>4, <2>5 DEF Htif!Init, HtifAloneType
  <1>2. text["thread"] = <<>> /\ htifPc["thread"] = "idle"
    BY DEF Htif!Init, Htif!Contexts
  <1>3. <<>> \in Seq(Chars) /\ <<>> \o <<>> = <<>>
    OBVIOUS
  <1>4. None /\ ~Served
    BY DEF Htif!Init, None, Served
  <1>5. Printed
    BY <1>2, <1>3, <1>4 DEF Htif!Init, Printed
  <1>. QED  BY <1>1, <1>2, <1>4, <1>5 DEF HtifAloneInv, Htif!Init, Htif!Running

(* The thread's own steps, and the host's.                                   *)
LEMMA HtifAloneInductive ==
    ASSUME Htif!HtifAssumption, HtifAloneInv, [Htif!Next]_Htif!vars
    PROVE  HtifAloneInv'
  <1>. DEFINE th == "thread"
  <1>0. /\ HtifAloneType /\ th \in Htif!Contexts /\ text[th] \in Seq(Chars)
        /\ Htif!Contexts = {"thread", "handler"}
    BY DEF HtifAloneInv, HtifAloneType, Htif!Contexts
  <1>a. PICK done \in Seq(Chars) :
            /\ printed = done \o text[th]
            /\ screen = IF Served THEN Append(done, Head(text[th])) ELSE done
    BY DEF HtifAloneInv, Printed
  <1>1. ASSUME NEW t \in Texts, Htif!Write(th, t) PROVE HtifAloneInv'
    <2>1. htifPc[th] = "idle" /\ Htif!Running /\ text[th] = <<>> /\ None /\ ~Served
      BY <1>1 DEF Htif!Write, Htif!Runs, HtifAloneInv, None, Served
    <2>2. printed = done /\ screen = done
      BY <1>a, <2>1, NothingMore
    <2>3. t \in Seq(Chars)
      BY TextsAreTyped
    <2>4. /\ text' = [text EXCEPT ![th] = t] /\ printed' = printed \o t
          /\ htifPc' = [htifPc EXCEPT ![th] = "print"]
          /\ UNCHANGED <<tohost, fromhost, frame, taken, answers, screen, status>>
      BY <1>1 DEF Htif!Write, Htif!Goto
    <2>5. text'[th] = t /\ htifPc'[th] = "print"
      BY <1>0, <2>4 DEF HtifAloneType
    <2>6. printed' \in Seq(Chars)
      BY <2>2, <2>3, <2>4
    <2>7. HtifAloneType'
      BY <1>0, <2>3, <2>4, <2>6 DEF HtifAloneType
    <2>8. Printed'
      BY <2>1, <2>2, <2>4, <2>5 DEF Printed, Served
    <2>. QED  BY <2>1, <2>4, <2>5, <2>7, <2>8 DEF HtifAloneInv, None, Htif!Running
  <1>2. ASSUME Htif!Putc(th) PROVE HtifAloneInv'
    <2>1. htifPc[th] = "print" /\ Htif!Running /\ text[th] # <<>> /\ None
      BY <1>2 DEF Htif!Putc, Htif!Runs, HtifAloneInv
    <2>2. /\ frame' = [frame EXCEPT ![th] = [what |-> "write", c |-> Head(text[th])]]
          /\ htifPc' = [htifPc EXCEPT ![th] = "set"]
          /\ UNCHANGED <<tohost, fromhost, text, taken, answers, screen, printed, status>>
      BY <1>2 DEF Htif!Putc, Htif!Goto
    <2>3. htifPc'[th] = "set" /\ frame'[th] = [what |-> "write", c |-> Head(text[th])]
      BY <1>0, <2>2 DEF HtifAloneType
    <2>4. HtifAloneType'
      BY <1>0, <2>2 DEF HtifAloneType
    <2>5. Printed'
      BY <1>a, <2>2 DEF Printed, Served
    <2>6. IsWrite'
      BY <2>1, <2>2, <2>3 DEF IsWrite
    <2>. QED  BY <2>1, <2>2, <2>3, <2>4, <2>5, <2>6 DEF HtifAloneInv, None, Htif!Running
  <1>3. ASSUME Htif!WriteReturns(th) PROVE HtifAloneInv'
    <2>1. htifPc[th] = "print" /\ Htif!Running /\ text[th] = <<>> /\ None
      BY <1>3 DEF Htif!WriteReturns, Htif!Runs, HtifAloneInv
    <2>2. /\ htifPc' = [htifPc EXCEPT ![th] = "idle"]
          /\ UNCHANGED <<tohost, fromhost, frame, text, taken, answers, screen, printed, status>>
      BY <1>3 DEF Htif!WriteReturns, Htif!Goto
    <2>3. htifPc'[th] = "idle"
      BY <1>0, <2>2 DEF HtifAloneType
    <2>4. HtifAloneType'
      BY <1>0, <2>2 DEF HtifAloneType
    <2>5. Printed'
      BY <1>a, <2>2 DEF Printed, Served
    <2>. QED  BY <2>1, <2>2, <2>3, <2>4, <2>5 DEF HtifAloneInv, None, Htif!Running
  <1>4. ASSUME NEW code \in {"passed", "failed"}, Htif!Exit(code) PROVE HtifAloneInv'
    <2>1. htifPc[th] = "idle" /\ Htif!Running /\ text[th] = <<>> /\ None
      BY <1>4 DEF Htif!Exit, Htif!Runs, HtifAloneInv
    <2>2. /\ frame' = [frame EXCEPT ![th] = [what |-> "exit", code |-> code]]
          /\ htifPc' = [htifPc EXCEPT ![th] = "set"]
          /\ UNCHANGED <<tohost, fromhost, text, taken, answers, screen, printed, status>>
      BY <1>4 DEF Htif!Exit, Htif!Goto
    <2>3. htifPc'[th] = "set" /\ frame'[th] = [what |-> "exit", code |-> code]
      BY <1>0, <2>2 DEF HtifAloneType
    <2>4. HtifAloneType'
      BY <1>0, <2>2 DEF HtifAloneType
    <2>5. Printed'
      BY <1>a, <2>2 DEF Printed, Served
    <2>6. IsExit'
      BY <2>1, <2>2, <2>3 DEF IsExit, None, Served
    <2>. QED  BY <2>1, <2>2, <2>3, <2>4, <2>5, <2>6 DEF HtifAloneInv, None, Htif!Running
  <1>5. ASSUME Htif!CheckFromhost(th) PROVE FALSE
    BY <1>5 DEF Htif!CheckFromhost, Htif!Runs, HtifAloneInv, None
  <1>6. ASSUME Htif!SetTohost(th) PROVE HtifAloneInv'
    <2>1. htifPc[th] = "set" /\ Htif!Running /\ None /\ (IsWrite \/ IsExit)
      BY <1>6 DEF Htif!SetTohost, Htif!Runs, HtifAloneInv
    <2>2. /\ tohost' = th /\ htifPc' = [htifPc EXCEPT ![th] = "answer"]
          /\ UNCHANGED <<fromhost, frame, text, taken, answers, screen, printed, status>>
      BY <1>6 DEF Htif!SetTohost, Htif!Goto
    <2>3. htifPc'[th] = "answer"
      BY <1>0, <2>2 DEF HtifAloneType
    <2>4. HtifAloneType'
      BY <1>0, <2>2 DEF HtifAloneType
    <2>5. Printed'
      BY <1>a, <2>2 DEF Printed, Served
    <2>6. IsWrite' \/ IsExit'
      BY <2>1, <2>2 DEF IsWrite, IsExit, Served
    <2>7. One'
      BY <2>1, <2>2 DEF None, One
    <2>. QED  BY <2>1, <2>2, <2>3, <2>4, <2>5, <2>6, <2>7 DEF HtifAloneInv, Htif!Running
  <1>7. ASSUME Htif!Done(th) PROVE HtifAloneInv'
    <2>1. htifPc[th] = "answer" /\ Htif!Running /\ fromhost /\ fromhost' = FALSE
          /\ UNCHANGED <<tohost, taken, answers, screen, printed, status>>
      BY <1>7 DEF Htif!Done, Htif!Runs, Htif!Answered
    <2>2. One /\ IsWrite /\ Served
      BY <2>1 DEF HtifAloneInv, IsExit, Served
    <2>3. /\ frame' = [frame EXCEPT ![th] = Htif!Gone]
          /\ text' = [text EXCEPT ![th] = Tail(@)]
          /\ htifPc' = [htifPc EXCEPT ![th] = "print"]
      BY <1>7, <2>2 DEF Htif!Done, Htif!Goto, IsWrite
    <2>4. text[th] # <<>> /\ Tail(text[th]) \in Seq(Chars) /\ Head(text[th]) \in Chars
      BY <1>0, <2>2 DEF IsWrite
    <2>5. text'[th] = Tail(text[th]) /\ htifPc'[th] = "print"
      BY <1>0, <2>3 DEF HtifAloneType
    <2>6. HtifAloneType'
      BY <1>0, <2>1, <2>3, <2>4 DEF HtifAloneType
    <2>7. None'
      BY <2>1, <2>2 DEF One, None
    <2>8. Printed'
      <3>1. screen = Append(done, Head(text[th])) /\ screen \in Seq(Chars)
        BY <1>0, <1>a, <2>2 DEF HtifAloneType
      <3>2. screen \o Tail(text[th]) = printed
        BY <1>0, <1>a, <2>4, <3>1, OneMore
      <3>3. ~Served'
        BY <2>7 DEF None, Served
      <3>. QED  BY <2>1, <2>5, <3>1, <3>2, <3>3 DEF Printed
    <2>. QED  BY <2>1, <2>5, <2>6, <2>7, <2>8 DEF HtifAloneInv, Htif!Running
  <1>8. ASSUME Htif!Take PROVE HtifAloneInv'
    <2>1. /\ Htif!Running /\ tohost # "none" /\ taken = "none"
          /\ tohost' = "none" /\ taken' = tohost
          /\ UNCHANGED <<fromhost, frame, htifPc, text, printed, answers, screen, status>>
      BY <1>8 DEF Htif!Take, Htif!program
    <2>2. htifPc[th] = "answer" /\ One /\ (IsWrite \/ IsExit)
      BY <2>1 DEF HtifAloneInv, None
    <2>3. One'
      BY <2>1, <2>2 DEF One
    <2>4. HtifAloneType'
      BY <1>0, <2>1 DEF HtifAloneType
    <2>5. Printed'
      BY <1>a, <2>1 DEF Printed, Served
    <2>6. IsWrite' \/ IsExit'
      BY <2>1, <2>2 DEF IsWrite, IsExit, Served
    <2>. QED  BY <2>1, <2>2, <2>3, <2>4, <2>5, <2>6 DEF HtifAloneInv, Htif!Running
  <1>9. ASSUME Htif!Serve PROVE HtifAloneInv'
    <2>1. /\ Htif!Running /\ taken # "none" /\ taken' = "none"
          /\ UNCHANGED <<tohost, fromhost, frame, htifPc, text, printed>>
      BY <1>9 DEF Htif!Serve, Htif!program
    <2>2. /\ taken = th /\ tohost = "none" /\ answers = 0 /\ ~fromhost /\ ~Served
          /\ htifPc[th] = "answer" /\ (IsWrite \/ IsExit)
      BY <2>1 DEF HtifAloneInv, None, One, Served
    <2>3. CASE IsWrite
      <3>1. frame[th].what = "write" /\ text[th] # <<>> /\ frame[th].c = Head(text[th])
        BY <2>3 DEF IsWrite
      <3>2. frame[th] # Htif!Gone
        BY <3>1 DEF Htif!Gone
      <3>3. screen' = Append(screen, Head(text[th])) /\ answers' = 1 /\ status' = status
        BY <1>9, <2>2, <3>1, <3>2 DEF Htif!Serve
      <3>4. Head(text[th]) \in Chars /\ screen \in Seq(Chars)
        BY <1>0, <3>1 DEF HtifAloneType
      <3>5. screen' \in Seq(Chars)
        BY <3>3, <3>4
      <3>6. HtifAloneType'
        BY <1>0, <2>1, <3>3, <3>5 DEF HtifAloneType
      <3>7. Printed'
        <4>1. Served'
          BY <3>3 DEF Served
        <4>. QED  BY <1>a, <2>1, <2>2, <3>3, <4>1 DEF Printed
      <3>8. One'
        BY <2>1, <2>2, <3>3 DEF One
      <3>9. IsWrite'
        BY <2>1, <2>3 DEF IsWrite
      <3>. QED  BY <2>1, <2>2, <3>3, <3>6, <3>7, <3>8, <3>9 DEF HtifAloneInv, Htif!Running
    <2>4. CASE IsExit
      <3>1. frame[th].what = "exit"
        BY <2>4 DEF IsExit
      <3>2. status' = frame[th].code /\ UNCHANGED <<screen, answers>>
        BY <1>9, <2>2, <3>1 DEF Htif!Serve
      <3>3. status' \in {"passed", "failed"}
        BY <2>2, <2>4, <3>2 DEF IsExit
      <3>4. None' /\ IsExit'
        BY <2>1, <2>2, <2>4, <3>2 DEF None, IsExit, Served
      <3>5. HtifAloneType'
        BY <1>0, <2>1, <3>2, <3>3 DEF HtifAloneType
      <3>6. Printed'
        BY <1>a, <2>1, <3>2 DEF Printed, Served
      <3>. QED  BY <2>1, <2>2, <3>3, <3>4, <3>5, <3>6 DEF HtifAloneInv, Htif!Running
    <2>. QED  BY <2>2, <2>3, <2>4
  <1>10. ASSUME Htif!Acknowledge PROVE HtifAloneInv'
    <2>1. /\ Htif!Running /\ answers > 0 /\ ~fromhost
          /\ fromhost' = TRUE /\ answers' = answers - 1
          /\ UNCHANGED <<tohost, frame, htifPc, text, printed, taken, screen, status>>
      BY <1>10 DEF Htif!Acknowledge, Htif!program
    <2>2. htifPc[th] = "answer" /\ One /\ IsWrite /\ Served
      BY <2>1 DEF HtifAloneInv, None, IsExit, Served
    <2>3. One'
      BY <2>1, <2>2 DEF One
    <2>4. HtifAloneType'
      BY <1>0, <2>1, <2>2 DEF HtifAloneType, One
    <2>5. Printed'
      BY <1>a, <2>1, <2>2 DEF Printed, Served
    <2>6. IsWrite'
      BY <2>1, <2>2 DEF IsWrite
    <2>. QED  BY <2>1, <2>2, <2>3, <2>4, <2>5, <2>6 DEF HtifAloneInv, Htif!Running
  <1>11. ASSUME UNCHANGED Htif!vars PROVE HtifAloneInv'
    BY <1>11 DEF Htif!vars, Htif!program, HtifAloneInv, HtifAloneType, Printed, Served, IsWrite, IsExit, None, One, Htif!Running
  <1>. QED
    BY <1>1, <1>2, <1>3, <1>4, <1>5, <1>6, <1>7, <1>8, <1>9, <1>10, <1>11 DEF Htif!Next, Htif!Step

LEMMA HtifAloneFollows ==
    ASSUME HtifAloneInv PROVE Htif!PrintedOnce /\ \A p \in Htif!Contexts : Htif!IsSuffix(text[p], printed)
  <1>. DEFINE th == "thread"
  <1>1. /\ text[th] \in Seq(Chars) /\ text["handler"] = <<>>
        /\ printed \in Seq(Chars) /\ Htif!Contexts = {"thread", "handler"}
    BY DEF HtifAloneInv, HtifAloneType, Htif!Contexts
  <1>2. PICK done \in Seq(Chars) :
            /\ printed = done \o text[th]
            /\ screen = IF Served THEN Append(done, Head(text[th])) ELSE done
    BY DEF HtifAloneInv, Printed
  <1>3. Served => text[th] # <<>>
    BY DEF HtifAloneInv, None, IsWrite, IsExit, Served
  <1>4. Htif!IsPrefix(screen, printed)
    <2>1. CASE Served
      <3>1. /\ text[th] # <<>> /\ Head(text[th]) \in Chars
            /\ Tail(text[th]) \in Seq(Chars)
        BY <1>1, <1>3, <2>1
      <3>2. Append(done, Head(text[th])) \in Seq(Chars)
        BY <3>1
      <3>3. printed = Append(done, Head(text[th])) \o Tail(text[th])
        BY <1>1, <1>2, <3>1, OneMore
      <3>. QED  BY <1>2, <2>1, <3>1, <3>2, <3>3, Prefix
    <2>2. CASE ~Served
      BY <1>1, <1>2, <2>2, Prefix
    <2>. QED  BY <2>1, <2>2
  <1>5. ASSUME htifPc[th] = "idle" \/ ~Htif!Running PROVE screen = printed
    <2>1. text[th] = <<>>
      BY <1>5 DEF HtifAloneInv, IsExit
    <2>. QED  BY <1>2, <1>3, <2>1, NothingMore
  <1>6. Htif!IsSuffix(text[th], printed)
    BY <1>1, <1>2, Suffix
  <1>7. Htif!IsSuffix(text["handler"], printed)
    <2>1. <<>> \in Seq(Chars) /\ printed \o <<>> = printed
      BY <1>1
    <2>. QED  BY <1>1, <2>1, Suffix
  <1>8. Htif!PrintedOnce
    BY <1>4, <1>5 DEF Htif!PrintedOnce
  <1>. QED  BY <1>1, <1>6, <1>7, <1>8

-----------------------------------------------------------------------------
(* The constructor of the PRCI.                                              *)

(* The PLLs that the constructor sets up, where, how, and to what factors.   *)
PrciBus == IF board = "fu540" THEN "none"
       ELSE IF "hfpclk" \in straps THEN "hfpclk"
       ELSE IF "cltx" \in straps THEN "cltx" ELSE "none"
PllsUsed == {"core", "gemgxl"} \cup ({"hfpclk", "cltx"} \cap {PrciBus})
JobOf(p) == IF p = "core" THEN 1
         ELSE IF p # "gemgxl" THEN 3
         ELSE IF PrciBus = "hfpclk" THEN 5 ELSE IF PrciBus = "cltx" THEN 4 ELSE 3
Way(p) == IF p = "core" \/ board = "fu540" THEN "direct" ELSE "inBypass"
FactorF(p) == IF p \in {"hfpclk", "cltx"} THEN 79 ELSE IF board = "fu540" THEN 59 ELSE 76
FactorQ(p) == IF p = "core" THEN Prci!CoreDivider(straps) ELSE IF p = "gemgxl" THEN 5 ELSE 4

(* The constructor is past stage k of the set-up of a PLL.                   *)
Past(p, k) == job > JobOf(p) \/ (job = JobOf(p) /\ stage > k)

IsSetUp(p) ==
    LET direct == Way(p) = "direct"
    IN /\ Past(p, IF direct THEN 1 ELSE 2) => pll[p].f = FactorF(p) /\ pll[p].q = FactorQ(p)
       /\ Past(p, IF direct THEN 1 ELSE 3) => ~pll[p].bypass
       /\ Past(p, IF direct THEN 2 ELSE 4) => pll[p].locked
       /\ job > JobOf(p) => pll[p].out

PrciInv ==
    /\ Prci!TypeOK
    /\ job <= Len(Prci!Jobs) => stage <= Len(Prci!Stages(Prci!Jobs[job].do))
    /\ \A p \in PllsUsed : IsSetUp(p)
    /\ core # "hfpclk"
    /\ pclk # "core" /\ (pclk = "hfpclk" => PrciBus = "hfpclk" /\ job > JobOf("hfpclk"))
    /\ "gemgxl" \in released => job > JobOf("gemgxl")
    /\ "cltx" \in released =>
          board = "fu740" /\ (PrciBus = "cltx" => job > JobOf("cltx"))

-----------------------------------------------------------------------------
(* What the jobs are, and when each PLL has its turn.                        *)

BoardIs == board \in {"fu540", "fu740"} /\ straps \in Prci!Straps

JobIs(i) ==
    LET j == Prci!Jobs[i]
    IN /\ j.do \in {"direct", "inBypass", "core", "pclk", "release"}
       /\ j.do \in {"direct", "inBypass"} =>
             /\ j.pll \in PllsUsed /\ i = JobOf(j.pll) /\ j.do = Way(j.pll)
             /\ j.f = FactorF(j.pll) /\ j.q = FactorQ(j.pll)
       /\ j.do = "core" => i > JobOf("core")
       /\ j.do = "pclk" => PrciBus = "hfpclk" /\ i > JobOf("hfpclk")
       /\ j.do = "release" =>
             j.pll \in {"gemgxl", "cltx"} /\ (j.pll = "gemgxl" => i > JobOf("gemgxl"))
             /\ (j.pll = "cltx" => board = "fu740" /\ (PrciBus = "cltx" => i > JobOf("cltx")))

LEMMA JobsAre ==
    ASSUME BoardIs
    PROVE  /\ Len(Prci!Jobs) \in 4 .. 7
           /\ \A i \in 1 .. Len(Prci!Jobs) : JobIs(i)
           /\ \A p \in PllsUsed :
                 /\ p \in Prci!Plls /\ JobOf(p) \in 1 .. Len(Prci!Jobs)
                 /\ Prci!Jobs[JobOf(p)].pll = p /\ Prci!Jobs[JobOf(p)].do = Way(p)
  <1>. USE DEF BoardIs
  <1>1. CASE board = "fu540"
    <2>1. /\ Len(Prci!Jobs) = 4
          /\ Prci!Jobs[1] = Prci!Job("direct", "core", 59, Prci!CoreDivider(straps))
          /\ Prci!Jobs[2] = Prci!Job("core", "core", 0, 0)
          /\ Prci!Jobs[3] = Prci!Job("direct", "gemgxl", 59, 5) /\ Prci!Jobs[4] = Prci!Job("release", "gemgxl", 0, 0)
      BY <1>1, SMT DEF Prci!Jobs, Prci!Fu540, Prci!Release
    <2>2. PrciBus = "none" /\ PllsUsed = {"core", "gemgxl"} /\ JobOf("core") = 1 /\ JobOf("gemgxl") = 3
      BY <1>1, SMT DEF PrciBus, PllsUsed, JobOf
    <2>3. \A i \in 1 .. 4 : JobIs(i)
      BY <1>1, <2>1, <2>2, SMT DEF JobIs, Prci!Job, Way, FactorF, FactorQ
    <2>. QED  BY <1>1, <2>1, <2>2, <2>3, SMT DEF Prci!Job, Way, Prci!Plls
  <1>2. CASE board = "fu740" /\ "hfpclk" \in straps
    <2>1. /\ Len(Prci!Jobs) = 7
          /\ Prci!Jobs[1] = Prci!Job("direct", "core", 76, Prci!CoreDivider(straps))
          /\ Prci!Jobs[2] = Prci!Job("core", "core", 0, 0)
          /\ Prci!Jobs[3] = Prci!Job("inBypass", "hfpclk", 79, 4) /\ Prci!Jobs[4] = Prci!Job("pclk", "hfpclk", 0, 0)
          /\ Prci!Jobs[5] = Prci!Job("inBypass", "gemgxl", 76, 5)
          /\ Prci!Jobs[6] = Prci!Job("release", "gemgxl", 0, 0) /\ Prci!Jobs[7] = Prci!Job("release", "cltx", 0, 0)
      BY <1>2, SMT DEF Prci!Jobs, Prci!Fu740, Prci!Release
    <2>2. /\ PrciBus = "hfpclk" /\ PllsUsed = {"core", "gemgxl", "hfpclk"}
          /\ JobOf("core") = 1 /\ JobOf("hfpclk") = 3 /\ JobOf("gemgxl") = 5
      <3>1. PrciBus = "hfpclk"
        BY <1>2, SMT DEF PrciBus
      <3>2. PllsUsed = {"core", "gemgxl", "hfpclk"}
        BY <3>1, Zenon DEF PllsUsed
      <3>. QED  BY <3>1, <3>2, SMT DEF JobOf
    <2>3. \A i \in 1 .. 7 : JobIs(i)
      BY <1>2, <2>1, <2>2, SMT DEF JobIs, Prci!Job, Way, FactorF, FactorQ
    <2>. QED  BY <1>2, <2>1, <2>2, <2>3, SMT DEF Prci!Job, Way, Prci!Plls
  <1>3. CASE board = "fu740" /\ "hfpclk" \notin straps /\ "cltx" \in straps
    <2>1. /\ Len(Prci!Jobs) = 6
          /\ Prci!Jobs[1] = Prci!Job("direct", "core", 76, Prci!CoreDivider(straps))
          /\ Prci!Jobs[2] = Prci!Job("core", "core", 0, 0)
          /\ Prci!Jobs[3] = Prci!Job("inBypass", "cltx", 79, 4) /\ Prci!Jobs[4] = Prci!Job("inBypass", "gemgxl", 76, 5)
          /\ Prci!Jobs[5] = Prci!Job("release", "gemgxl", 0, 0) /\ Prci!Jobs[6] = Prci!Job("release", "cltx", 0, 0)
      BY <1>3, SMT DEF Prci!Jobs, Prci!Fu740, Prci!Release
    <2>2. /\ PrciBus = "cltx" /\ PllsUsed = {"core", "gemgxl", "cltx"}
          /\ JobOf("core") = 1 /\ JobOf("cltx") = 3 /\ JobOf("gemgxl") = 4
      <3>1. PrciBus = "cltx"
        BY <1>3, SMT DEF PrciBus
      <3>2. PllsUsed = {"core", "gemgxl", "cltx"}
        BY <3>1, Zenon DEF PllsUsed
      <3>. QED  BY <3>1, <3>2, SMT DEF JobOf
    <2>3. \A i \in 1 .. 6 : JobIs(i)
      BY <1>3, <2>1, <2>2, SMT DEF JobIs, Prci!Job, Way, FactorF, FactorQ
    <2>. QED  BY <1>3, <2>1, <2>2, <2>3, SMT DEF Prci!Job, Way, Prci!Plls
  <1>4. CASE board = "fu740" /\ "hfpclk" \notin straps /\ "cltx" \notin straps
    <2>1. /\ Len(Prci!Jobs) = 5
          /\ Prci!Jobs[1] = Prci!Job("direct", "core", 76, Prci!CoreDivider(straps))
          /\ Prci!Jobs[2] = Prci!Job("core", "core", 0, 0) /\ Prci!Jobs[3] = Prci!Job("inBypass", "gemgxl", 76, 5)
          /\ Prci!Jobs[4] = Prci!Job("release", "gemgxl", 0, 0) /\ Prci!Jobs[5] = Prci!Job("release", "cltx", 0, 0)
      BY <1>4, SMT DEF Prci!Jobs, Prci!Fu740, Prci!Release
    <2>2. PrciBus = "none" /\ PllsUsed = {"core", "gemgxl"} /\ JobOf("core") = 1 /\ JobOf("gemgxl") = 3
      BY <1>4, SMT DEF PrciBus, PllsUsed, JobOf
    <2>3. \A i \in 1 .. 5 : JobIs(i)
      BY <1>4, <2>1, <2>2, SMT DEF JobIs, Prci!Job, Way, FactorF, FactorQ
    <2>. QED  BY <1>4, <2>1, <2>2, <2>3, SMT DEF Prci!Job, Way, Prci!Plls
  <1>. QED  BY <1>1, <1>2, <1>3, <1>4

(* Where in its job the constructor is when it takes a step.                 *)
LEMMA StagesAre ==
    /\ Len(Prci!Stages("direct")) = 3 /\ Len(Prci!Stages("inBypass")) = 5
    /\ \A d \in {"core", "pclk", "release"} : Prci!Stages(d) = <<d>> /\ Len(Prci!Stages(d)) = 1
  BY SMT DEF Prci!Stages, Prci!Direct, Prci!InBypass

StageIs(what, d, k) ==
    \/ d = "direct" /\ <<what, k>> \in {<<"write", 1>>, <<"wait", 2>>, <<"out", 3>>}
    \/ d = "inBypass" /\ <<what, k>> \in {<<"bypass", 1>>, <<"hold", 2>>, <<"unbypass", 3>>,
                                         <<"wait", 4>>, <<"out", 5>>}
    \/ d \in {"core", "pclk", "release"} /\ what = d /\ k = 1

LEMMA StepIs ==
    ASSUME NEW d \in {"direct", "inBypass", "core", "pclk", "release"},
           NEW k \in 1 .. Len(Prci!Stages(d)), NEW what, Prci!Stages(d)[k] = what
    PROVE  StageIs(what, d, k)
  <1>1. CASE d = "direct"
    <2>1. Prci!Stages(d) = <<"write", "wait", "out">>
      BY <1>1, Zenon DEF Prci!Stages, Prci!Direct
    <2>2. k \in {1, 2, 3}
      BY <2>1, SMT
    <2>3. Prci!Stages(d)[1] = "write" /\ Prci!Stages(d)[2] = "wait" /\ Prci!Stages(d)[3] = "out"
      BY <2>1, SMT
    <2>4. CASE k = 1
      <3>1. what = "write"
        BY <2>3, <2>4
      <3>. QED  BY <1>1, <2>4, <3>1, SMT DEF StageIs
    <2>5. CASE k = 2
      BY <1>1, <2>3, <2>5, Zenon DEF StageIs
    <2>6. CASE k = 3
      BY <1>1, <2>3, <2>6, Zenon DEF StageIs
    <2>. QED  BY <2>2, <2>4, <2>5, <2>6
  <1>2. CASE d = "inBypass"
    <2>1. Prci!Stages(d) = <<"bypass", "hold", "unbypass", "wait", "out">>
      BY <1>2, SMT DEF Prci!Stages, Prci!InBypass
    <2>2. k \in {1, 2, 3, 4, 5}
      BY <2>1, SMT
    <2>3. /\ Prci!Stages(d)[1] = "bypass" /\ Prci!Stages(d)[2] = "hold" /\ Prci!Stages(d)[3] = "unbypass"
          /\ Prci!Stages(d)[4] = "wait" /\ Prci!Stages(d)[5] = "out"
      BY <2>1, SMT
    <2>4. CASE k = 1
      <3>1. what = "bypass"
        BY <2>3, <2>4
      <3>. QED  BY <1>2, <2>4, <3>1, SMT DEF StageIs
    <2>5. CASE k = 2
      BY <1>2, <2>3, <2>5, Zenon DEF StageIs
    <2>6. CASE k = 3
      <3>1. what = "unbypass"
        BY <2>3, <2>6
      <3>. QED  BY <1>2, <2>6, <3>1, SMT DEF StageIs
    <2>7. CASE k = 4
      BY <1>2, <2>3, <2>7, Zenon DEF StageIs
    <2>8. CASE k = 5
      BY <1>2, <2>3, <2>8, Zenon DEF StageIs
    <2>. QED  BY <2>2, <2>4, <2>5, <2>6, <2>7, <2>8
  <1>3. CASE d \in {"core", "pclk", "release"}
    BY <1>3, StagesAre, SMT DEF StageIs
  <1>. QED  BY <1>1, <1>2, <1>3

-----------------------------------------------------------------------------
(* A step of the constructor is the one of its job and its stage, and leaves *)
(* a PLL that has had its turn, or whose turn is to come, where it was.      *)
LEMMA RunIs ==
    ASSUME PrciInv, NEW what, Prci!Run(what), UNCHANGED <<board, straps>>
    PROVE  /\ job \in 1 .. Len(Prci!Jobs) /\ JobIs(job) /\ StageIs(what, Prci!Jobs[job].do, stage)
           /\ job' \in 1 .. Len(Prci!Jobs) + 1 /\ stage' \in 1 .. 5 /\ job' >= job
           /\ Prci!Jobs' = Prci!Jobs /\ PllsUsed' = PllsUsed
           /\ (job' <= Len(Prci!Jobs) => stage' <= Len(Prci!Stages(Prci!Jobs[job'].do)))
           /\ \A p \in Prci!Plls : JobOf(p)' = JobOf(p) /\ Way(p)' = Way(p) /\ FactorF(p)' = FactorF(p) /\ FactorQ(p)' = FactorQ(p)
  <1>. DEFINE d == Prci!Jobs[job].do
  <1>1. BoardIs /\ Len(Prci!Jobs) \in 4 .. 7 /\ job \in 1 .. Len(Prci!Jobs) /\ JobIs(job)
    BY JobsAre, SMT DEF PrciInv, Prci!TypeOK, BoardIs, Prci!Run
  <1>2. d \in {"direct", "inBypass", "core", "pclk", "release"}
    BY <1>1 DEF JobIs
  <1>3. stage \in 1 .. Len(Prci!Stages(d)) /\ Len(Prci!Stages(d)) \in 1 .. 5
    BY <1>1, <1>2, StagesAre, SMT DEF PrciInv, Prci!TypeOK
  <1>4. Prci!Stages(d)[stage] = what
    BY DEF Prci!Run
  <1>5. StageIs(what, d, stage)
    <2>. HIDE DEF d
    <2>. QED  BY <1>2, <1>3, <1>4, StepIs
  <1>6. Prci!Jobs' = Prci!Jobs
    BY DEF Prci!Jobs
  <1>7. IF stage < Len(Prci!Stages(d)) THEN stage' = stage + 1 /\ job' = job
                                  ELSE stage' = 1 /\ job' = job + 1
    BY DEF Prci!Run
  <1>8. job' \in 1 .. Len(Prci!Jobs) + 1 /\ stage' \in 1 .. 5 /\ job' >= job
    <2>. DEFINE n == Len(Prci!Stages(d))  m == Len(Prci!Jobs)
    <2>1. stage \in 1 .. n /\ n \in 1 .. 5 /\ m \in 4 .. 7 /\ job \in 1 .. m
      BY <1>1, <1>3
    <2>2. IF stage < n THEN stage' = stage + 1 /\ job' = job ELSE stage' = 1 /\ job' = job + 1
      BY <1>7
    <2>. HIDE DEF n, m
    <2>3. job' \in 1 .. m + 1 /\ stage' \in 1 .. 5 /\ job' >= job
      BY <2>1, <2>2, SMT
    <2>. QED  BY <2>3 DEF m
  <1>9. ASSUME job' <= Len(Prci!Jobs) PROVE stage' <= Len(Prci!Stages(Prci!Jobs[job'].do))
    <2>1. CASE stage < Len(Prci!Stages(d))
      BY <2>1, <1>3, <1>7, SMT
    <2>2. CASE ~(stage < Len(Prci!Stages(d)))
      <3>1. job' \in 1 .. Len(Prci!Jobs)
        BY <1>1, <1>8, <1>9, SMT
      <3>2. Prci!Jobs[job'].do \in {"direct", "inBypass", "core", "pclk", "release"}
        BY <1>1, <3>1, JobsAre DEF JobIs
      <3>3. Len(Prci!Stages(Prci!Jobs[job'].do)) \in 1 .. 5
        BY <3>2, StagesAre, SMT
      <3>4. stage' = 1
        BY <2>2, <1>7
      <3>. DEFINE n == Len(Prci!Stages(Prci!Jobs[job'].do))
      <3>5. n \in 1 .. 5
        BY <3>3
      <3>. HIDE DEF n
      <3>6. stage' <= n
        BY <3>4, <3>5, SMT
      <3>. QED  BY <3>6 DEF n
    <2>. QED  BY <2>1, <2>2
  <1>10. PllsUsed' = PllsUsed /\ PrciBus' = PrciBus
    BY DEF PllsUsed, PrciBus
  <1>11. \A p \in Prci!Plls : JobOf(p)' = JobOf(p) /\ Way(p)' = Way(p) /\ FactorF(p)' = FactorF(p) /\ FactorQ(p)' = FactorQ(p)
    BY <1>10 DEF JobOf, Way, FactorF, FactorQ, Prci!CoreDivider
  <1>. QED  BY <1>1, <1>5, <1>6, <1>8, <1>9, <1>10, <1>11

LEMMA OthersRest ==
    ASSUME PrciInv, NEW what, Prci!Run(what), UNCHANGED <<board, straps>>, NEW p \in PllsUsed,
           Prci!Jobs[job].do \notin {"direct", "inBypass"} \/ p # Prci!Jobs[job].pll, pll'[p] = pll[p]
    PROVE  IsSetUp(p)'
  <1>1. JobOf(p) # job
    <2>1. BoardIs
      BY DEF PrciInv, Prci!TypeOK, BoardIs
    <2>2. Prci!Jobs[JobOf(p)].pll = p /\ Prci!Jobs[JobOf(p)].do = Way(p)
      BY <2>1, JobsAre
    <2>. QED  BY <2>2 DEF Way
  <1>2. /\ job \in 1 .. Len(Prci!Jobs) /\ Len(Prci!Jobs) \in 4 .. 7 /\ p \in Prci!Plls
        /\ JobOf(p) \in 1 .. Len(Prci!Jobs) /\ stage \in 1 .. 5
    BY RunIs, JobsAre DEF PrciInv, Prci!TypeOK, BoardIs
  <1>3. job' = job \/ (job' = job + 1 /\ stage' = 1)
    BY DEF Prci!Run
  <1>4. JobOf(p)' = JobOf(p) /\ Way(p)' = Way(p) /\ FactorF(p)' = FactorF(p) /\ FactorQ(p)' = FactorQ(p)
    BY <1>2, RunIs
  <1>5. job' > JobOf(p) => job > JobOf(p)
    BY <1>1, <1>2, <1>3, SMT
  <1>6. \A k \in 1 .. 4 : (job' > JobOf(p) \/ (job' = JobOf(p) /\ stage' > k)) => job > JobOf(p)
    BY <1>1, <1>2, <1>3, SMT
  <1>7. \A k \in 1 .. 4 : Past(p, k)' => Past(p, k)
    BY <1>4, <1>6 DEF Past
  <1>8. 1 \in 1 .. 4 /\ 2 \in 1 .. 4 /\ 3 \in 1 .. 4 /\ 4 \in 1 .. 4
    BY SMT
  <1>9. IsSetUp(p)
    BY DEF PrciInv
  <1>. QED  BY <1>4, <1>5, <1>7, <1>8, <1>9 DEF IsSetUp

(* A PLL in its turn: the job, the stage, and what the stage has to do.      *)
LEMMA TurnIs ==
    ASSUME PrciInv, NEW what, Prci!Run(what), UNCHANGED <<board, straps>>,
           what \in {"write", "bypass", "hold", "unbypass", "wait", "out"}
    PROVE  LET p == Prci!Jobs[job].pll
               direct == Way(p) = "direct"
           IN /\ p \in PllsUsed /\ p \in Prci!Plls /\ job = JobOf(p) /\ Prci!Jobs[job].do = Way(p)
              /\ Prci!Jobs[job].f = FactorF(p) /\ Prci!Jobs[job].q = FactorQ(p)
              /\ IF direct THEN <<what, stage>> \in {<<"write", 1>>, <<"wait", 2>>, <<"out", 3>>}
                 ELSE /\ Way(p) = "inBypass"
                      /\ <<what, stage>> \in {<<"bypass", 1>>, <<"hold", 2>>, <<"unbypass", 3>>,
                                              <<"wait", 4>>, <<"out", 5>>}
              /\ IF stage = (IF direct THEN 3 ELSE 5) THEN job' = job + 1 /\ stage' = 1
                                                     ELSE job' = job /\ stage' = stage + 1
  <1>. DEFINE d == Prci!Jobs[job].do  p == Prci!Jobs[job].pll
  <1>1. JobIs(job) /\ StageIs(what, d, stage)
    BY RunIs
  <1>2. d \in {"direct", "inBypass"}
    BY <1>1 DEF StageIs
  <1>3. /\ p \in PllsUsed /\ job = JobOf(p) /\ d = Way(p)
        /\ Prci!Jobs[job].f = FactorF(p) /\ Prci!Jobs[job].q = FactorQ(p)
    BY <1>1, <1>2 DEF JobIs
  <1>4. p \in Prci!Plls
    BY <1>3, JobsAre DEF PrciInv, Prci!TypeOK, BoardIs
  <1>5. IF d = "direct" THEN <<what, stage>> \in {<<"write", 1>>, <<"wait", 2>>, <<"out", 3>>}
        ELSE <<what, stage>> \in {<<"bypass", 1>>, <<"hold", 2>>, <<"unbypass", 3>>,
                                  <<"wait", 4>>, <<"out", 5>>}
    BY <1>1, <1>2 DEF StageIs
  <1>6. stage \in 1 .. 5 /\ Len(Prci!Stages(d)) = IF d = "direct" THEN 3 ELSE 5
    BY <1>2, StagesAre DEF PrciInv, Prci!TypeOK
  <1>7. IF stage < Len(Prci!Stages(d)) THEN stage' = stage + 1 /\ job' = job
                                  ELSE stage' = 1 /\ job' = job + 1
    BY DEF Prci!Run
  <1>8. stage <= Len(Prci!Stages(d))
    BY RunIs, SMT DEF PrciInv
  <1>9. IF stage = (IF d = "direct" THEN 3 ELSE 5) THEN job' = job + 1 /\ stage' = 1
                                                  ELSE job' = job /\ stage' = stage + 1
    <2>. DEFINE n == Len(Prci!Stages(d))
    <2>1. stage \in 1 .. 5 /\ n \in {3, 5} /\ n = (IF d = "direct" THEN 3 ELSE 5) /\ stage <= n
      BY <1>6, <1>8
    <2>2. IF stage < n THEN stage' = stage + 1 /\ job' = job ELSE stage' = 1 /\ job' = job + 1
      BY <1>7
    <2>. HIDE DEF n, d
    <2>3. stage < n <=> stage # n
      BY <2>1, SMT
    <2>. QED  BY <2>1, <2>2, <2>3
  <1>. QED  BY <1>2, <1>3, <1>4, <1>5, <1>9

(* The PLL in its turn is set up as far as the stages it has been through.   *)
LEMMA TurnSetsUp ==
    ASSUME PrciInv, NEW what, Prci!Run(what), UNCHANGED <<board, straps>>,
           what \in {"write", "bypass", "hold", "unbypass", "wait", "out"},
           NEW p, p = Prci!Jobs[job].pll,
           what \in {"write", "hold"} =>
               pll'[p].f = Prci!Jobs[job].f /\ pll'[p].q = Prci!Jobs[job].q,
           what \notin {"write", "hold"} => pll'[p].f = pll[p].f /\ pll'[p].q = pll[p].q,
           what \in {"write", "unbypass"} => ~pll'[p].bypass,
           what \in {"wait", "out"} => pll'[p].bypass = pll[p].bypass,
           what = "wait" => pll'[p].locked,
           what = "out" => pll'[p].locked = pll[p].locked /\ pll'[p].out
    PROVE  IsSetUp(p)'
  <1>. DEFINE direct == Way(p) = "direct"
  <1>1. /\ p \in PllsUsed /\ p \in Prci!Plls /\ job = JobOf(p)
        /\ Prci!Jobs[job].f = FactorF(p) /\ Prci!Jobs[job].q = FactorQ(p)
        /\ IF direct THEN <<what, stage>> \in {<<"write", 1>>, <<"wait", 2>>, <<"out", 3>>}
           ELSE <<what, stage>> \in {<<"bypass", 1>>, <<"hold", 2>>, <<"unbypass", 3>>,
                                     <<"wait", 4>>, <<"out", 5>>}
        /\ IF stage = (IF direct THEN 3 ELSE 5) THEN job' = job + 1 /\ stage' = 1
                                               ELSE job' = job /\ stage' = stage + 1
    BY TurnIs
  <1>2. /\ JobOf(p)' = JobOf(p) /\ Way(p)' = Way(p) /\ FactorF(p)' = FactorF(p) /\ FactorQ(p)' = FactorQ(p)
        /\ job \in Int
    BY <1>1, RunIs
  <1>3. IsSetUp(p)
    BY <1>1 DEF PrciInv
  <1>4. IsSetUp(p)' =
          LET past(k) == job' > JobOf(p) \/ (job' = JobOf(p) /\ stage' > k)
          IN /\ past(IF direct THEN 1 ELSE 2) => pll'[p].f = FactorF(p) /\ pll'[p].q = FactorQ(p)
             /\ past(IF direct THEN 1 ELSE 3) => ~pll'[p].bypass
             /\ past(IF direct THEN 2 ELSE 4) => pll'[p].locked
             /\ job' > JobOf(p) => pll'[p].out
    BY <1>2, Zenon DEF IsSetUp, Past
  <1>7. /\ ~(2 > 2) /\ ~(2 > 3) /\ ~(2 > 4) /\ ~(3 > 3) /\ ~(3 > 4) /\ ~(4 > 4)
        /\ (job' = JobOf(p) => ~(job' > JobOf(p)))
    BY <1>1, <1>2, SMT
  <1>5. CASE direct
    <2>1. (what = "write" /\ stage = 1) \/ (what = "wait" /\ stage = 2) \/ (what = "out" /\ stage = 3)
      BY <1>1, <1>5
    <2>2. CASE what = "write" /\ stage = 1
      <3>1. job' = JobOf(p) /\ stage' = 2
        BY <1>1, <1>5, <2>2, SMT
      <3>. QED  BY <1>1, <1>4, <1>5, <1>7, <2>2, <3>1, Zenon
    <2>3. CASE what = "wait" /\ stage = 2
      <3>1. job' = JobOf(p) /\ stage' = 3
        BY <1>1, <1>5, <2>3, SMT
      <3>2. pll[p].f = FactorF(p) /\ pll[p].q = FactorQ(p) /\ ~pll[p].bypass
        BY <1>1, <1>3, <1>5, <2>3, SMT DEF IsSetUp, Past
      <3>. QED  BY <1>1, <1>4, <1>5, <1>7, <2>3, <3>1, <3>2, Zenon
    <2>4. CASE what = "out" /\ stage = 3
      <3>1. pll[p].f = FactorF(p) /\ pll[p].q = FactorQ(p) /\ ~pll[p].bypass /\ pll[p].locked
        BY <1>1, <1>3, <1>5, <2>4, SMT DEF IsSetUp, Past
      <3>. QED  BY <1>4, <2>4, <3>1, Zenon
    <2>. QED  BY <2>1, <2>2, <2>3, <2>4
  <1>6. CASE ~direct
    <2>1. \/ (what = "bypass" /\ stage = 1) \/ (what = "hold" /\ stage = 2)
          \/ (what = "unbypass" /\ stage = 3) \/ (what = "wait" /\ stage = 4)
          \/ (what = "out" /\ stage = 5)
      BY <1>1, <1>6
    <2>2. CASE what = "bypass" /\ stage = 1
      <3>1. job' = JobOf(p) /\ stage' = 2
        BY <1>1, <1>6, <2>2, SMT
      <3>. QED  BY <1>1, <1>4, <1>6, <1>7, <2>2, <3>1, Zenon
    <2>3. CASE what = "hold" /\ stage = 2
      <3>1. job' = JobOf(p) /\ stage' = 3
        BY <1>1, <1>6, <2>3, SMT
      <3>. QED  BY <1>1, <1>4, <1>6, <1>7, <2>3, <3>1, Zenon
    <2>4. CASE what = "unbypass" /\ stage = 3
      <3>1. job' = JobOf(p) /\ stage' = 4
        BY <1>1, <1>6, <2>4, SMT
      <3>2. pll[p].f = FactorF(p) /\ pll[p].q = FactorQ(p)
        BY <1>1, <1>3, <1>6, <2>4, SMT DEF IsSetUp, Past
      <3>. QED  BY <1>1, <1>4, <1>6, <1>7, <2>4, <3>1, <3>2, Zenon
    <2>5. CASE what = "wait" /\ stage = 4
      <3>1. job' = JobOf(p) /\ stage' = 5
        BY <1>1, <1>6, <2>5, SMT
      <3>2. pll[p].f = FactorF(p) /\ pll[p].q = FactorQ(p) /\ ~pll[p].bypass
        BY <1>1, <1>3, <1>6, <2>5, SMT DEF IsSetUp, Past
      <3>. QED  BY <1>1, <1>4, <1>6, <1>7, <2>5, <3>1, <3>2, Zenon
    <2>6. CASE what = "out" /\ stage = 5
      <3>1. pll[p].f = FactorF(p) /\ pll[p].q = FactorQ(p) /\ ~pll[p].bypass /\ pll[p].locked
        BY <1>1, <1>3, <1>6, <2>6, SMT DEF IsSetUp, Past
      <3>. QED  BY <1>4, <2>6, <3>1, Zenon
    <2>. QED  BY <2>1, <2>2, <2>3, <2>4, <2>5, <2>6
  <1>. QED  BY <1>5, <1>6

-----------------------------------------------------------------------------
PllRegisters == [f : 0 .. 511, q : 0 .. 7, bypass : BOOLEAN, locked : BOOLEAN, out : BOOLEAN]

LEMMA PrciInitially ==
    Prci!Init => PrciInv
  <1>. SUFFICES ASSUME Prci!Init PROVE PrciInv
    OBVIOUS
  <1>1. /\ BoardIs /\ job = 1 /\ stage = 1
        /\ released = {} /\ core \in {"hfxin", "core"} /\ pclk = "hfxin"
    BY DEF Prci!Init, BoardIs
  <1>2. Prci!Unset \in PllRegisters
    <2>1. 31 \in 0 .. 511 /\ 3 \in 0 .. 7
      BY SMT
    <2>. QED  BY <2>1, Zenon DEF Prci!Unset, PllRegisters
  <1>a. pll \in [Prci!Plls -> PllRegisters]
    <2>. DEFINE locked == [Prci!Unset EXCEPT !.bypass = FALSE, !.locked = TRUE, !.out = TRUE]
    <2>1. locked \in PllRegisters
      BY <1>2, ZenonT(60) DEF PllRegisters
    <2>2. PICK start \in {"reset", "running"} :
             pll = [p \in Prci!Plls |-> IF start = "running" /\ p = "core" THEN locked ELSE Prci!Unset]
      BY DEF Prci!Init
    <2>. HIDE DEF locked
    <2>. QED  BY <1>2, <2>1, <2>2
  <1>3. Len(Prci!Jobs) \in 4 .. 7 /\ \A p \in PllsUsed : JobOf(p) \in 1 .. Len(Prci!Jobs)
    BY <1>1, JobsAre
  <1>4. job \in 1 .. Len(Prci!Jobs) + 1 /\ stage \in 1 .. 5
    BY <1>1, <1>3, SMT
  <1>5. Prci!TypeOK
    <2>1. pll \in [Prci!Plls -> PllRegisters]
      BY <1>a
    <2>2. {core, pclk} \subseteq {"hfxin", "core", "hfpclk"} /\ released \subseteq {"gemgxl", "cltx"}
      BY <1>1
    <2>. QED  BY <1>1, <1>4, <2>1, <2>2, Zenon DEF Prci!TypeOK, BoardIs, PllRegisters
  <1>6. stage <= Len(Prci!Stages(Prci!Jobs[job].do))
    <2>1. 1 \in 1 .. Len(Prci!Jobs)
      BY <1>3, SMT
    <2>2. Prci!Jobs[1].do \in {"direct", "inBypass", "core", "pclk", "release"}
      BY <1>1, <2>1, JobsAre DEF JobIs
    <2>3. Len(Prci!Stages(Prci!Jobs[1].do)) \in {1, 3, 5}
      BY <2>2, StagesAre
    <2>4. 1 <= Len(Prci!Stages(Prci!Jobs[1].do))
      <3>. DEFINE len == Len(Prci!Stages(Prci!Jobs[1].do))
      <3>. HIDE DEF len
      <3>1. len \in {1, 3, 5}
        BY <2>3 DEF len
      <3>2. 1 <= len
        BY <3>1, SMT
      <3>. QED  BY <3>2 DEF len
    <2>. QED  BY <1>1, <2>4, Zenon
  <1>7. ASSUME NEW p \in PllsUsed PROVE IsSetUp(p)
    <2>1. ~(1 > JobOf(p)) /\ ~(1 > 1) /\ ~(1 > 2) /\ ~(1 > 3) /\ ~(1 > 4)
      BY <1>3, SMT
    <2>. QED  BY <1>1, <2>1, Zenon DEF IsSetUp, Past
  <1>. QED  BY <1>1, <1>5, <1>6, <1>7, Zenon DEF PrciInv

(* What writing the registers of a PLL does.                                 *)
LEMMA PrciBypassWritten ==
    ASSUME NEW r \in PllRegisters, NEW b \in BOOLEAN
    PROVE  LET s == [r EXCEPT !.bypass = b]
           IN s \in PllRegisters /\ s.bypass = b /\ s.f = r.f /\ s.q = r.q
  <1>1. [r EXCEPT !.bypass = b] \in PllRegisters
    BY ZenonT(60) DEF PllRegisters
  <1>. QED  BY <1>1, Zenon DEF PllRegisters

LEMMA OutWritten ==
    ASSUME NEW r \in PllRegisters, NEW b \in BOOLEAN
    PROVE  LET s == [r EXCEPT !.out = b]
           IN /\ s \in PllRegisters /\ s.out = b /\ s.bypass = r.bypass
              /\ s.locked = r.locked /\ s.f = r.f /\ s.q = r.q
  <1>1. [r EXCEPT !.out = b] \in PllRegisters
    BY ZenonT(60) DEF PllRegisters
  <1>. QED  BY <1>1, Zenon DEF PllRegisters

LEMMA LockWritten ==
    ASSUME NEW r \in PllRegisters, NEW b \in BOOLEAN
    PROVE  LET s == [r EXCEPT !.locked = b]
           IN /\ s \in PllRegisters /\ s.locked = b /\ s.bypass = r.bypass
              /\ s.out = r.out /\ s.f = r.f /\ s.q = r.q
  <1>1. [r EXCEPT !.locked = b] \in PllRegisters
    BY ZenonT(60) DEF PllRegisters
  <1>. QED  BY <1>1, Zenon DEF PllRegisters

LEMMA WrittenIs ==
    ASSUME pll \in [Prci!Plls -> PllRegisters], NEW p \in Prci!Plls, NEW f \in 0 .. 511, NEW q \in 0 .. 7,
           NEW b \in BOOLEAN, pll' = Prci!Written(p, f, q, b)
    PROVE  /\ pll' \in [Prci!Plls -> PllRegisters] /\ \A x \in Prci!Plls \ {p} : pll'[x] = pll[x]
           /\ pll'[p].f = f /\ pll'[p].q = q /\ pll'[p].bypass = b
  <1>. DEFINE locked == pll[p].locked /\ pll[p].f = f /\ pll[p].q = q
              s == [f |-> f, q |-> q, bypass |-> b, locked |-> locked, out |-> pll[p].out]
  <1>1. locked \in BOOLEAN /\ pll[p].out \in BOOLEAN
    BY DEF PllRegisters
  <1>2. s \in PllRegisters /\ s.f = f /\ s.q = q /\ s.bypass = b
    <2>. HIDE DEF locked
    <2>. QED  BY <1>1, Zenon DEF PllRegisters
  <1>3. pll' = [pll EXCEPT ![p] = s]
    BY Zenon DEF Prci!Written
  <1>. HIDE DEF s
  <1>. QED  BY <1>2, <1>3, Zenon

LEMMA FlagsAre ==
    ASSUME pll \in [Prci!Plls -> PllRegisters], NEW p \in Prci!Plls, NEW b \in BOOLEAN
    PROVE  /\ LET l == [pll EXCEPT ![p].bypass = b]
              IN /\ l \in [Prci!Plls -> PllRegisters] /\ \A x \in Prci!Plls \ {p} : l[x] = pll[x]
                 /\ l[p].bypass = b /\ l[p].f = pll[p].f /\ l[p].q = pll[p].q
           /\ LET l == [pll EXCEPT ![p].out = b]
              IN /\ l \in [Prci!Plls -> PllRegisters] /\ \A x \in Prci!Plls \ {p} : l[x] = pll[x]
                 /\ l[p].out = b /\ l[p].bypass = pll[p].bypass /\ l[p].locked = pll[p].locked
                 /\ l[p].f = pll[p].f /\ l[p].q = pll[p].q
           /\ LET l == [pll EXCEPT ![p].locked = b]
              IN /\ l \in [Prci!Plls -> PllRegisters] /\ \A x \in Prci!Plls \ {p} : l[x] = pll[x]
                 /\ l[p].locked = b /\ l[p].bypass = pll[p].bypass /\ l[p].out = pll[p].out
                 /\ l[p].f = pll[p].f /\ l[p].q = pll[p].q
  <1>2. pll[p] \in PllRegisters
    OBVIOUS
  <1>3. /\ [pll EXCEPT ![p].bypass = b] = [pll EXCEPT ![p] = [pll[p] EXCEPT !.bypass = b]]
        /\ [pll EXCEPT ![p].out = b] = [pll EXCEPT ![p] = [pll[p] EXCEPT !.out = b]]
        /\ [pll EXCEPT ![p].locked = b] = [pll EXCEPT ![p] = [pll[p] EXCEPT !.locked = b]]
    BY Zenon
  <1>4. ASSUME NEW s \in PllRegisters
        PROVE  LET l == [pll EXCEPT ![p] = s]
               IN l \in [Prci!Plls -> PllRegisters] /\ l[p] = s /\ \A x \in Prci!Plls \ {p} : l[x] = pll[x]
    BY Zenon
  <1>. DEFINE r == pll[p]
  <1>5. LET s == [r EXCEPT !.bypass = b]
        IN s \in PllRegisters /\ s.bypass = b /\ s.f = r.f /\ s.q = r.q
    BY <1>2, PrciBypassWritten, Zenon
  <1>6. LET s == [r EXCEPT !.out = b]
        IN /\ s \in PllRegisters /\ s.out = b /\ s.bypass = r.bypass
           /\ s.locked = r.locked /\ s.f = r.f /\ s.q = r.q
    BY <1>2, OutWritten, Zenon
  <1>7. LET s == [r EXCEPT !.locked = b]
        IN /\ s \in PllRegisters /\ s.locked = b /\ s.bypass = r.bypass
           /\ s.out = r.out /\ s.f = r.f /\ s.q = r.q
    BY <1>2, LockWritten, Zenon
  <1>. QED  BY <1>3, <1>4, <1>5, <1>6, <1>7, Zenon

LEMMA FactorsAre ==
    ASSUME NEW p \in PllsUsed
    PROVE  FactorF(p) \in 0 .. 511 /\ FactorQ(p) \in 0 .. 7
  BY SMTT(40) DEF FactorF, FactorQ, Prci!CoreDivider

LEMMA ConfigureIs ==
    ASSUME PrciInv, Prci!Configure
    PROVE  \E what \in {"write", "bypass", "hold", "unbypass", "wait", "out"} :
              LET p == Prci!Jobs[job].pll
              IN /\ Prci!Run(what)
                 /\ pll' \in [Prci!Plls -> PllRegisters] /\ \A x \in Prci!Plls \ {p} : pll'[x] = pll[x]
                 /\ what \in {"write", "hold"} =>
                       pll'[p].f = Prci!Jobs[job].f /\ pll'[p].q = Prci!Jobs[job].q
                 /\ what \notin {"write", "hold"} => pll'[p].f = pll[p].f /\ pll'[p].q = pll[p].q
                 /\ what \in {"write", "unbypass"} => ~pll'[p].bypass
                 /\ what \in {"wait", "out"} => pll'[p].bypass = pll[p].bypass
                 /\ what = "wait" => pll'[p].locked
                 /\ what = "out" => pll'[p].locked = pll[p].locked /\ pll'[p].out
  <1>. DEFINE j == Prci!Jobs[job]  p == Prci!Jobs[job].pll
  <1>1. UNCHANGED <<board, straps>> /\ pll \in [Prci!Plls -> PllRegisters]
    BY DEF Prci!Configure, PrciInv, Prci!TypeOK, PllRegisters
  <1>2. ASSUME NEW what \in {"write", "bypass", "hold", "unbypass", "wait", "out"}, Prci!Run(what)
        PROVE  p \in Prci!Plls /\ j.f \in 0 .. 511 /\ j.q \in 0 .. 7
    <2>1. p \in PllsUsed /\ p \in Prci!Plls /\ j.f = FactorF(p) /\ j.q = FactorQ(p)
      BY <1>1, <1>2, TurnIs
    <2>. QED  BY <2>1, FactorsAre
  <1>3. TRUE \in BOOLEAN /\ FALSE \in BOOLEAN
    OBVIOUS
  <1>. HIDE DEF j, p
  <1>4. CASE Prci!Run("write") /\ pll' = Prci!Written(p, j.f, j.q, FALSE)
    <2>1. p \in Prci!Plls /\ j.f \in 0 .. 511 /\ j.q \in 0 .. 7
      BY <1>2, <1>4
    <2>2. /\ pll' \in [Prci!Plls -> PllRegisters] /\ \A x \in Prci!Plls \ {p} : pll'[x] = pll[x]
          /\ pll'[p].f = j.f /\ pll'[p].q = j.q /\ pll'[p].bypass = FALSE
      <3>1. PICK b \in BOOLEAN : b = FALSE
        OBVIOUS
      <3>2. PICK f \in 0 .. 511, q \in 0 .. 7 : f = j.f /\ q = j.q
        BY <2>1
      <3>3. pll' = Prci!Written(p, f, q, b)
        BY <1>4, <3>1, <3>2, ZenonT(60)
      <3>4. /\ pll' \in [Prci!Plls -> PllRegisters] /\ \A x \in Prci!Plls \ {p} : pll'[x] = pll[x]
            /\ pll'[p].f = f /\ pll'[p].q = q /\ pll'[p].bypass = b
        BY <1>1, <2>1, <3>1, <3>2, <3>3, WrittenIs, ZenonT(60)
      <3>. QED  BY <3>1, <3>2, <3>4, Zenon
    <2>. QED  BY <1>4, <2>2, Zenon DEF j, p
  <1>5. CASE Prci!Run("hold") /\ pll' = Prci!Written(p, j.f, j.q, TRUE)
    <2>1. p \in Prci!Plls /\ j.f \in 0 .. 511 /\ j.q \in 0 .. 7
      BY <1>2, <1>5
    <2>2. /\ pll' \in [Prci!Plls -> PllRegisters] /\ \A x \in Prci!Plls \ {p} : pll'[x] = pll[x]
          /\ pll'[p].f = j.f /\ pll'[p].q = j.q /\ pll'[p].bypass = TRUE
      <3>1. PICK b \in BOOLEAN : b = TRUE
        OBVIOUS
      <3>2. PICK f \in 0 .. 511, q \in 0 .. 7 : f = j.f /\ q = j.q
        BY <2>1
      <3>3. pll' = Prci!Written(p, f, q, b)
        BY <1>5, <3>1, <3>2, Zenon
      <3>4. /\ pll' \in [Prci!Plls -> PllRegisters] /\ \A x \in Prci!Plls \ {p} : pll'[x] = pll[x]
            /\ pll'[p].f = f /\ pll'[p].q = q /\ pll'[p].bypass = b
        BY <1>1, <2>1, <3>1, <3>2, <3>3, WrittenIs, ZenonT(60)
      <3>. QED  BY <3>1, <3>2, <3>4, Zenon
    <2>. QED  BY <1>5, <2>2, Zenon DEF j, p
  <1>6. CASE Prci!Run("bypass") /\ pll' = [pll EXCEPT ![p].bypass = TRUE]
    BY <1>1, <1>2, <1>3, <1>6, FlagsAre, ZenonT(60) DEF j, p
  <1>7. CASE Prci!Run("unbypass") /\ pll' = [pll EXCEPT ![p].bypass = FALSE]
    BY <1>1, <1>2, <1>3, <1>7, FlagsAre, ZenonT(60) DEF j, p
  <1>8. CASE Prci!Run("wait") /\ pll[p].locked /\ UNCHANGED pll
    BY <1>1, <1>8 DEF p
  <1>9. CASE Prci!Run("out") /\ pll' = [pll EXCEPT ![p].out = TRUE]
    <2>1. p \in Prci!Plls
      BY <1>2, <1>9
    <2>2. /\ pll' \in [Prci!Plls -> PllRegisters] /\ \A x \in Prci!Plls \ {p} : pll'[x] = pll[x]
          /\ pll'[p].out /\ pll'[p].bypass = pll[p].bypass /\ pll'[p].locked = pll[p].locked
          /\ pll'[p].f = pll[p].f /\ pll'[p].q = pll[p].q
      BY <1>1, <1>3, <1>9, <2>1, FlagsAre, Zenon
    <2>. QED  BY <1>9, <2>2, Zenon DEF j, p
  <1>. QED  BY <1>4, <1>5, <1>6, <1>7, <1>8, <1>9 DEF Prci!Configure, j, p

LEMMA ConfigureKeeps ==
    ASSUME PrciInv, Prci!Configure
    PROVE  PrciInv'
  <1>1. PICK what \in {"write", "bypass", "hold", "unbypass", "wait", "out"} :
          LET p == Prci!Jobs[job].pll
          IN /\ Prci!Run(what)
             /\ pll' \in [Prci!Plls -> PllRegisters] /\ \A x \in Prci!Plls \ {p} : pll'[x] = pll[x]
             /\ what \in {"write", "hold"} =>
                   pll'[p].f = Prci!Jobs[job].f /\ pll'[p].q = Prci!Jobs[job].q
             /\ what \notin {"write", "hold"} => pll'[p].f = pll[p].f /\ pll'[p].q = pll[p].q
             /\ what \in {"write", "unbypass"} => ~pll'[p].bypass
             /\ what \in {"wait", "out"} => pll'[p].bypass = pll[p].bypass
             /\ what = "wait" => pll'[p].locked
             /\ what = "out" => pll'[p].locked = pll[p].locked /\ pll'[p].out
    BY ConfigureIs, Zenon
  <1>2. PICK p : p = Prci!Jobs[job].pll
    OBVIOUS
  <1>3. UNCHANGED <<board, straps, core, pclk, released>>
    BY DEF Prci!Configure
  <1>4. /\ Prci!Jobs' = Prci!Jobs /\ PllsUsed' = PllsUsed /\ PrciBus' = PrciBus
        /\ job' \in 1 .. Len(Prci!Jobs) + 1 /\ stage' \in 1 .. 5
        /\ (job' <= Len(Prci!Jobs) => stage' <= Len(Prci!Stages(Prci!Jobs[job'].do)))
    BY <1>1, <1>3, RunIs DEF PrciBus
  <1>5. IsSetUp(p)'
    BY <1>1, <1>2, <1>3, TurnSetsUp, Zenon
  <1>6. ASSUME NEW x \in PllsUsed, x # p PROVE IsSetUp(x)'
    <2>1. x \in Prci!Plls
      BY JobsAre DEF PrciInv, Prci!TypeOK, BoardIs
    <2>2. pll'[x] = pll[x]
      BY <1>1, <1>2, <1>6, <2>1
    <2>. QED  BY <1>1, <1>2, <1>3, <1>6, <2>2, OthersRest
  <1>7. Prci!TypeOK'
    BY <1>1, <1>3, <1>4, Zenon DEF PrciInv, Prci!TypeOK, PllRegisters
  <1>8. JobOf("core")' = JobOf("core") /\ JobOf("hfpclk")' = JobOf("hfpclk") /\ JobOf("gemgxl")' = JobOf("gemgxl") /\ JobOf("cltx")' = JobOf("cltx")
    BY <1>4 DEF JobOf
  <1>9. \A n \in {JobOf("core"), JobOf("hfpclk"), JobOf("gemgxl"), JobOf("cltx")} : job > n => job' > n
    <2>1. job' >= job /\ job' \in Int /\ job \in Int
      BY <1>1, <1>3, RunIs
    <2>2. JobOf("core") \in Int /\ JobOf("hfpclk") \in Int /\ JobOf("gemgxl") \in Int /\ JobOf("cltx") \in Int
      BY SMT DEF JobOf
    <2>. QED  BY <2>1, <2>2, SMT
  <1>. QED  BY <1>3, <1>4, <1>5, <1>6, <1>7, <1>8, <1>9, Zenon DEF PrciInv

(* The steps that switch the core, the bus and the devices.                  *)
LEMMA SwitchesKeep ==
    ASSUME PrciInv, Prci!SelectCore \/ Prci!SelectPclk \/ Prci!ReleaseDevice
    PROVE  PrciInv'
  <1>1. PICK what \in {"core", "pclk", "release"} :
          /\ Prci!Run(what)
          /\ core' = core \/ (what = "core" /\ core' = "core")
          /\ pclk' = pclk \/ (what = "pclk" /\ pclk' = "hfpclk")
          /\ released' = released \/ (what = "release" /\ released' = released \cup {Prci!Jobs[job].pll})
    BY Zenon DEF Prci!SelectCore, Prci!SelectPclk, Prci!ReleaseDevice
  <1>2. UNCHANGED <<board, straps, pll>>
    BY DEF Prci!SelectCore, Prci!SelectPclk, Prci!ReleaseDevice
  <1>3. /\ Prci!Jobs' = Prci!Jobs /\ PllsUsed' = PllsUsed /\ PrciBus' = PrciBus
        /\ JobIs(job) /\ StageIs(what, Prci!Jobs[job].do, stage)
        /\ job' \in 1 .. Len(Prci!Jobs) + 1 /\ stage' \in 1 .. 5
        /\ (job' <= Len(Prci!Jobs) => stage' <= Len(Prci!Stages(Prci!Jobs[job'].do)))
    BY <1>1, <1>2, RunIs DEF PrciBus
  <1>4. Prci!Jobs[job].do = what
    BY <1>3, Zenon DEF StageIs
  <1>5. ASSUME NEW x \in PllsUsed PROVE IsSetUp(x)'
    BY <1>1, <1>2, <1>4, OthersRest
  <1>6. /\ (what = "core" => job > JobOf("core"))
        /\ (what = "pclk" => PrciBus = "hfpclk" /\ job > JobOf("hfpclk"))
        /\ (what = "release" => /\ Prci!Jobs[job].pll \in {"gemgxl", "cltx"}
                                /\ Prci!Jobs[job].pll = "gemgxl" => job > JobOf("gemgxl")
                                /\ Prci!Jobs[job].pll = "cltx" =>
                                        board = "fu740" /\ (PrciBus = "cltx" => job > JobOf("cltx")))
    BY <1>3, <1>4 DEF JobIs
  <1>7. Prci!TypeOK'
    <2>1. released' \subseteq {"gemgxl", "cltx"}
      <3>1. released \subseteq {"gemgxl", "cltx"}
        BY DEF PrciInv, Prci!TypeOK
      <3>2. CASE released' = released
        BY <3>1, <3>2
      <3>3. CASE what = "release" /\ released' = released \cup {Prci!Jobs[job].pll}
        <4>1. PICK d \in {"gemgxl", "cltx"} : d = Prci!Jobs[job].pll
          <5>. DEFINE e == Prci!Jobs[job].pll
          <5>1. e \in {"gemgxl", "cltx"}
            BY <1>6, <3>3, Zenon
          <5>. HIDE DEF e
          <5>. QED  BY <5>1, Zenon DEF e
        <4>2. released' = released \cup {d}
          BY <3>3, <4>1, Zenon
        <4>. QED  BY <3>1, <4>2
      <3>. QED  BY <1>1, <3>2, <3>3
    <2>2. {core', pclk'} \subseteq {"hfxin", "core", "hfpclk"}
      BY <1>1 DEF PrciInv, Prci!TypeOK
    <2>. QED  BY <1>2, <1>3, <2>1, <2>2, Zenon DEF PrciInv, Prci!TypeOK
  <1>8. JobOf("core")' = JobOf("core") /\ JobOf("hfpclk")' = JobOf("hfpclk") /\ JobOf("gemgxl")' = JobOf("gemgxl") /\ JobOf("cltx")' = JobOf("cltx")
    BY <1>3 DEF JobOf
  <1>9. \A n \in {JobOf("core"), JobOf("hfpclk"), JobOf("gemgxl"), JobOf("cltx")} : job > n => job' > n
    <2>1. job' >= job /\ job' \in Int /\ job \in Int
      BY <1>1, <1>2, RunIs
    <2>2. JobOf("core") \in Int /\ JobOf("hfpclk") \in Int /\ JobOf("gemgxl") \in Int /\ JobOf("cltx") \in Int
      BY SMT DEF JobOf
    <2>. QED  BY <2>1, <2>2, SMT
  <1>10. /\ core' # "hfpclk"
         /\ pclk' # "core" /\ (pclk' = "hfpclk" => PrciBus = "hfpclk" /\ job' > JobOf("hfpclk"))
         /\ "gemgxl" \in released' => job' > JobOf("gemgxl")
         /\ "cltx" \in released' => board = "fu740" /\ (PrciBus = "cltx" => job' > JobOf("cltx"))
    BY <1>1, <1>6, <1>9 DEF PrciInv
  <1>. QED  BY <1>2, <1>3, <1>5, <1>7, <1>8, <1>10, Zenon DEF PrciInv

LEMMA PrciInductive == PrciInv /\ [Prci!Next]_Prci!vars => PrciInv'
  <1>. SUFFICES ASSUME PrciInv, [Prci!Next]_Prci!vars PROVE PrciInv'
    OBVIOUS
  <1>1. CASE \E p \in Prci!Plls : Prci!Locks(p)
    <2>1. PICK p \in Prci!Plls : Prci!Locks(p)
      BY <1>1
    <2>2. pll \in [Prci!Plls -> PllRegisters] /\ TRUE \in BOOLEAN
      BY DEF PrciInv, Prci!TypeOK, PllRegisters
    <2>3. /\ pll' \in [Prci!Plls -> PllRegisters]
          /\ \A x \in Prci!Plls : /\ pll'[x].f = pll[x].f /\ pll'[x].q = pll[x].q
                                  /\ pll'[x].bypass = pll[x].bypass /\ pll'[x].out = pll[x].out
                                  /\ pll[x].locked => pll'[x].locked
      <3>. DEFINE l == [pll EXCEPT ![p].locked = TRUE]
      <3>1. /\ l \in [Prci!Plls -> PllRegisters] /\ \A x \in Prci!Plls \ {p} : l[x] = pll[x]
            /\ l[p].locked = TRUE /\ l[p].bypass = pll[p].bypass /\ l[p].out = pll[p].out
            /\ l[p].f = pll[p].f /\ l[p].q = pll[p].q
        BY <2>2, FlagsAre, Zenon
      <3>2. pll' = l
        BY <2>1 DEF Prci!Locks
      <3>. HIDE DEF l
      <3>. QED  BY <3>1, <3>2, Zenon
    <2>4. UNCHANGED <<board, straps, job, stage, core, pclk, released>>
      BY <2>1 DEF Prci!Locks
    <2>5. Prci!Jobs' = Prci!Jobs /\ PllsUsed' = PllsUsed /\ PrciBus' = PrciBus
      BY <2>4 DEF Prci!Jobs, PllsUsed, PrciBus
    <2>6. ASSUME NEW x \in PllsUsed PROVE IsSetUp(x)'
      <3>1. x \in Prci!Plls /\ IsSetUp(x)
        BY JobsAre DEF PrciInv, Prci!TypeOK, BoardIs
      <3>2. /\ JobOf(x)' = JobOf(x) /\ Way(x)' = Way(x) /\ FactorF(x)' = FactorF(x) /\ FactorQ(x)' = FactorQ(x)
        BY <2>4, <2>5 DEF JobOf, Way, FactorF, FactorQ, Prci!CoreDivider
      <3>3. \A k : Past(x, k)' <=> Past(x, k)
        BY <2>4, <3>2, Zenon DEF Past
      <3>4. /\ pll'[x].f = pll[x].f /\ pll'[x].q = pll[x].q
            /\ pll'[x].bypass = pll[x].bypass /\ pll'[x].out = pll[x].out
            /\ pll[x].locked => pll'[x].locked
        BY <2>3, <3>1
      <3>5. job' > JobOf(x)' <=> job > JobOf(x)
        BY <2>4, <3>2, Zenon
      <3>6. CASE Way(x) = "direct"
        BY <3>1, <3>2, <3>3, <3>4, <3>5, <3>6, Zenon DEF IsSetUp
      <3>7. CASE Way(x) # "direct"
        BY <3>1, <3>2, <3>3, <3>4, <3>5, <3>7, Zenon DEF IsSetUp
      <3>. QED  BY <3>6, <3>7, Zenon
    <2>7. Prci!TypeOK'
      BY <2>3, <2>4, <2>5, Zenon DEF PrciInv, Prci!TypeOK, PllRegisters
    <2>8. JobOf("core")' = JobOf("core") /\ JobOf("hfpclk")' = JobOf("hfpclk") /\ JobOf("gemgxl")' = JobOf("gemgxl") /\ JobOf("cltx")' = JobOf("cltx")
      BY <2>5 DEF JobOf
    <2>. QED  BY <2>4, <2>5, <2>6, <2>7, <2>8, Zenon DEF PrciInv
  <1>2. CASE UNCHANGED Prci!vars
    <2>1. Prci!Jobs' = Prci!Jobs /\ PllsUsed' = PllsUsed /\ PrciBus' = PrciBus
      BY <1>2 DEF Prci!vars, Prci!Jobs, PllsUsed, PrciBus
    <2>2. \A x : /\ JobOf(x)' = JobOf(x) /\ Way(x)' = Way(x) /\ FactorF(x)' = FactorF(x) /\ FactorQ(x)' = FactorQ(x)
                 /\ \A k : Past(x, k)' <=> Past(x, k)
      BY <1>2, <2>1 DEF Prci!vars, JobOf, Way, FactorF, FactorQ, Prci!CoreDivider, Past
    <2>3. \A x \in PllsUsed : IsSetUp(x)'
      BY <1>2, <2>2, Zenon DEF Prci!vars, PrciInv, IsSetUp
    <2>4. Prci!TypeOK'
      BY <1>2, <2>1, Zenon DEF Prci!vars, PrciInv, Prci!TypeOK
    <2>. QED  BY <1>2, <2>1, <2>2, <2>3, <2>4, Zenon DEF Prci!vars, PrciInv
  <1>. QED  BY <1>1, <1>2, ConfigureKeeps, SwitchesKeep DEF Prci!Next, Prci!InitStep

(* What runs on a PLL runs on one that has been set up, at the rate that its *)
(* factors make of the crystal.                                              *)
LEMMA PrciFollows == PrciInv => Prci!TypeOK /\ Prci!ClocksAreStable /\ Prci!RatesAreAsNamed
  <1>. SUFFICES ASSUME PrciInv PROVE Prci!TypeOK /\ Prci!ClocksAreStable /\ Prci!RatesAreAsNamed
    OBVIOUS
  <1>1. Prci!TypeOK /\ BoardIs
    BY DEF PrciInv, Prci!TypeOK, BoardIs
  <1>2. ASSUME NEW p \in PllsUsed, job > JobOf(p)
        PROVE  /\ pll[p].locked /\ ~pll[p].bypass /\ pll[p].out
               /\ pll[p].f = FactorF(p) /\ pll[p].q = FactorQ(p)
    BY <1>2, Zenon DEF PrciInv, IsSetUp, Past
  <1>3. ASSUME NEW p \in Prci!InUse, p \in Prci!Plls
        PROVE  p \in PllsUsed /\ job > JobOf(p)
    <2>1. CASE p = core /\ job > 1
      <3>1. core # "hfpclk" /\ core \in {"hfxin", "core", "hfpclk"}
        BY DEF PrciInv, Prci!TypeOK
      <3>2. p = "core"
        BY <1>3, <2>1, <3>1 DEF Prci!Plls
      <3>. QED  BY <2>1, <3>2 DEF PllsUsed, JobOf
    <2>2. CASE p = pclk
      <3>1. pclk # "core" /\ (pclk = "hfpclk" => PrciBus = "hfpclk" /\ job > JobOf("hfpclk"))
            /\ pclk \in {"hfxin", "core", "hfpclk"}
        BY DEF PrciInv, Prci!TypeOK
      <3>2. p = "hfpclk"
        BY <1>3, <2>2, <3>1 DEF Prci!Plls
      <3>. QED  BY <2>2, <3>1, <3>2 DEF PllsUsed
    <2>3. CASE p \in released /\ (p = "cltx" => "cltx" \in straps /\ "hfpclk" \notin straps)
      <3>1. p \in {"gemgxl", "cltx"}
        BY <2>3 DEF PrciInv, Prci!TypeOK
      <3>2. CASE p = "gemgxl"
        BY <2>3, <3>2 DEF PrciInv, PllsUsed
      <3>3. CASE p = "cltx"
        <4>1. board = "fu740"
          BY <2>3, <3>3 DEF PrciInv
        <4>2. PrciBus = "cltx"
          BY <2>3, <3>3, <4>1 DEF PrciBus
        <4>. QED  BY <2>3, <3>3, <4>2 DEF PrciInv, PllsUsed
      <3>. QED  BY <3>1, <3>2, <3>3
    <2>. QED  BY <1>3, <2>1, <2>2, <2>3 DEF Prci!InUse, Prci!CoreIsSetUp
  <1>4. Prci!ClocksAreStable
    BY <1>2, <1>3 DEF Prci!ClocksAreStable
  <1>5. core = "core" /\ job > 1 => Prci!Megahertz(IF "tlclksel" \in straps THEN Prci!Output("core")
                                   ELSE Prci!Output("core") \div 2) \in 499 .. 501
    <2>. SUFFICES ASSUME core = "core", job > 1
                  PROVE  Prci!Megahertz(IF "tlclksel" \in straps THEN Prci!Output("core")
                                   ELSE Prci!Output("core") \div 2) \in 499 .. 501
      OBVIOUS
    <2>1. pll["core"].f = FactorF("core") /\ pll["core"].q = FactorQ("core")
      BY <1>2, <1>3 DEF Prci!Plls, Prci!InUse, Prci!CoreIsSetUp
    <2>2. CASE "tlclksel" \in straps
      BY <1>1, <2>1, <2>2, SMT DEF BoardIs, FactorF, FactorQ, Prci!CoreDivider, Prci!Output, Prci!Reference, Prci!Megahertz, Prci!PowerOfTwo
    <2>3. CASE "tlclksel" \notin straps
      BY <1>1, <2>1, <2>3, SMT DEF BoardIs, FactorF, FactorQ, Prci!CoreDivider, Prci!Output, Prci!Reference, Prci!Megahertz, Prci!PowerOfTwo
    <2>. QED  BY <2>2, <2>3
  <1>6. "gemgxl" \in released => Prci!Megahertz(Prci!Output("gemgxl")) \in 119 .. 131
    <2>. SUFFICES ASSUME "gemgxl" \in released PROVE Prci!Megahertz(Prci!Output("gemgxl")) \in 119 .. 131
      OBVIOUS
    <2>1. pll["gemgxl"].f = FactorF("gemgxl") /\ pll["gemgxl"].q = FactorQ("gemgxl")
      BY <1>2, <1>3 DEF Prci!Plls, Prci!InUse
    <2>. QED  BY <1>1, <2>1, SMT DEF BoardIs, FactorF, FactorQ, Prci!Output, Prci!Reference, Prci!Megahertz, Prci!PowerOfTwo
  <1>7. pclk = "hfpclk" => Prci!Megahertz(Prci!Output("hfpclk")) \in 238 .. 262
    <2>. SUFFICES ASSUME pclk = "hfpclk" PROVE Prci!Megahertz(Prci!Output("hfpclk")) \in 238 .. 262
      OBVIOUS
    <2>1. pll["hfpclk"].f = FactorF("hfpclk") /\ pll["hfpclk"].q = FactorQ("hfpclk")
      BY <1>2, <1>3 DEF Prci!Plls, Prci!InUse
    <2>2. board = "fu740"
      BY <1>1 DEF PrciInv, PrciBus, BoardIs
    <2>. QED  BY <2>1, <2>2, SMT DEF FactorF, FactorQ, Prci!Output, Prci!Reference, Prci!Megahertz, Prci!PowerOfTwo
  <1>. QED  BY <1>1, <1>4, <1>5, <1>6, <1>7 DEF Prci!RatesAreAsNamed, Prci!CoreIsSetUp

-----------------------------------------------------------------------------
(* The units together.                                                       *)

ServicesInv ==
    /\ PllInv /\ TimerInv /\ ClockInv /\ RestInv /\ SpiInv /\ PwmInv /\ PrciInv
    /\ UartInv /\ (unit # "both" => UartAloneInv)
    /\ HtifInv /\ (unit # "nested" => HtifAloneInv)
    /\ IF unit = "clic" THEN Clic!IInv ELSE Clint!IInv

(* A thread alone takes no step that it does not take with a handler about.  *)
LEMMA UartAloneIsBoth == Uart!Next => Both!Next
  <1>. SUFFICES ASSUME Uart!Next PROVE Both!Next
    OBVIOUS
  <1>. USE DEF Uart!transmitter, Both!transmitter, Uart!receiver, Both!receiver
  <1>1. ASSUME Uart!Bit PROVE Both!Bit
    BY <1>1 DEF Uart!Bit, Both!Bit, Uart!Sends, Both!Sends
  <1>2. ASSUME Uart!Arrive PROVE Both!Arrive
    BY <1>2 DEF Uart!Arrive, Both!Arrive
  <1>3. ASSUME Uart!SeeRoom PROVE Both!SeeRoom
    BY <1>3 DEF Uart!SeeRoom, Both!SeeRoom, Uart!TxReady, Both!TxReady
  <1>4. ASSUME Uart!Putc PROVE Both!Putc
    BY <1>4 DEF Uart!Putc, Both!Putc, Uart!Write, Both!Write
  <1>5. ~Uart!HandlerPutc
    BY DEF Uart!HandlerPutc
  <1>6. ASSUME Uart!Getc PROVE Both!Getc
    BY <1>6 DEF Uart!Getc, Both!Getc, Uart!ReadData, Both!ReadData
  <1>7. ASSUME NEW level \in Watermarks, Uart!SetTxWatermark(level)
        PROVE  Both!SetTxWatermark(level)
    BY <1>7, Zenon DEF Uart!SetTxWatermark, Both!SetTxWatermark
  <1>8. ASSUME Uart!SetBaudRate PROVE Both!SetBaudRate
    BY <1>8 DEF Uart!SetBaudRate, Both!SetBaudRate
  <1>9. ASSUME Uart!BeginDrain PROVE Both!BeginDrain
    BY <1>9 DEF Uart!BeginDrain, Both!BeginDrain, Uart!DrainLevel, Both!DrainLevel
  <1>10. ASSUME Uart!SeeEmpty PROVE Both!SeeEmpty
    BY <1>10 DEF Uart!SeeEmpty, Both!SeeEmpty, Uart!BitsToWait, Both!BitsToWait
  <1>11. ASSUME Uart!Wait PROVE Both!Wait
    BY <1>11 DEF Uart!Wait, Both!Wait, Uart!Sends, Both!Sends
  <1>12. ASSUME Uart!ChangeRate PROVE Both!ChangeRate
    BY <1>12 DEF Uart!ChangeRate, Both!ChangeRate
  <1>. QED
    BY <1>1, <1>2, <1>3, <1>4, <1>5, <1>6, <1>7, <1>8, <1>9, <1>10, <1>11, <1>12, Zenon
       DEF Uart!Next, Both!Next

LEMMA HtifAloneIsNested == Htif!Next => Nested!Next
  <1>. SUFFICES ASSUME Htif!Next PROVE Nested!Next
    OBVIOUS
  <1>. USE DEF Htif!Runs, Nested!Runs, Htif!Running, Nested!Running,
               Htif!Goto, Nested!Goto, Htif!program, Nested!program
  <1>1. ASSUME NEW p \in {"thread"}, Htif!Step(p) PROVE Nested!Step(p)
    BY <1>1, Zenon
       DEF Htif!Step, Nested!Step, Htif!Putc, Nested!Putc, Htif!WriteReturns,
           Nested!WriteReturns, Htif!SetTohost, Nested!SetTohost, Htif!Done,
           Nested!Done, Htif!Answered, Nested!Answered, Htif!Gone, Nested!Gone
  <1>2. ASSUME NEW p \in {"thread"}, Htif!CheckFromhost(p) PROVE Nested!CheckFromhost(p)
    BY <1>2, Zenon DEF Htif!CheckFromhost, Nested!CheckFromhost
  <1>3. ASSUME NEW p \in {"thread"}, NEW t \in Texts, Htif!Write(p, t)
        PROVE  Nested!Write(p, t)
    BY <1>3, Zenon DEF Htif!Write, Nested!Write
  <1>4. ASSUME NEW code \in {"passed", "failed"}, Htif!Exit(code) PROVE Nested!Exit(code)
    BY <1>4, Zenon DEF Htif!Exit, Nested!Exit
  <1>5. ASSUME Htif!Take PROVE Nested!Take
    BY <1>5, Zenon DEF Htif!Take, Nested!Take
  <1>6. ASSUME Htif!Serve PROVE Nested!Serve
    BY <1>6, Zenon DEF Htif!Serve, Nested!Serve, Htif!Gone, Nested!Gone
  <1>7. ASSUME Htif!Acknowledge PROVE Nested!Acknowledge
    BY <1>7, Zenon DEF Htif!Acknowledge, Nested!Acknowledge
  <1>8. \A p \in {"thread"} : p \in {"thread", "handler"}
    OBVIOUS
  <1>. QED
    BY <1>1, <1>2, <1>3, <1>4, <1>5, <1>6, <1>7, <1>8, Zenon DEF Htif!Next, Nested!Next

(* What each unit begins with.                                               *)
LEMMA ServicesInitially == ServicesInit => ServicesInv
  <1>. SUFFICES ASSUME ServicesInit PROVE ServicesInv
    OBVIOUS
  <1>. USE Instances DEF Instances
  <1>1. Both!Init /\ Nested!Init /\ Clic!Init
    BY DEF ServicesInit, Uart!Init, Both!Init, Htif!Init, Nested!Init, Htif!Gone,
           Nested!Gone, Htif!Contexts, Nested!Contexts, Clint!Init, Clic!Init,
           Clint!Actors, Clic!Actors, Clint!Idle, Clic!Idle
  <1>2. PllInv /\ TimerInv /\ ClockInv /\ RestInv
    BY PllInitially, TimerInitially, ClockInitially, RestInitially DEF ServicesInit
  <1>3. SpiInv /\ PwmInv /\ PrciInv
    BY SpiInitially, PwmInitially, PrciInitially DEF ServicesInit
  <1>4. UartInv /\ UartAloneInv
    BY <1>1, UartInitially, UartAloneInitially DEF ServicesInit
  <1>5. HtifInv /\ HtifAloneInv
    BY <1>1, HtifInitially, HtifAloneInitially DEF ServicesInit
  <1>6. Clic!IInv /\ Clint!IInv
    BY <1>1, Clic!Initially, Clint!Initially DEF ServicesInit
  <1>. QED  BY <1>2, <1>3, <1>4, <1>5, <1>6 DEF ServicesInv

(* A step is of one unit, and no other unit moves.                           *)
OneMoves ==
    /\ Next \/ UNCHANGED vars
    /\ Timer!Next \/ UNCHANGED timerVars
    /\ Clock!Next \/ UNCHANGED clockVars
    /\ Spi!Next \/ UNCHANGED spiVars
    /\ Pwm!Next \/ UNCHANGED pwmVars
    /\ Prci!Next \/ UNCHANGED prciVars
    /\ Both!Next \/ UNCHANGED uartVars
    /\ unit # "both" => Uart!Next \/ UNCHANGED uartVars
    /\ Nested!Next \/ UNCHANGED htifVars
    /\ unit # "nested" => Htif!Next \/ UNCHANGED htifVars
    /\ IF unit = "clic" THEN Clic!Next \/ UNCHANGED ipiVars
                        ELSE Clint!Next \/ UNCHANGED ipiVars

LEMMA StepsAreOfOne ==
    ASSUME [ServicesNext]_allVars
    PROVE  UNCHANGED unit /\ OneMoves
  <1>1. CASE UNCHANGED allVars
    BY <1>1 DEF allVars, OneMoves
  <1>2. CASE unit = "pll" /\ Next /\ Others("pll")
    BY <1>2 DEF Others, OneMoves
  <1>3. CASE unit = "clock" /\ Clock!Next /\ Others("clock")
    BY <1>3 DEF Others, OneMoves
  <1>4. CASE unit = "pwm" /\ Pwm!Next /\ Others("pwm")
    BY <1>4 DEF Others, OneMoves
  <1>5. CASE unit = "uart" /\ Uart!Next /\ Others("uart")
    BY <1>5, UartAloneIsBoth DEF Others, OneMoves
  <1>6. CASE unit = "both" /\ Both!Next /\ Others("both")
    BY <1>6 DEF Others, OneMoves
  <1>7. CASE unit = "timer" /\ Timer!Next /\ Others("timer")
    BY <1>7 DEF Others, OneMoves
  <1>8. CASE unit = "plic" /\ Plic!Next /\ Others("plic")
    BY <1>8 DEF Others, OneMoves
  <1>9. CASE unit = "prci" /\ Prci!Next /\ Others("prci")
    BY <1>9 DEF Others, OneMoves
  <1>10. CASE unit = "spi" /\ Spi!Next /\ Others("spi")
    BY <1>10 DEF Others, OneMoves
  <1>11. CASE unit = "htif" /\ Htif!Next /\ Others("htif")
    BY <1>11, HtifAloneIsNested DEF Others, OneMoves
  <1>12. CASE unit = "nested" /\ Nested!Next /\ Others("nested")
    BY <1>12 DEF Others, OneMoves
  <1>13. CASE unit = "clint" /\ Clint!Next /\ Others("clint")
    BY <1>13 DEF Others, OneMoves
  <1>14. CASE unit = "clic" /\ Clic!Next /\ Others("clic")
    BY <1>14 DEF Others, OneMoves
  <1>. QED
    BY <1>1, <1>2, <1>3, <1>4, <1>5, <1>6, <1>7, <1>8, <1>9, <1>10, <1>11, <1>12,
       <1>13, <1>14, Zenon DEF ServicesNext

LEMMA ServicesInductive == ServicesInv /\ [ServicesNext]_allVars => ServicesInv'
  <1>. SUFFICES ASSUME ServicesInv, [ServicesNext]_allVars PROVE ServicesInv'
    OBVIOUS
  <1>. USE Instances DEF Instances
  <1>1. UNCHANGED unit /\ OneMoves
    BY StepsAreOfOne
  <1>2. PllInv'
    BY <1>1, PllInductive, Zenon DEF OneMoves, ServicesInv
  <1>3. TimerInv'
    <2>1. [Timer!Next]_Timer!vars
      BY <1>1 DEF OneMoves, timerVars, Timer!vars
    <2>. QED  BY <2>1, TimerInductive DEF ServicesInv
  <1>4. ClockInv' /\ RestInv'
    <2>1. [Clock!Next]_Clock!vars
      BY <1>1 DEF OneMoves, clockVars, Clock!vars
    <2>. QED  BY <2>1, ClockInductive, RestInductive DEF ServicesInv
  <1>5. SpiInv'
    <2>1. [Spi!Next]_Spi!vars
      BY <1>1 DEF OneMoves, spiVars, Spi!vars
    <2>. QED  BY <2>1, SpiInductive DEF ServicesInv
  <1>6. PwmInv'
    <2>1. [Pwm!Next]_Pwm!vars
      BY <1>1 DEF OneMoves, pwmVars, Pwm!vars
    <2>. QED  BY <2>1, PwmInductive DEF ServicesInv
  <1>7. PrciInv'
    <2>1. [Prci!Next]_Prci!vars
      BY <1>1 DEF OneMoves, prciVars, Prci!vars
    <2>. QED  BY <2>1, PrciInductive DEF ServicesInv
  <1>8. UartInv' /\ (unit # "both" => UartAloneInv')
    <2>1. [Both!Next]_Both!vars /\ (unit # "both" => [Uart!Next]_Uart!vars)
      BY <1>1 DEF OneMoves, uartVars, Both!vars, Uart!vars, Both!transmitter,
                  Uart!transmitter, Both!receiver, Uart!receiver
    <2>. QED  BY <2>1, UartInductive, UartAloneInductive DEF ServicesInv
  <1>9. HtifInv' /\ (unit # "nested" => HtifAloneInv')
    <2>1. [Nested!Next]_Nested!vars /\ (unit # "nested" => [Htif!Next]_Htif!vars)
      BY <1>1 DEF OneMoves, htifVars, Nested!vars, Htif!vars, Nested!program,
                  Htif!program
    <2>. QED  BY <2>1, HtifInductive, HtifAloneInductive DEF ServicesInv
  <1>10. IF unit = "clic" THEN Clic!IInv' ELSE Clint!IInv'
    <2>1. IF unit = "clic" THEN [Clic!Next]_Clic!vars ELSE [Clint!Next]_Clint!vars
      BY <1>1 DEF OneMoves, ipiVars, Clic!vars, Clint!vars
    <2>. QED  BY <2>1, Clic!Step, Clint!Step DEF ServicesInv
  <1>. QED
    BY <1>1, <1>2, <1>3, <1>4, <1>5, <1>6, <1>7, <1>8, <1>9, <1>10 DEF ServicesInv

(* Every step of every unit keeps the invariants of all.                     *)
THEOREM Invariance == ServicesSpec => []ServicesInv
  BY ServicesInitially, ServicesInductive, PTL DEF ServicesSpec

(* Every unit keeps its types, in whatever bounds.                           *)
THEOREM TypeCorrect == ServicesSpec => []ServicesTypeOK
  <1>1. ServicesInv => ServicesTypeOK
    <2>. SUFFICES ASSUME ServicesInv PROVE ServicesTypeOK
      OBVIOUS
    <2>. USE Instances DEF Instances, ServicesInv
    <2>1. TypeOK
      BY PllFollows
    <2>2. Clock!TypeOK /\ Pwm!TypeOK /\ Both!TypeOK /\ Spi!TypeOK
      BY DEF ClockInv, PwmInv, UartInv, SpiInv
    <2>3. Timer!TypeOK /\ Prci!TypeOK
      BY DEF TimerInv, PrciInv
    <2>4. Nested!TypeOK
      BY HtifFollows
    <2>5. ASSUME unit = "htif" PROVE Htif!TypeOK
      <3>1. \A p \in Htif!Contexts : Htif!IsSuffix(text[p], printed)
        BY <2>5, HtifAloneFollows
      <3>2. {tohost, taken} \subseteq {"thread"} \cup {"none"}
        BY <2>5 DEF HtifAloneInv, HtifAloneType
      <3>. QED  BY <2>4, <3>1, <3>2 DEF Nested!TypeOK, Htif!TypeOK, Nested!Contexts, Htif!Contexts
    <2>6. Clic!TypeOK
      <3>1. CASE unit = "clic"
        BY <3>1 DEF Clic!IInv, Clic!Types, Clic!TypeOK, Clic!SoftwareInterruptAssumption
      <3>2. CASE unit # "clic"
        BY <3>2 DEF Clint!IInv, Clint!Types, Clic!TypeOK, Clic!SoftwareInterruptAssumption,
                    Clint!Actors, Clic!Actors
      <3>. QED  BY <3>1, <3>2
    <2>. QED  BY <2>1, <2>2, <2>3, <2>4, <2>5, <2>6 DEF ServicesTypeOK
  <1>. QED  BY <1>1, Invariance, PTL

(* As long as nobody registers twice the two lists of a clock hold every     *)
(* device on it that has registered, in that order.                          *)
THEOREM ListsAreInOrder == ServicesSpec => []ListsHoldOrder
  <1>1. ServicesInv => ListsHoldOrder
    BY Instances, ClockFollows DEF Instances, ServicesInv, ListsHoldOrder
  <1>. QED  BY <1>1, Invariance, PTL

(* When the rate of a clock has changed, the devices on it that registered   *)
(* once have divisors of the new rate, a SPI has the baud rate that it       *)
(* reports, and a PWM its duty cycles and, unless two scales were ORed or it *)
(* divided by zero, a frequency not below the one that was asked for,        *)
(* whatever the rates, the divisors and the number of devices.               *)
THEOREM DevicesFollow == ServicesSpec => []RateIsFollowed
  <1>1. ServicesInv => RateIsFollowed
    BY Instances, ClockFollows, SpiFollows, PwmFollows
       DEF Instances, ServicesInv, RateIsFollowed
  <1>. QED  BY <1>1, Invariance, PTL

(* The core of the FE310 runs on a PLL only when that has locked and is      *)
(* within the limits of the hardware, for every crystal and every rate asked *)
(* for.  On the FU540 and FU740 the core, from the time that its PLL was set *)
(* up, the bus, and the devices out of reset run on PLLs that have locked,   *)
(* but for ChipLink where both an HFPCLK and a CLTX PLL are.                 *)
THEOREM ClocksStayStable == ServicesSpec => []ClocksAreStable
  <1>1. ServicesInv => ClocksAreStable
    BY PllFollows, PrciFollows DEF ServicesInv, ClocksAreStable
  <1>. QED  BY <1>1, Invariance, PTL

(* No row of the table comes closer to a rate than the one that is chosen.   *)
THEOREM RateIsChosenWell == ServicesSpec => []RateIsClosest
  <1>1. ServicesInv => RateIsClosest
    BY PllFollows DEF ServicesInv
  <1>. QED  BY <1>1, Invariance, PTL

(* Characters come out of getc in order and once, and what a thread prints   *)
(* alone is not lost, whatever the depth of the FIFOs and the texts.         *)
THEOREM CharactersComeOnce == ServicesSpec => []EachOnceInOrder
  <1>1. ServicesInv => EachOnceInOrder
    <2>. SUFFICES ASSUME ServicesInv PROVE EachOnceInOrder
      OBVIOUS
    <2>1. Uart!EachOnceInOrder
      BY UartFollows DEF ServicesInv, Uart!EachOnceInOrder, Both!EachOnceInOrder
    <2>2. unit = "htif" => Htif!PrintedOnce
      BY HtifAloneFollows DEF ServicesInv
    <2>3. unit = "uart" => Uart!NothingIsDropped
      BY UartAloneFollows DEF ServicesInv
    <2>. QED  BY <2>1, <2>2, <2>3 DEF EachOnceInOrder
  <1>. QED  BY <1>1, Invariance, PTL

(* The time that is read is current, the compare register holds the deadline *)
(* that was set last, a timer interrupt has its deadline behind it, and mail *)
(* is announced, whatever the width of a word and the timing of the reads.   *)
THEOREM TimerStaysExact == ServicesSpec => []TimerIsExact
  <1>1. ServicesInv => TimerIsExact
    BY Instances, TimerFollows, Clic!Promise, Clint!Promise
       DEF Instances, ServicesInv, TimerIsExact
  <1>. QED  BY <1>1, Invariance, PTL

(* The rate of a clock changes when no transfer of a device that has         *)
(* registered is under way and no such PWM runs always (a one-shot goes on), *)
(* whichever of them has registered twice; that of a SPI when its FIFO is    *)
(* empty; and no character of a thread that prints alone is torn.            *)
THEOREM RateChangesWell == ServicesSpec => RateChangesAtRest
  <1>. DEFINE AtRest == /\ clockRate' # clockRate => Clock!AtRest
                        /\ unit = "uart" => Uart!NoCharacterIsTorn'
              WhenEmpty == spiRate' # spiRate => words = 0
  <1>1. ServicesInv /\ [ServicesNext]_allVars => [WhenEmpty]_Spi!vars
    <2>. SUFFICES ASSUME ServicesInv, [ServicesNext]_allVars, spiRate' # spiRate PROVE words = 0
      OBVIOUS
    <2>1. [Spi!Next]_Spi!vars
      BY StepsAreOfOne DEF OneMoves, spiVars, Spi!vars
    <2>2. Spi!Change
      BY <2>1 DEF Spi!Next, Spi!vars, Spi!InitSpi, Spi!SetBaudRate, Spi!Queue,
                  Spi!Send, Spi!BeforeChange, Spi!SeeEmpty, Spi!AfterChange
    <2>. QED  BY <2>2 DEF Spi!Change, ServicesInv, SpiInv
  <1>2. ServicesInv /\ ServicesInv' /\ [ServicesNext]_allVars => [AtRest]_allVars
    <2>. SUFFICES ASSUME ServicesInv, ServicesInv', [ServicesNext]_allVars PROVE AtRest
      OBVIOUS
    <2>1. UNCHANGED unit /\ [Clock!Next]_Clock!vars
      BY StepsAreOfOne DEF OneMoves, clockVars, Clock!vars
    <2>2. clockRate' # clockRate => Clock!AtRest
      BY <2>1, Instances, RateChangesWhenNothingIsActive DEF Instances, ServicesInv
    <2>3. unit = "uart" => Uart!NoCharacterIsTorn'
      BY <2>1 DEF ServicesInv, UartAloneInv, Uart!NoCharacterIsTorn
    <2>. QED  BY <2>2, <2>3
  <1>. QED
    BY <1>1, <1>2, Invariance, PTL
       DEF ServicesSpec, RateChangesAtRest, Spi!RateChangesWhenEmpty

=============================================================================
