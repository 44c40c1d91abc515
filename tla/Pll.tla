--------------------------------- MODULE Pll ---------------------------------
(***************************************************************************)
(* The PLL of the FE310, src/drivers/sifive_fe310-g000_pll.c.  The core is *)
(* switched to the ring oscillator, the PLL is configured for the rate     *)
(* that comes closest, and the core is switched back once it has locked.   *)
(***************************************************************************)
EXTENDS Integers, Sequences

CONSTANTS RefRates,   \* the rates of the crystal a board may have
          RingRate,   \* the rate of the ring oscillator, HFROSC
          Rates       \* the rates that programs ask for, percent of the input

ASSUME PllAssumption ==
    /\ RefRates \subseteq Nat /\ RingRate \in Nat /\ Rates \subseteq Nat

\* The rows of the table: index, multiplier, divisor, min_input_rate,
\* max_input_rate, r, f, q, d.
pll_configs ==
    { <<1, 1, 32, 12000000, 24000000, 1, 31, 3, 63>>, <<2, 1, 32, 24000000, 48000000, 3, 31, 2, 63>>,
      <<3, 1, 16, 6000000, 12000000, 0, 31, 3, 63>>, <<4, 1, 16, 12000000, 24000000, 1, 31, 2, 63>>,
      <<5, 1, 16, 24000000, 48000000, 3, 31, 2, 31>>, <<6, 1, 8, 6000000, 12000000, 0, 31, 3, 31>>,
      <<7, 1, 8, 12000000, 24000000, 1, 31, 2, 31>>, <<8, 1, 8, 24000000, 48000000, 3, 31, 2, 15>>,
      <<9, 1, 4, 6000000, 12000000, 0, 31, 3, 15>>, <<10, 1, 4, 12000000, 24000000, 1, 31, 2, 15>>,
      <<11, 1, 4, 24000000, 48000000, 3, 31, 2, 7>>, <<12, 1, 2, 6000000, 12000000, 0, 31, 2, 15>>,
      <<13, 1, 2, 12000000, 24000000, 1, 31, 1, 15>>, <<14, 1, 2, 24000000, 48000000, 3, 31, 1, 7>>,
      <<15, 2, 1, 6000000, 12000000, 0, 31, 1, 7>>, <<16, 2, 1, 12000000, 24000000, 1, 31, 1, 3>>,
      <<17, 2, 1, 24000000, 48000000, 3, 31, 3, -1>>, <<18, 4, 1, 6000000, 12000000, 0, 31, 3, 0>>,
      <<19, 4, 1, 12000000, 24000000, 1, 31, 3, -1>>, <<20, 4, 1, 24000000, 48000000, 3, 31, 2, -1>>,
      <<21, 6, 1, 6000000, 10666666, 0, 35, 1, 2>>, <<22, 6, 1, 10666666, 12000000, 0, 23, 3, -1>>,
      <<23, 6, 1, 12000000, 16000000, 1, 47, 3, -1>>, <<24, 6, 1, 16000000, 18000000, 1, 23, 2, -1>>,
      <<25, 6, 1, 18000000, 21333333, 2, 35, 2, -1>>, <<26, 8, 1, 6000000, 12000000, 0, 31, 3, -1>>,
      <<27, 8, 1, 12000000, 24000000, 1, 31, 2, -1>>, <<28, 8, 1, 24000000, 48000000, 3, 31, 1, -1>>,
      <<29, 10, 1, 6000000, 9600000, 0, 39, 3, -1>>, <<30, 10, 1, 9600000, 12000000, 0, 19, 2, -1>>,
      <<31, 10, 1, 12000000, 19200000, 1, 39, 2, -1>>, <<32, 10, 1, 19200000, 24000000, 1, 19, 1, -1>>,
      <<33, 10, 1, 24000000, 38400000, 3, 39, 1, -1>>, <<34, 12, 1, 6000000, 8000000, 0, 47, 3, -1>>,
      <<35, 12, 1, 8000000, 12000000, 0, 23, 2, -1>>, <<36, 12, 1, 12000000, 16000000, 1, 47, 2, -1>>,
      <<37, 12, 1, 16000000, 24000000, 1, 23, 1, -1>>, <<38, 12, 1, 24000000, 30000000, 3, 47, 1, -1>>,
      <<39, 12, 1, 30000000, 32000000, 3, 47, 1, -1>>, <<40, 14, 1, 6000000, 6857142, 0, 55, 3, -1>>,
      <<41, 14, 1, 6857143, 12000000, 0, 27, 2, -1>>, <<42, 14, 1, 12000000, 13714285, 1, 55, 2, -1>>,
      <<43, 14, 1, 13714286, 24000000, 1, 27, 1, -1>>, <<44, 14, 1, 24000000, 27428571, 3, 55, 1, -1>>,
      <<45, 16, 1, 6000000, 12000000, 0, 31, 2, -1>>, <<46, 16, 1, 12000000, 24000000, 1, 31, 1, -1>>,
      <<47, 18, 1, 6000000, 10666666, 0, 35, 2, -1>>, <<48, 18, 1, 10666667, 12000000, 0, 17, 1, -1>>,
      <<49, 18, 1, 12000000, 21333333, 1, 35, 1, -1>>, <<50, 20, 1, 6000000, 9600000, 0, 39, 2, -1>>,
      <<51, 20, 1, 9600000, 12000000, 0, 19, 1, -1>>, <<52, 20, 1, 12000000, 19200000, 1, 39, 1, -1>>,
      <<53, 22, 1, 6000000, 8727272, 0, 43, 2, -1>>, <<54, 22, 1, 8727273, 12000000, 0, 21, 1, -1>>,
      <<55, 22, 1, 12000000, 17454545, 1, 43, 1, -1>>, <<56, 24, 1, 6000000, 8000000, 0, 47, 2, -1>>,
      <<57, 24, 1, 8000000, 12000000, 0, 23, 1, -1>>, <<58, 24, 1, 12000000, 16000000, 1, 47, 1, -1>>,
      <<59, 26, 1, 6000000, 7384615, 0, 51, 2, -1>>, <<60, 26, 1, 7384616, 12000000, 0, 25, 1, -1>>,
      <<61, 26, 1, 12000000, 14768230, 1, 51, 1, -1>>, <<62, 28, 1, 6000000, 6857142, 0, 55, 2, -1>>,
      <<63, 28, 1, 6857143, 12000000, 0, 27, 1, -1>>, <<64, 28, 1, 12000000, 13714285, 1, 55, 1, -1>>,
      <<65, 30, 1, 6000000, 6400000, 0, 59, 2, -1>>, <<66, 30, 1, 6400000, 12000000, 0, 29, 1, -1>>,
      <<67, 30, 1, 12000000, 12800000, 1, 59, 1, -1>>, <<68, 32, 1, 6000000, 12000000, 0, 31, 1, -1>> }

VARIABLES ref,     \* the rate of pllref, 0 if the board has none
          cfg,     \* pllcfg
          div,     \* plloutdiv; -1 if it does not divide
          edges,   \* mtime edges since the PLL was configured
          stable,  \* the PLL has locked
          op,      \* the call the program is in
          last     \* what was asked of the last call, and its result

vars == <<ref, cfg, div, edges, stable, op, last>>

Idle == [at |-> "idle", percent |-> 0]

\* After a reset the core runs on the ring oscillator.
Init ==
    /\ ref \in RefRates \cup {0}
    /\ cfg = [r |-> 1, f |-> 31, q |-> 3, sel |-> FALSE, refsel |-> FALSE,
              bypass |-> TRUE]
    /\ div = -1
    /\ edges = 0 /\ stable = FALSE
    /\ op = Idle
    /\ last = [rate |-> 0, out |-> 0, input |-> 0]

\* The clock mux before the PLL.
Input == IF cfg.refsel THEN ref ELSE RingRate

-----------------------------------------------------------------------------
(* The PLL: it needs 100 us, four edges and the one that comes early, before
   PLL_LOCK means anything, and then it locks. *)

Edge ==
    /\ op.at = "wait" /\ edges < 6
    /\ edges' = edges + 1
    /\ UNCHANGED <<ref, cfg, div, stable, op, last>>

Settle ==
    /\ ~cfg.bypass /\ edges > 4 /\ ~stable
    /\ stable' = TRUE
    /\ UNCHANGED <<ref, cfg, div, edges, op, last>>

\* __metal_driver_sifive_fe310_g000_pll_get_rate_hz.
RateOf(c, d, input) ==
    IF ~c.sel THEN RingRate
    ELSE IF c.bypass THEN input
    ELSE LET out == ((input \div (c.r + 1)) * 2 * (c.f + 1)) \div <<2, 4, 8>>[c.q]
         IN IF d = -1 THEN out ELSE out \div (2 * (d + 1))

-----------------------------------------------------------------------------
(* The calls. *)

\* A form it must not take: the lower limit of the input is not looked at.
ValidBelow(c, input) == input <= c[5]

\* get_pll_config_freq.
Valid(c, input) == input >= c[4] /\ input <= c[5]

FreqOf(c, input) == (input * c[2]) \div c[3]

Abs(n) == IF n < 0 THEN -n ELSE n

\* The rate that a program asks for.
RateFor(input, percent) == (input \div 100) * percent

NoRow == <<>>

Distance(c, input, rate) == Abs(FreqOf(c, input) - rate)

\* find_closest_config: of the rows that come closest, the last.
FindClosest(input, rate) ==
    LET valid == {c \in pll_configs : Valid(c, input)}
        nearest == {c \in valid : \A b \in valid :
                       Distance(c, input, rate) <= Distance(b, input, rate)}
    IN IF valid = {} THEN NoRow
       ELSE CHOOSE c \in nearest : \A b \in nearest : b[1] <= c[1]

Closest ==
    [input \in RefRates \cup {RingRate} |-> [percent \in Rates |->
        FindClosest(input, RateFor(input, percent))]]

\* The init function deselects the PLL and takes the crystal as its input,
\* then sets the rate, which deselects the PLL too.
InitPll(percent) ==
    /\ op = Idle
    /\ cfg' = [cfg EXCEPT !.sel = FALSE, !.refsel = @ \/ ref # 0]
    /\ op' = [at |-> "choose", percent |-> percent]
    /\ UNCHANGED <<ref, div, edges, stable, last>>

\* A form it must not take: the PLL is changed under the core.
StaysSelected(c) == c

\* "We can't modify the PLL if coreclk is driven by it, so switch it off".
SwitchedOff(c) == [c EXCEPT !.sel = FALSE]

SetRate(percent) ==
    /\ op = Idle
    /\ cfg' = SwitchedOff(cfg)
    /\ op' = [at |-> "choose", percent |-> percent]
    /\ UNCHANGED <<ref, div, edges, stable, last>>

\* A form it must not take: the input is used for all that is below twice it.
NearBelow(input, rate) == rate < input * 2 /\ 2 * rate > input

\* "if the desired rate is within 75%-125% of the input clock".
Near(input, rate) == (input * 3) \div 4 <= rate /\ (input * 5) \div 4 >= rate

Bypass ==
    /\ op.at = "choose"
    /\ \/ Near(Input, RateFor(Input, op.percent))
       \/ Closest[Input][op.percent] = NoRow
    /\ cfg' = [cfg EXCEPT !.bypass = TRUE]
    /\ op' = [op EXCEPT !.at = "select"]
    /\ UNCHANGED <<ref, div, edges, stable, last>>

\* A form it must not take: the PLL is left out, and never locks.
StillBypassed(c) == c

Unbypassed(c) == [c EXCEPT !.bypass = FALSE]

\* configure_pll, up to the wait.
Configure ==
    /\ op.at = "choose"
    /\ ~Near(Input, RateFor(Input, op.percent))
    /\ LET c == Closest[Input][op.percent]
       IN /\ c # NoRow
          /\ cfg' = Unbypassed([cfg EXCEPT !.r = c[6], !.f = c[7], !.q = c[8]])
          /\ div' = c[9]
    /\ edges' = 0 /\ stable' = FALSE
    /\ op' = [op EXCEPT !.at = "wait"]
    /\ UNCHANGED <<ref, last>>

\* A form it must not take: the fourth edge ends the wait.
WaitedLess == edges >= 4

\* "while (mtime <= mtime_end)".
Waited == edges > 4

\* PLL_LOCK is set when the PLL has locked; before 100 us it may be anyhow.
Lock ==
    /\ op.at = "wait" /\ Waited
    /\ stable \/ edges <= 4
    /\ op' = [op EXCEPT !.at = "select"]
    /\ UNCHANGED <<ref, cfg, div, edges, stable, last>>

Select ==
    /\ op.at = "select"
    /\ cfg' = [cfg EXCEPT !.sel = TRUE]
    /\ last' = [rate |-> RateFor(Input, op.percent), out |-> RateOf(cfg', div, Input),
                input |-> Input]
    /\ op' = Idle
    /\ UNCHANGED <<ref, div, edges, stable>>

Next ==
    \/ Edge \/ Settle \/ Bypass \/ Configure \/ Lock \/ Select
    \/ \E percent \in Rates : InitPll(percent) \/ SetRate(percent)

Fairness == WF_vars(Edge) /\ WF_vars(Settle)
            /\ WF_vars(Bypass \/ Configure \/ Lock \/ Select)

Spec == Init /\ [][Next]_vars /\ Fairness

-----------------------------------------------------------------------------

TypeOK ==
    /\ ref \in RefRates \cup {0}
    /\ cfg \in [r : 0 .. 7, f : 0 .. 63, q : 1 .. 3, sel : BOOLEAN,
                refsel : BOOLEAN, bypass : BOOLEAN]
    /\ div \in -1 .. 63
    /\ edges \in 0 .. 6 /\ stable \in BOOLEAN
    /\ op.at \in {"idle", "choose", "wait", "select"}

\* "The PLL needs 100 usec to stabilize before we test PLL_LOCK": the core is
\* driven by the PLL only while that has locked with the configuration it has.
CoreClockIsStable == cfg.sel /\ ~cfg.bypass => stable

\* The limits of the PLL: a core it drives sees an input divided to 6 to 12
\* MHz, an oscillator of 384 to 768 MHz, 1 Hz of rounding aside, whatever row
\* of the table the input and the rate have led to.
WithinLimits ==
    cfg.sel /\ ~cfg.bypass =>
        LET refr == Input \div (cfg.r + 1)
        IN /\ 6000000 <= refr /\ refr <= 12000000
           /\ 383999900 <= refr * 2 * (cfg.f + 1)
           /\ refr * 2 * (cfg.f + 1) <= 768000100

\* "Find a valid configuration for the PLL which is closest to the desired
\* output frequency": no row of the table that is valid for the input comes
\* closer to the rate that was asked for than the one that was returned, also
\* if the PLL was bypassed; the rounding of the divisions aside.
RateIsClosest ==
    LET error == Abs(last.out - last.rate)
    IN \A c \in pll_configs :
          last.input # 0 /\ Valid(c, last.input) =>
              error <= Distance(c, last.input, last.rate) + 128

\* Once the oscillators run every call returns.
EveryCallReturns == op # Idle ~> op = Idle

=============================================================================
