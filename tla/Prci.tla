-------------------------------- MODULE Prci --------------------------------
(***************************************************************************)
(* The clock set-up of the FU540 and FU740, src/drivers/sifive_prci0.c: a  *)
(* constructor that writes the registers of several PLLs, waits for each   *)
(* to lock, and puts the core and the devices on them.  The PLLs lock when *)
(* they like; the core runs meanwhile.                                     *)
(***************************************************************************)
EXTENDS Integers, Sequences

CONSTANT Starts   \* how the core is clocked before, of "reset" and "running"

PrciAssumption == Starts \subseteq {"reset", "running"}

VARIABLES board,     \* which of the two parts it is
          straps,    \* what its read-only registers say
          job,       \* where the constructor is: the PLL or the switch ...
          stage,     \* ... and the step of it
          pll,       \* the registers of each PLL
          core,      \* what the core runs on
          pclk,      \* what the peripheral bus runs on
          released   \* the devices that are out of reset

vars == <<board, straps, job, stage, pll, core, pclk, released>>

Plls == {"core", "hfpclk", "cltx", "gemgxl"}
Straps == SUBSET {"tlclksel", "hfpclk", "cltx"}
Unset == [f |-> 31, q |-> 3, bypass |-> TRUE, locked |-> FALSE, out |-> FALSE]

PowerOfTwo == [q \in 0 .. 7 |-> <<1, 2, 4, 8, 16, 32, 64, 128>>[q + 1]]

\* The reference in units of 10 kHz, and what a PLL makes of it.
Reference == IF board = "fu540" THEN 3333 ELSE 2600
Output(p) == (Reference * 2 * (pll[p].f + 1)) \div PowerOfTwo[pll[p].q]
Megahertz(r) == r \div 100

-----------------------------------------------------------------------------
(* The constructor, a PLL or a switch after the other. *)

Job(what, p, f, q) == [do |-> what, pll |-> p, f |-> f, q |-> q]

\* Forms it must not take: the output is enabled, and what follows it begins,
\* while the PLL may still be unlocked; ...
Unlocked == <<"write", "out">>

\* ... a PLL is left in bypass.
Bypassed == <<"bypass", "hold", "wait", "out">>

\* The configuration is written, at once or in bypass, the lock awaited, and
\* the output divided by 1 and enabled.
Direct == <<"write", "wait", "out">>
InBypass == <<"bypass", "hold", "unbypass", "wait", "out">>

Stages(what) ==
    CASE what = "direct" -> Direct
      [] what = "inBypass" -> InBypass
      [] OTHER -> <<what>>

\* A form it must not take: the rate of the core does not depend on the bus.
OneCoreDivider(s) == 2

\* The bus runs at the rate of the core, or at half of it.
CoreDivider(s) == IF "tlclksel" \in s THEN 3 ELSE 2

Release(d) == Job("release", d, 0, 0)

Fu540(s) ==
    <<Job("direct", "core", 59, CoreDivider(s)), Job("core", "core", 0, 0),
      Job("direct", "gemgxl", 59, 5), Release("gemgxl")>>

Fu740(s) ==
    LET c == Job("direct", "core", 76, CoreDivider(s))
        g == Job("inBypass", "gemgxl", 76, 5)
    IN IF "hfpclk" \in s
       THEN <<c, Job("core", "core", 0, 0), Job("inBypass", "hfpclk", 79, 4),
              Job("pclk", "hfpclk", 0, 0), g, Release("gemgxl"), Release("cltx")>>
       ELSE IF "cltx" \in s
       THEN <<c, Job("core", "core", 0, 0), Job("inBypass", "cltx", 79, 4), g,
              Release("gemgxl"), Release("cltx")>>
       ELSE <<c, Job("core", "core", 0, 0), g, Release("gemgxl"), Release("cltx")>>

Jobs == IF board = "fu540" THEN Fu540(straps) ELSE Fu740(straps)

Init ==
    /\ board \in {"fu540", "fu740"}
    /\ straps \in Straps
    /\ \E start \in Starts :
          /\ core = IF start = "reset" THEN "hfxin" ELSE "core"
          /\ pll = [p \in Plls |->
                      IF start = "running" /\ p = "core"
                      THEN [Unset EXCEPT !.bypass = FALSE, !.locked = TRUE,
                                         !.out = TRUE]
                      ELSE Unset]
    /\ pclk = "hfxin"
    /\ released = {}
    /\ job = 1 /\ stage = 1

-----------------------------------------------------------------------------
(* What a step does, and what a PLL does. *)

\* A PLL whose factors change has to lock again.
Written(p, f, q, bypass) ==
    [pll EXCEPT ![p] =
        [f |-> f, q |-> q, bypass |-> bypass,
         locked |-> pll[p].locked /\ pll[p].f = f /\ pll[p].q = q, out |-> pll[p].out]]

Run(what) ==
    /\ job <= Len(Jobs)
    /\ LET stages == Stages(Jobs[job].do)
       IN /\ stages[stage] = what
          /\ IF stage < Len(stages) THEN stage' = stage + 1 /\ UNCHANGED job
                                    ELSE stage' = 1 /\ job' = job + 1

Configure ==
    /\ LET j == Jobs[job]
       IN \/ Run("write") /\ pll' = Written(j.pll, j.f, j.q, FALSE)
          \/ Run("hold") /\ pll' = Written(j.pll, j.f, j.q, TRUE)
          \/ Run("bypass") /\ pll' = [pll EXCEPT ![j.pll].bypass = TRUE]
          \/ Run("unbypass") /\ pll' = [pll EXCEPT ![j.pll].bypass = FALSE]
          \/ Run("wait") /\ pll[j.pll].locked /\ UNCHANGED pll
          \/ Run("out") /\ pll' = [pll EXCEPT ![j.pll].out = TRUE]
    /\ UNCHANGED <<board, straps, core, pclk, released>>

SelectCore ==
    /\ Run("core")
    /\ core' = "core"
    /\ UNCHANGED <<board, straps, pll, pclk, released>>

SelectPclk ==
    /\ Run("pclk")
    /\ pclk' = "hfpclk"
    /\ UNCHANGED <<board, straps, core, pll, released>>

ReleaseDevice ==
    /\ Run("release")
    /\ released' = released \cup {Jobs[job].pll}
    /\ UNCHANGED <<board, straps, core, pll, pclk>>

Locks(p) ==
    /\ ~pll[p].locked /\ pll[p].f # Unset.f
    /\ pll' = [pll EXCEPT ![p].locked = TRUE]
    /\ UNCHANGED <<board, straps, job, stage, core, pclk, released>>

InitStep == Configure \/ SelectCore \/ SelectPclk \/ ReleaseDevice

Next == InitStep \/ \E p \in Plls : Locks(p)

Fairness == WF_vars(InitStep) /\ \A p \in Plls : WF_vars(Locks(p))

Spec == Init /\ [][Next]_vars /\ Fairness

-----------------------------------------------------------------------------

TypeOK ==
    /\ board \in {"fu540", "fu740"} /\ straps \in Straps
    /\ job \in 1 .. Len(Jobs) + 1 /\ stage \in 1 .. 5
    /\ pll \in [Plls -> [f : 0 .. 511, q : 0 .. 7, bypass : BOOLEAN,
                         locked : BOOLEAN, out : BOOLEAN]]
    /\ {core, pclk} \subseteq {"hfxin", "core", "hfpclk"}
    /\ released \subseteq {"gemgxl", "cltx"}

\* The first job is the core's PLL: it is written under a core that may run on
\* it already, which then has an unlocked clock until the lock comes.
CoreIsSetUp == job > 1

\* The PLLs that something runs on.  ChipLink, which the FU740 releases at the
\* end, has its own if the board has that PLL; with an HFPCLK PLL as well the
\* code sets up only the latter, and ChipLink is released on a PLL that was
\* never started (sifive_prci0.c:212 and 259).
InUse ==
    {c \in {core} : CoreIsSetUp} \cup {pclk}
        \cup {d \in released :
                d = "cltx" => "cltx" \in straps /\ "hfpclk" \notin straps}

\* The core after its PLL was set up, also if it ran on that before, the
\* peripheral bus, and a device out of reset (not ChipLink on a board with both
\* an HFPCLK and a CLTX PLL) run on PLLs that have locked and are neither
\* bypassed nor switched off.
ClocksAreStable ==
    \A p \in Plls \cap InUse : pll[p].locked /\ ~pll[p].bypass /\ pll[p].out

\* "500 MHz", "1 GHz", "125mhz", "250mhz" (the comments and names of
\* sifive_prci0.c): the bus never runs faster than 501 MHz, as fast as the core
\* or half as fast, and an output is within 5 % of the rate it is named for.
RatesAreAsNamed ==
    LET Bus == IF "tlclksel" \in straps THEN Output("core")
                                        ELSE Output("core") \div 2
    IN /\ core = "core" /\ CoreIsSetUp => Megahertz(Bus) \in 499 .. 501
       /\ "gemgxl" \in released => Megahertz(Output("gemgxl")) \in 119 .. 131
       /\ pclk = "hfpclk" => Megahertz(Output("hfpclk")) \in 238 .. 262

\* The constructor returns, with the core on its PLL: every lock it waits for
\* comes.
InitReturns == <>(job > Len(Jobs) /\ core = "core")

=============================================================================
