--------------------------------- MODULE Pmp ---------------------------------
(***************************************************************************)
(* Physical memory protection, src/pmp.c, for the hart that runs it.  The  *)
(* configurations of several regions share a register: a call reads the    *)
(* one of its region, clears the byte and sets it again.                   *)
(***************************************************************************)
EXTENDS Integers, FiniteSets, FiniteSetsExt

CONSTANTS Num,          \* _pmp_regions()
          XLen,         \* 32 or 64, the width of the registers
          Grain,        \* the granularity of the hart
          Modes,        \* the address modes that programs use
          Perms,        \* of "R", "W", "X" those that programs use
          Addresses     \* the values of pmpaddr that programs use

PmpAssumption ==
    /\ Num \in 1 .. 16 /\ XLen \in {32, 64} /\ Grain \in Nat
    /\ Modes \subseteq {"off", "tor", "na4", "napot"} /\ "off" \in Modes
    /\ Perms \subseteq {"R", "W", "X"}
    /\ Addresses \subseteq 0 .. 2 ^ 16 /\ 0 \in Addresses

Regions == 0 .. Num - 1
Off == [L |-> FALSE, A |-> "off", P |-> {}]
\* The byte 0xFF.
Ones == [L |-> TRUE, A |-> "napot", P |-> Perms]

VARIABLES cfg,     \* the bytes of the pmpcfg registers
          addr,    \* the pmpaddr registers
          grain,   \* pmp->_granularity of this hart
          last     \* the last call that named a region, and its result

vars == <<cfg, addr, grain, last>>

Init ==
    /\ cfg = [r \in Regions |-> Off]
    /\ addr = [r \in Regions |-> 0]
    /\ grain = 0
    /\ last = [region |-> -1, rc |-> 0, cfg |-> Off, addr |-> 0]

-----------------------------------------------------------------------------
(* Registers. *)

\* The address of a region is where a locked TOR region above it begins.
IsLowerBound(r) == r + 1 \in Regions /\ cfg[r + 1].L /\ cfg[r + 1].A = "tor"

\* A locked region, and the one below a locked TOR region, keeps its address.
AddressFixed(r) == cfg[r].L \/ IsLowerBound(r)

\* The bytes that 0xFF << (8 * lane) covers, an int that is converted to the
\* width of the register.  With 32 bits there are 4 bytes, the one of r.  With
\* 64 there are 8: from bit 31 on the sign is extended, and a shift by 32 and
\* more is taken modulo 32, as the shift instruction for an int does.
Lanes(r) ==
    IF XLen = 32 THEN {r}
    ELSE LET base == r - (r % 8)
             lane == (r % 8) % 4
         IN {q \in Regions : \/ q = base + lane
                             \/ lane = 3 /\ q \in base + 3 .. base + 7}

\* A form it must not take: the other bytes of the register are not kept.
WrittenWhole(r, config) ==
    [q \in Regions |-> IF cfg[q].L THEN cfg[q]
                       ELSE IF q = r THEN config ELSE Off]

\* csrc and csrs: the byte the value was shifted to gets it, those that the
\* sign fills get ones if the topmost bit of the value, the lock, is set.
\* Locked bytes keep what they hold.
Written(r, config) ==
    [q \in Regions |->
        IF q \notin Lanes(r) \/ cfg[q].L THEN cfg[q]
        ELSE IF q = Min(Lanes(r)) THEN config
        ELSE IF config.L THEN Ones ELSE Off]

-----------------------------------------------------------------------------
(* Calls. *)

\* _get_pmpaddr_granularity.
GrainOf(address) ==
    2 ^ (Min({i \in 0 .. 17 : (address \div 2 ^ i) % 2 = 0}) + 3)

\* A form it must not take: the address of a larger region is not looked at.
TooSmallOnlyNa4(config, address) == config.A = "na4" /\ grain > 4

TooSmall(config, address) ==
    \/ config.A = "na4" /\ grain > 4
    \/ config.A = "napot" /\ grain > GrainOf(address)

\* A form it must not take: the address is written after the configuration.
AddressTakenAfter(r, config) == ~AddressFixed(r) /\ ~config.L

\* "Update the address first, because if the region is being locked we won't
\* be able to modify it after".
AddressTaken(r, config) == ~AddressFixed(r)

\* metal_pmp_set_region.  A region beyond the last one is refused, the number
\* of regions itself is not, and has registers that ignore what is written.
SetRegion(r, config, address) ==
    LET rc == CASE TooSmall(config, address) -> 3
                [] r \in Regions /\ cfg[r].L -> 4
                [] OTHER -> 0
        ok == rc = 0 /\ r \in Regions
    IN /\ addr' = IF ok /\ AddressTaken(r, config) THEN [addr EXCEPT ![r] = address]
                                                  ELSE addr
       /\ cfg' = IF ok /\ cfg[r] # config THEN Written(r, config) ELSE cfg
       /\ last' = IF rc = 0
                    THEN [region |-> r, rc |-> 0, cfg |-> config, addr |-> address]
                    ELSE [region |-> r, rc |-> rc, cfg |-> Off, addr |-> 0]
       /\ UNCHANGED grain

\* metal_pmp_get_region: the number of regions itself reads as 0.
ReadCfg(r) == IF r \in Regions THEN cfg[r] ELSE Off
ReadAddr(r) == IF r \in Regions THEN addr[r] ELSE 0

\* metal_pmp_init: what is not locked is turned off; writing ones to the first
\* address shows the granularity, unless that region is locked.
InitPmp ==
    /\ cfg' = [r \in Regions |-> IF cfg[r].L THEN cfg[r] ELSE Off]
    /\ addr' = [r \in Regions |-> IF cfg[r].L \/ AddressFixed(r) THEN addr[r]
                                  ELSE 0]
    /\ grain' = IF cfg[0].L THEN grain ELSE Grain
    /\ last' = [last EXCEPT !.region = -1]

\* Programs initialise the device first.
MaySet == grain > 0

Configure(r, config, address) == MaySet /\ SetRegion(r, config, address)

\* metal_pmp_lock has nothing to do for a region that is locked.
Lock(r) ==
    /\ MaySet /\ ~ReadCfg(r).L
    /\ SetRegion(r, [ReadCfg(r) EXCEPT !.L = TRUE], ReadAddr(r))

SetAddress(r, address) ==
    /\ MaySet /\ SetRegion(r, ReadCfg(r), address)

SetAddressMode(r, mode) ==
    /\ MaySet
    /\ SetRegion(r, [ReadCfg(r) EXCEPT !.A = mode], ReadAddr(r))

\* metal_pmp_set_executable, _writeable and _readable.
SetPermission(r, p, on) ==
    LET config == [ReadCfg(r) EXCEPT !.P = IF on THEN @ \cup {p} ELSE @ \ {p}]
    IN MaySet /\ SetRegion(r, config, ReadAddr(r))

Configs == [L : BOOLEAN, A : Modes, P : SUBSET Perms]

Next ==
    \/ InitPmp
    \/ \E r \in 0 .. Num :
          \/ Lock(r)
          \/ \E config \in Configs, address \in Addresses :
                Configure(r, config, address)
          \/ \E address \in Addresses : SetAddress(r, address)
          \/ \E mode \in Modes : SetAddressMode(r, mode)
          \/ \E p \in Perms, on \in BOOLEAN : SetPermission(r, p, on)

Spec == Init /\ [][Next]_vars

-----------------------------------------------------------------------------

TypeOK ==
    /\ cfg \in [Regions -> [L : BOOLEAN, A : Modes \cup {"napot"},
                            P : SUBSET Perms]]
    /\ addr \in [Regions -> Addresses]
    /\ grain \in {0, Grain}
    /\ last \in [region : -1 .. Num, rc : {0, 3, 4},
                 cfg : [L : BOOLEAN, A : Modes, P : SUBSET Perms],
                 addr : Addresses]

\* "Configure a PMP region" (metal/pmp.h): a call changes the region it names
\* and no other, though they share a register.
OnlyTheNamedRegion ==
    [][\A r \in Regions :
          cfg'[r] # cfg[r] /\ last'.region # -1 => r = last'.region]_vars

\* "@return 0 if the address is successfully set", "... if the region is
\* successfully locked": after a call that returned 0 the region holds the
\* configuration that was asked for, and the address, unless that is where a
\* locked TOR region begins: the code does not look at the region above, the
\* hart ignores the write of the address, and the call returns 0 (pmp.c:151).
SuccessMeansSet ==
    last.region \in Regions /\ last.rc = 0 =>
        /\ cfg[last.region] = last.cfg
        /\ ~IsLowerBound(last.region) => addr[last.region] = last.addr

\* "The requested granularity is too small" (pmp.c): whichever call came
\* last, for the mode or for the address, a region that is on is not smaller
\* than the hart can protect, unless its address could not be set.
RegionsAreLargeEnough ==
    \A r \in Regions : ~IsLowerBound(r) =>
        /\ cfg[r].A = "na4" => Grain <= 4
        /\ cfg[r].A = "napot" => ~(Grain > GrainOf(addr[r]))

=============================================================================
