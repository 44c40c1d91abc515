------------------------------ MODULE Remapper ------------------------------
(***************************************************************************)
(* The address remapper, src/drivers/sifive_remapper2.c under              *)
(* metal/remapper.h.  A write to a register takes effect only if the key   *)
(* was written just before; an entry is two registers, and the valid bits  *)
(* of all entries are in several.                                          *)
(***************************************************************************)
EXTENDS Integers, Sequences

CONSTANTS Entries,   \* the entries, numbered from 0
          Width,     \* the entries whose valid bits are in one register
          RegsNum,   \* METAL_SIFIVE_REMAPPER2_VALID_REGS_NUM
          Regions    \* what a from or a to address may name

RemapperAssumption ==
    /\ Width \in Nat \ {0} /\ RegsNum \in Nat \ {0}
    /\ Entries \subseteq 0 .. (Width * RegsNum) - 1
    /\ "unset" \notin Regions

VARIABLES key,          \* the key was written
          valid,        \* the entries whose valid bit is set
          from, to,     \* the registers of each entry
          steps,        \* what is left of the call that runs, up to the ...
          loop,         \* ... registers that its loop has still to go through
          seen,         \* what it read of a valid register
          on, asked     \* the entries, and the mappings, the program asked for

regs == <<key, valid, from, to>>
vars == <<regs, steps, loop, seen, on, asked>>

Unset == "unset"
Reg(i) == i \div Width
ValidRegs == 0 .. RegsNum - 1
InReg(r) == {i \in Entries : Reg(i) = r}

NoLoop == [next |-> RegsNum, set |-> {}, enable |-> FALSE]

Init ==
    /\ key = FALSE /\ valid = {}
    /\ from = [i \in Entries |-> Unset] /\ to = [i \in Entries |-> Unset]
    /\ steps = <<>> /\ loop = NoLoop /\ seen = {}
    /\ on = {}
    /\ asked = [i \in Entries |-> [from |-> Unset, to |-> Unset]]

-----------------------------------------------------------------------------
(* The calls, as the registers they access. *)

Key == [do |-> "key"]
Read(r) == [do |-> "read", reg |-> r]
Write(r, set, clear) == [do |-> "valid", reg |-> r, set |-> set, clear |-> clear]
From(i, x) == [do |-> "from", entry |-> i, region |-> x]
To(i, x) == [do |-> "to", entry |-> i, region |-> x]

\* metal_remapper_enable_remap and _disable_remap.
OneRemap(i, enable) ==
    LET bit == InReg(Reg(i)) \cap {i} IN
    <<Key, Read(Reg(i)), Write(Reg(i), IF enable THEN bit ELSE {}, bit)>>

\* A form it must not take: the key is written once for all registers.
RemapsWithOneKey(r, set, enable) ==
    LET bits == InReg(r) \cap set
        write == Write(r, IF enable THEN bits ELSE {}, bits)
    IN IF r = 0 THEN <<Key, Read(r), write>> ELSE <<Read(r), write>>

\* What metal_remapper_enable_remaps and _disable_remaps do to a register.
Remaps(r, set, enable) ==
    LET bits == InReg(r) \cap set IN
    <<Read(r), Key, Write(r, IF enable THEN bits ELSE {}, bits)>>

\* A form it must not take: the key is written once for both registers.
SetWithOneKey(i, x, y) == <<Key, From(i, x), To(i, y)>>

\* metal_remapper_set_remap.
SetRemapSteps(i, x, y) == <<Key, From(i, x), Key, To(i, y)>>

\* metal_remapper_set_valid.
SetValidSteps(r, set) == <<Key, Write(r, set, InReg(r))>>

Returned == steps = <<>> /\ UNCHANGED <<regs, seen>>

EnableRemap(i, enable) ==
    /\ Returned
    /\ steps' = OneRemap(i, enable)
    /\ on' = IF enable THEN on \cup {i} ELSE on \ {i}
    /\ UNCHANGED <<loop, asked>>

\* The loop begins with the first register.
EnableRemaps(set, enable) ==
    /\ Returned
    /\ steps' = Remaps(0, set, enable)
    /\ loop' = [next |-> 1, set |-> set, enable |-> enable]
    /\ on' = IF enable THEN on \cup set ELSE on \ set
    /\ UNCHANGED asked

SetValid(r, set) ==
    /\ Returned
    /\ steps' = SetValidSteps(r, set)
    /\ on' = (on \ InReg(r)) \cup set
    /\ UNCHANGED <<loop, asked>>

\* metal_remapper_flush.
Flush ==
    /\ Returned
    /\ steps' = <<Key, [do |-> "flush"]>>
    /\ on' = {}
    /\ UNCHANGED <<loop, asked>>

\* The program changes the mapping of an entry that is disabled.
SetRemap(i, x, y) ==
    /\ Returned
    /\ i \notin on
    /\ steps' = SetRemapSteps(i, x, y)
    /\ asked' = [asked EXCEPT ![i] = [from |-> x, to |-> y]]
    /\ UNCHANGED <<loop, on>>

-----------------------------------------------------------------------------
(* The registers. *)

\* The step is the next one; after the last the loop goes on, or is over.
Do(what) ==
    /\ steps # <<>> /\ Head(steps).do = what
    /\ \/ /\ Len(steps) > 1
          /\ steps' = Tail(steps)
          /\ UNCHANGED loop
       \/ /\ Len(steps) = 1 /\ loop.next < RegsNum
          /\ steps' = Remaps(loop.next, loop.set, loop.enable)
          /\ loop' = [loop EXCEPT !.next = @ + 1]
       \/ /\ Len(steps) = 1 /\ loop.next = RegsNum
          /\ steps' = <<>>
          /\ loop' = NoLoop

WriteKey ==
    /\ Do("key")
    /\ key' = TRUE
    /\ UNCHANGED <<valid, from, to, seen, on, asked>>

ReadValid ==
    /\ Do("read")
    /\ seen' = valid \cap InReg(Head(steps).reg)
    /\ UNCHANGED <<regs, on, asked>>

\* What is written, without the key, is lost; the key serves one write.
WriteRegister ==
    LET s == Head(steps) IN
    /\ \/ /\ Do("valid")
          /\ valid' = IF key THEN (valid \ InReg(s.reg)) \cup
                                  ((seen \ s.clear) \cup s.set) ELSE valid
          /\ UNCHANGED <<from, to>>
       \/ /\ Do("from")
          /\ from' = IF key THEN [from EXCEPT ![s.entry] = s.region] ELSE from
          /\ UNCHANGED <<valid, to>>
       \/ /\ Do("to")
          /\ to' = IF key THEN [to EXCEPT ![s.entry] = s.region] ELSE to
          /\ UNCHANGED <<valid, from>>
       \/ /\ Do("flush")
          /\ valid' = IF key THEN {} ELSE valid
          /\ UNCHANGED <<from, to>>
    /\ key' = FALSE
    /\ seen' = {}
    /\ UNCHANGED <<on, asked>>

Next ==
    \/ \E i \in Entries : \E enable \in BOOLEAN : EnableRemap(i, enable)
    \/ \E set \in SUBSET Entries, enable \in BOOLEAN : EnableRemaps(set, enable)
    \/ \E r \in ValidRegs : \E set \in SUBSET InReg(r) : SetValid(r, set)
    \/ \E i \in Entries, x, y \in Regions : SetRemap(i, x, y)
    \/ Flush \/ WriteKey \/ ReadValid \/ WriteRegister

Spec == Init /\ [][Next]_vars

-----------------------------------------------------------------------------

TypeOK ==
    /\ key \in BOOLEAN
    /\ {valid, seen, on} \subseteq SUBSET Entries
    /\ from \in [Entries -> Regions \cup {Unset}]
    /\ to \in [Entries -> Regions \cup {Unset}]
    /\ loop \in [next : 1 .. RegsNum, set : SUBSET Entries, enable : BOOLEAN]

\* "@return 0 If no error" (remapper.h): when no call runs, the entries that are
\* valid are those the program enabled last, over all registers.
RemapsAsAsked == steps = <<>> => valid = on

\* An entry maps, at every moment at which it is valid, all of what the program
\* asked for last: the memory never sees the half of a change.
MappingsAreWhole ==
    \A i \in valid : asked[i] = [from |-> from[i], to |-> to[i]]

=============================================================================
