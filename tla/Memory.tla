-------------------------------- MODULE Memory ------------------------------
(***************************************************************************)
(* The memory that holds an address: metal_get_memory_from_address in      *)
(* src/memory.c, whose bounds are words that wrap, and metal_lock_init     *)
(* (metal/lock.h), which asks it whether a lock lies where atomics work.   *)
(***************************************************************************)
EXTENDS Naturals, FiniteSetsExt

CONSTANTS Word,    \* 2^XLEN
          Blocks,  \* the memories a device tree may have
          None     \* NULL

MemoryAssumption ==
    /\ Word \in Nat \ {0}
    /\ \A m \in Blocks : m.base \in 0 .. Word - 1 /\ m.size \in 0 .. Word
    /\ None \notin Blocks

VARIABLES table,   \* __metal_memory_table
          address, found,   \* the argument and the result of the last call
          lockRc   \* what metal_lock_init returned for a lock there

vars == <<table, address, found, lockRc>>

\* Memories of a device tree do not overlap.
Holds(m, a) == m.base <= a /\ a < m.base + m.size
Disjoint(m, n) == \A a \in 0 .. Word - 1 : ~(Holds(m, a) /\ Holds(n, a))

Init ==
    /\ table \in {t \in Blocks \X Blocks : Disjoint(t[1], t[2])}
    /\ address = 0 /\ found = None /\ lockRc = 1

-----------------------------------------------------------------------------

\* A form it must not take: the first address after a memory is in it.
UpperPastEnd(m) == (m.base + m.size) % Word

Upper(m) == (m.base + ((m.size + Word - 1) % Word)) % Word

\* A memory that wraps around is ignored.
Matches(m, a) == m.base <= Upper(m) /\ m.base <= a /\ a <= Upper(m)

\* metal_get_memory_from_address: the first that matches.
Lookup(a) ==
    LET matching == {i \in DOMAIN table : Matches(table[i], a)}
    IN IF matching = {} THEN None ELSE table[Min(matching)]

\* metal_lock_init, on harts with atomics.
LockInit(m) == CASE m = None -> 1 [] m # None /\ ~m.atomics -> 2 [] OTHER -> 0

Call(a) ==
    /\ address' = a
    /\ found' = Lookup(a)
    /\ lockRc' = LockInit(found')
    /\ UNCHANGED table

Next == \E a \in 0 .. Word - 1 : Call(a)

Spec == Init /\ [][Next]_vars

-----------------------------------------------------------------------------

TypeOK == address \in 0 .. Word - 1 /\ found \in Blocks \cup {None} /\ lockRc \in 0 .. 2

\* A memory that the device tree may describe: not empty, and it may reach the
\* last address but not wrap.
IsMemory(m) == m.size > 0 /\ m.base + m.size <= Word

\* What a call finds is the memory that holds the address, and nothing where
\* there is none, though an end may be at the top of the address space; and a
\* lock is initialised only where a memory with atomics holds it.
FindsTheMemory ==
    (address # 0 \/ found # None) /\ (\A i \in DOMAIN table : IsMemory(table[i])) =>
        /\ found # None => Holds(found, address)
        /\ found = None => \A i \in DOMAIN table : ~Holds(table[i], address)
        /\ lockRc = 0 => \E i \in DOMAIN table :
                             Holds(table[i], address) /\ table[i].atomics

=============================================================================
