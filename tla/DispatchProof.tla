---------------------------- MODULE DispatchProof ----------------------------
(***************************************************************************)
(* Proofs about Dispatch for any set of harts, any controllers and any     *)
(* number of calls.  The inductive invariant says in which order the       *)
(* controllers come up, that an entry holds what was last registered for   *)
(* it, that nothing is enabled before it was registered, and where the     *)
(* CLINT has already put itself.                                           *)
(***************************************************************************)
EXTENDS Dispatch, WellFoundedInduction, TLAPS

(* Numbers have a least one. *)
LEMMA MinIsLeast ==
    ASSUME NEW S \in SUBSET Nat, S # {}
    PROVE  Min(S) \in S /\ \A y \in S : Min(S) <= y
  <1>. DEFINE R == {ss \in Nat \X Nat : ss[1] < ss[2]}
  <1>1. IsWellFoundedOn(R, Nat)
    BY NatLessThanWellFounded DEF OpToRel
  <1>2. PICK x \in S : \A y \in S : ~(<<y, x>> \in R)
    <2>. HIDE DEF R
    <2>. QED  BY <1>1, WFMin
  <1>3. ASSUME NEW y \in S PROVE x <= y
    <2>1. <<y, x>> \in Nat \X Nat /\ <<y, x>>[1] = y /\ <<y, x>>[2] = x
      OBVIOUS
    <2>2. y < x => <<y, x>> \in R
      BY <2>1
    <2>3. x \in Nat /\ y \in Nat
      OBVIOUS
    <2>. HIDE DEF R
    <2>. QED  BY <1>2, <2>2, <2>3
  <1>. QED  BY <1>3 DEF Min

-----------------------------------------------------------------------------
(* Types. *)

Works == [op : {"idle", "clear", "clint", "parent", "attach"},
          on : Harts, next : {"idle", "attach"}, todo : SUBSET Harts]

Traps == [fn : Functions \cup {"none", "stray", "early", "own"},
          data : {"none", "null", "user"} \cup Children,
          id : Ids \cup Codes \cup {"none"}]

(* A loop over the parents is that of a controller of the board, and has a *)
(* parent left.                                                            *)
WorkFits ==
    \A h \in Harts :
        /\ work[h].op = "clint" => "clint" \in Children
        /\ work[h].op \in {"parent", "attach"} \/ work[h].next = "attach"
              => "plic" \in Children
        /\ work[h].op \in {"clint", "parent", "attach"} \/ work[h].next = "attach"
              => work[h].todo # {}

TypeInv == TypeOK /\ WorkFits

LEMMA ParentIsHart ==
    ASSUME DispatchAssumption, TypeInv, NEW h \in Harts, work[h].todo # {}
    PROVE  /\ Min(work[h].todo) \in work[h].todo
           /\ Min(work[h].todo) \in Harts
           /\ \A g \in work[h].todo : Min(work[h].todo) <= g
  <1>1. work[h].todo \in SUBSET Nat /\ work[h].todo \subseteq Harts
    BY DEF DispatchAssumption, TypeInv, TypeOK
  <1>. QED  BY <1>1, MinIsLeast

LEMMA TypeInitially ==
    ASSUME DispatchAssumption, Init
    PROVE  TypeInv
  <1>1. TypeOK
    BY DEF DispatchAssumption, Init, TypeOK, Empty, Idle, NoTrap, Entries,
           Functions, Lines, Ids, Codes
  <1>2. WorkFits
    BY DEF DispatchAssumption, Init, WorkFits, Idle
  <1>. QED  BY <1>1, <1>2 DEF TypeInv

(* What a registration leaves in an entry has its type. *)
LEMMA EntryType ==
    ASSUME NEW e \in Entries, NEW id, NEW isr \in BOOLEAN,
           NEW who \in {"user"} \cup Children,
           isr => who \in {"user", "plic"}
    PROVE  /\ Entry(e, id, isr, who) \in Entries
           /\ DefaultOf(id) \in Functions
  BY DEF Entry, DefaultOf, Entries, Functions

LEMMA RegisterType ==
    ASSUME TypeInv, NEW h \in Harts, NEW on \in Harts, NEW id \in Ids,
           NEW isr \in BOOLEAN, NEW who \in {"user"} \cup Children,
           isr => who \in {"user", "plic"},
           Register(h, on, id, isr, who)
    PROVE  /\ table' \in [Harts -> [Lines -> Entries]]
           /\ beu' \in [Harts -> Entries]
           /\ asked' \in [Harts -> [Lines \cup {"beu"} -> Functions \cup {"nothing"}]]
  <1>. table \in [Harts -> [Lines -> Entries]] /\ beu \in [Harts -> Entries]
       /\ asked \in [Harts -> [Lines \cup {"beu"} -> Functions \cup {"nothing"}]]
    BY DEF TypeInv, TypeOK
  <1>1. \A e \in Entries : Entry(e, id, isr, who) \in Entries
    BY EntryType
  <1>2. (IF isr THEN who ELSE DefaultOf(id)) \in Functions
    BY EntryType DEF DefaultOf, Functions
  <1>3. table' \in [Harts -> [Lines -> Entries]]
    BY <1>1 DEF Register
  <1>4. beu' \in [Harts -> Entries]
    BY <1>1 DEF Register
  <1>5. asked' \in [Harts -> [Lines \cup {"beu"} -> Functions \cup {"nothing"}]]
    BY <1>2 DEF Register, Ids, Lines
  <1>. QED  BY <1>3, <1>4, <1>5

LEMMA NextParentType ==
    ASSUME DispatchAssumption, TypeInv, NEW h \in Harts,
           NEW op \in {"clint", "parent"}, NEW child \in Children,
           op = "clint" => child = "clint", op = "parent" => child = "plic",
           NextParent(h, op, child)
    PROVE  work' \in [Harts -> Works] /\ up' \subseteq Children /\ WorkFits'
  <1>. work \in [Harts -> Works] /\ up \subseteq Children
    BY DEF TypeInv, TypeOK, Works
  <1>. DEFINE left == work[h].todo \ {Min(work[h].todo)}
  <1>1. up' \subseteq Children
    BY DEF NextParent
  <1>2. /\ work'[h] = IF left = {} THEN Idle
                      ELSE [work[h] EXCEPT !.op = op, !.todo = left]
        /\ \A g \in Harts \ {h} : work'[g] = work[g]
        /\ work' \in [Harts -> Works]
    <2>1. Idle \in Works
      BY DEF Idle, Works, DispatchAssumption
    <2>2. left \in SUBSET Harts
      BY DEF Works
    <2>. HIDE DEF left
    <2>3. [work[h] EXCEPT !.op = op, !.todo = left] \in Works
      <3>1. PICK w \in Works : w = work[h]
        OBVIOUS
      <3>2. [w EXCEPT !.op = op, !.todo = left] \in Works
        BY <2>2 DEF Works
      <3>. QED  BY <3>1, <3>2
    <2>. QED  BY <2>1, <2>3 DEF NextParent, left
  <1>. HIDE DEF left
  <1>3. WorkFits'
    <2>. SUFFICES ASSUME NEW g \in Harts
                  PROVE  /\ work'[g].op = "clint" => "clint" \in Children
                         /\ work'[g].op \in {"parent", "attach"}
                               \/ work'[g].next = "attach"
                            => "plic" \in Children
                         /\ work'[g].op \in {"clint", "parent", "attach"}
                               \/ work'[g].next = "attach"
                            => work'[g].todo # {}
      BY DEF WorkFits
    <2>1. CASE g # h
      BY <1>2, <2>1 DEF TypeInv, WorkFits
    <2>2. CASE g = h /\ left = {}
      BY <1>2, <2>2 DEF Idle
    <2>3. CASE g = h /\ left # {}
      <3>1. /\ work'[h].op = op /\ work'[h].todo = left
            /\ work'[h].next = work[h].next
        BY <1>2, <2>3 DEF Works
      <3>. QED  BY <2>3, <3>1 DEF TypeInv, WorkFits
    <2>. QED  BY <2>1, <2>2, <2>3
  <1>. QED  BY <1>1, <1>2, <1>3

(* The init of the controllers. *)
LEMMA InitStepsKeepType ==
    ASSUME DispatchAssumption, TypeInv, NEW h \in Harts,
           \/ InitCpu(h) \/ InitClint(h) \/ InitPlic(h)
           \/ InitLocal(h) \/ InitGlobal(h) \/ InitStep(h)
    PROVE  TypeInv'
  <1>. USE DEF TypeInv
  <1>. work \in [Harts -> Works]
    BY DEF TypeOK, Works
  <1>0. Main \in Harts /\ Idle \in Works
    BY DEF DispatchAssumption, Idle, Works
  <1>1. CASE InitCpu(h)
    <2>1. work' \in [Harts -> Works] /\ WorkFits'
      BY <1>0, <1>1 DEF InitCpu, WorkFits, Idle, Works
    <2>2. TypeOK'
      BY <1>1, <2>1 DEF InitCpu, TypeOK, csrs, Works
    <2>. QED  BY <2>1, <2>2
  <1>2. CASE ClearTables(h)
    <2>1. work' \in [Harts -> Works] /\ WorkFits' /\ work[h].on \in Harts
      BY <1>2 DEF ClearTables, WorkFits, Works
    <2>2. table' \in [Harts -> [Lines -> Entries]]
      BY <1>2, <2>1 DEF ClearTables, TypeOK, Entries, Functions, Empty
    <2>3. except' \in [Harts -> [Codes -> {"null", "default", "user_exception"}]]
      BY <1>2, <2>1 DEF ClearTables, TypeOK
    <2>4. mtvec' \in [Harts -> {"early", "own", "direct", "vector"}]
      <3>. mtvec \in [Harts -> {"early", "own", "direct", "vector"}]
        BY DEF TypeOK
      <3>. QED  BY <1>2 DEF ClearTables, SetVector
    <2>5. done' \in [Harts -> BOOLEAN] /\ ready' \subseteq Harts
      BY <1>2 DEF ClearTables, TypeOK
    <2>6. TypeOK'
      BY <1>2, <2>1, <2>2, <2>3, <2>4, <2>5 DEF ClearTables, TypeOK, Works
    <2>. QED  BY <2>1, <2>6
  <1>3. CASE InitClint(h) \/ InitPlic(h)
    <2>1. PICK op \in {"clint", "parent"} :
             /\ Begin(h, op)
             /\ op = "clint" => "clint" \in Children
             /\ op = "parent" => "plic" \in Children
      BY <1>3 DEF InitClint, InitPlic, MayInit
    <2>2. work' \in [Harts -> Works] /\ WorkFits'
      BY <1>0, <2>1 DEF Begin, WorkFits, Idle, Works
    <2>3. TypeOK'
      BY <2>1, <2>2 DEF Begin, TypeOK, tables, csrs, Works
    <2>. QED  BY <2>2, <2>3
  <1>4. CASE ClintParent(h)
    <2>. DEFINE on == Min(work[h].todo)
    <2>1. "clint" \in Children /\ on \in Harts
      BY <1>4, ParentIsHart DEF ClintParent, WorkFits
    <2>. HIDE DEF on
    <2>2. work' \in [Harts -> Works] /\ up' \subseteq Children /\ WorkFits'
      BY <1>4, <2>1, NextParentType DEF ClintParent
    <2>3. \A e \in Entries : /\ Entry(e, "sw", FALSE, "clint") \in Entries
                             /\ Entry(e, "tmr", FALSE, "clint") \in Entries
      BY <2>1, EntryType
    <2>4. table' \in [Harts -> [Lines -> Entries]]
      <3>. table \in [Harts -> [Lines -> Entries]]
        BY DEF TypeOK
      <3>. QED  BY <1>4, <2>1, <2>3 DEF ClintParent, Lines, on
    <2>5. asked' \in [Harts -> [Lines \cup {"beu"} -> Functions \cup {"nothing"}]]
      BY <1>4, <2>1 DEF ClintParent, TypeOK, Functions, on
    <2>6. TypeOK'
      BY <1>4, <2>2, <2>4, <2>5 DEF ClintParent, TypeOK, csrs, Works
    <2>. QED  BY <2>2, <2>6
  <1>5. CASE PlicParent(h)
    <2>1. Min(work[h].todo) \in Harts
      BY <1>5, ParentIsHart DEF PlicParent, WorkFits
    <2>2. work' \in [Harts -> Works] /\ WorkFits'
      BY <1>5, <2>1 DEF PlicParent, WorkFits, Works
    <2>3. TypeOK'
      BY <1>5, <2>2 DEF PlicParent, TypeOK, tables, csrs, Works
    <2>. QED  BY <2>2, <2>3
  <1>6. CASE PlicAttach(h)
    <2>. DEFINE on == Min(work[h].todo)
    <2>1. "plic" \in Children /\ on \in Harts
      BY <1>6, ParentIsHart DEF PlicAttach, WorkFits
    <2>. HIDE DEF on
    <2>2. work' \in [Harts -> Works] /\ up' \subseteq Children /\ WorkFits'
      BY <1>6, <2>1, NextParentType DEF PlicAttach
    <2>3. \A e \in Entries :
             Entry(Entry(e, "ext", FALSE, "plic"), "ext", TRUE, "plic") \in Entries
      BY <2>1, EntryType
    <2>4. table' \in [Harts -> [Lines -> Entries]]
      <3>. table \in [Harts -> [Lines -> Entries]]
        BY DEF TypeOK
      <3>. QED  BY <1>6, <2>1, <2>3 DEF PlicAttach, Lines, on
    <2>5. asked' \in [Harts -> [Lines \cup {"beu"} -> Functions \cup {"nothing"}]]
      BY <1>6, <2>1 DEF PlicAttach, TypeOK, Functions, on
    <2>6. mie' \in [Harts -> SUBSET Lines]
      BY <1>6 DEF PlicAttach, TypeOK, Lines
    <2>7. TypeOK'
      BY <1>6, <2>2, <2>4, <2>5, <2>6 DEF PlicAttach, TypeOK, Works
    <2>. QED  BY <2>2, <2>7
  <1>7. CASE InitLocal(h) \/ InitGlobal(h)
    <2>1. PICK who \in Children :
             Register(h, Main, "lc", FALSE, who) /\ up' = up \cup {who}
      BY <1>7 DEF InitLocal, InitGlobal, MayInit
    <2>2. /\ table' \in [Harts -> [Lines -> Entries]]
          /\ beu' \in [Harts -> Entries]
          /\ asked' \in [Harts -> [Lines \cup {"beu"} -> Functions \cup {"nothing"}]]
      BY <1>0, <2>1, RegisterType DEF Ids, Lines
    <2>3. UNCHANGED <<done, ready, except, csrs, work, pending, trap>>
      BY <1>7 DEF InitLocal, InitGlobal
    <2>. QED  BY <2>1, <2>2, <2>3 DEF TypeOK, WorkFits, csrs
  <1>. QED  BY <1>1, <1>2, <1>3, <1>4, <1>5, <1>6, <1>7 DEF InitStep

(* The calls of a program. *)
LEMMA CallsKeepType ==
    ASSUME DispatchAssumption, TypeInv, NEW h \in Harts,
           \/ \E id \in Ids, isr \in BOOLEAN : RegisterHandler(h, id, isr)
           \/ \E id \in Lines, on \in BOOLEAN : SetEnable(h, id, on)
           \/ \E on \in BOOLEAN : SetGlobal(h, on)
           \/ \E mode \in {"direct", "vector"} : SetVectorMode(h, mode)
           \/ \E code \in Codes : RegisterException(h, code)
           \/ \E to \in Harts : SetIpi(h, to)
    PROVE  TypeInv'
  <1>. USE DEF TypeInv
  <1>1. CASE \E id \in Ids, isr \in BOOLEAN : RegisterHandler(h, id, isr)
    <2>1. PICK id \in Ids, isr \in BOOLEAN : RegisterHandler(h, id, isr)
      BY <1>1
    <2>2. /\ table' \in [Harts -> [Lines -> Entries]]
          /\ beu' \in [Harts -> Entries]
          /\ asked' \in [Harts -> [Lines \cup {"beu"} -> Functions \cup {"nothing"}]]
      BY <2>1, RegisterType DEF RegisterHandler
    <2>3. UNCHANGED <<done, ready, except, csrs, up, work, pending, trap>>
      BY <2>1 DEF RegisterHandler
    <2>. QED  BY <2>2, <2>3 DEF TypeOK, WorkFits, csrs
  <1>2. CASE \E id \in Lines, on \in BOOLEAN : SetEnable(h, id, on)
    <2>1. mie \in [Harts -> SUBSET Lines]
      BY DEF TypeOK
    <2>2. mie' \in [Harts -> SUBSET Lines]
      BY <1>2, <2>1 DEF SetEnable, WithBit
    <2>. QED  BY <1>2, <2>2 DEF SetEnable, TypeOK, WorkFits, tables
  <1>3. CASE \E on \in BOOLEAN : SetGlobal(h, on)
    <2>1. gie \in [Harts -> BOOLEAN]
      BY DEF TypeOK
    <2>2. gie' \in [Harts -> BOOLEAN]
      BY <1>3, <2>1 DEF SetGlobal
    <2>. QED  BY <1>3, <2>2 DEF SetGlobal, TypeOK, WorkFits, tables
  <1>4. CASE \E mode \in {"direct", "vector"} : SetVectorMode(h, mode)
    <2>1. mtvec \in [Harts -> {"early", "own", "direct", "vector"}]
      BY DEF TypeOK
    <2>2. mtvec' \in [Harts -> {"early", "own", "direct", "vector"}]
      BY <1>4, <2>1 DEF SetVectorMode, SetVector
    <2>. QED  BY <1>4, <2>2 DEF SetVectorMode, TypeOK, WorkFits, tables
  <1>5. CASE \E code \in Codes : RegisterException(h, code)
    <2>1. except \in [Harts -> [Codes -> {"null", "default", "user_exception"}]]
      BY DEF TypeOK
    <2>2. except' \in [Harts -> [Codes -> {"null", "default", "user_exception"}]]
      BY <1>5, <2>1 DEF RegisterException
    <2>. QED  BY <1>5, <2>2 DEF RegisterException, TypeOK, WorkFits, csrs
  <1>6. CASE \E to \in Harts : SetIpi(h, to)
    BY <1>6 DEF SetIpi, TypeOK, WorkFits, tables, csrs, Lines
  <1>. QED  BY <1>1, <1>2, <1>3, <1>4, <1>5, <1>6

(* Traps. *)
LEMMA TrapsKeepType ==
    ASSUME DispatchAssumption, TypeInv, NEW h \in Harts,
           \/ TrapStep(h)
           \/ \E code \in Codes : Exception(h, code)
           \/ \E id \in Lines \cup {"beu"} : Raise(h, id)
    PROVE  TypeInv'
  <1>. USE DEF TypeInv
  <1>. /\ table[h] \in [Lines -> Entries] /\ beu[h] \in Entries
       /\ trap[h] \in Traps
       /\ except[h] \in [Codes -> {"null", "default", "user_exception"}]
       /\ mtvec[h] \in {"early", "own", "direct", "vector"}
    BY DEF TypeOK, Traps
  <1>1. CASE \E id \in Ids : Interrupt(h, id)
    <2>1. PICK id \in Ids : Interrupt(h, id)
      BY <1>1
    <2>2. id \in Lines \cup {"beu"}
      BY <2>1 DEF Interrupt, TypeOK
    <2>3. /\ ByExceptionHandler(h, id) \in Traps
          /\ ByVectorTable(h, id) \in Traps
          /\ mtvec[h] \notin {"direct", "vector"} => Stray(mtvec[h], id) \in Traps
      BY <2>2 DEF ByExceptionHandler, ByVectorTable, WeakHandler, Call, Stray, Traps,
                  Entries, Lines, Ids
    <2>4. trap' \in [Harts -> Traps]
      BY <2>1, <2>3 DEF Interrupt, TypeOK, Traps
    <2>. QED  BY <2>1, <2>4 DEF Interrupt, TypeOK, WorkFits, tables, Traps
  <1>2. CASE \E code \in Codes : Exception(h, code)
    <2>1. PICK code \in Codes : Exception(h, code)
      BY <1>2
    <2>2. /\ Stray(except[h][code], code) \in Traps
          /\ Stray("default", code) \in Traps
          /\ mtvec[h] \notin {"direct", "vector"} => Stray(mtvec[h], code) \in Traps
      BY DEF Stray, Traps, Functions
    <2>3. trap' \in [Harts -> Traps]
      BY <2>1, <2>2 DEF Exception, TypeOK, Traps
    <2>. QED  BY <2>1, <2>3 DEF Exception, TypeOK, WorkFits, tables, csrs, Traps
  <1>3. CASE SoftwareDefault(h)
    <2>1. except[h]["break"] \in {"null", "default", "user_exception"}
      BY DEF Codes
    <2>2. trap' \in [Harts -> Traps]
      BY <1>3, <2>1 DEF SoftwareDefault, TypeOK, Traps, Functions
    <2>. QED  BY <1>3, <2>2 DEF SoftwareDefault, TypeOK, WorkFits, tables, csrs, Traps
  <1>4. CASE Return(h)
    <2>1. /\ pending \in [Harts -> SUBSET (Lines \cup {"beu"})]
          /\ gie \in [Harts -> BOOLEAN] /\ trap \in [Harts -> Traps]
      BY DEF TypeOK, Traps
    <2>2. NoTrap \in Traps
      BY DEF NoTrap, Traps
    <2>3. /\ pending' \in [Harts -> SUBSET (Lines \cup {"beu"})]
          /\ trap' \in [Harts -> Traps]
      BY <1>4, <2>1, <2>2 DEF Return
    <2>4. gie' \in [Harts -> BOOLEAN]
      BY <1>4, <2>1 DEF Return
    <2>. QED  BY <1>4, <2>3, <2>4 DEF Return, TypeOK, WorkFits, tables, Traps
  <1>5. CASE \E id \in Lines \cup {"beu"} : Raise(h, id)
    <2>1. pending \in [Harts -> SUBSET (Lines \cup {"beu"})]
      BY DEF TypeOK
    <2>2. pending' \in [Harts -> SUBSET (Lines \cup {"beu"})]
      BY <1>5, <2>1 DEF Raise
    <2>. QED  BY <1>5, <2>2 DEF Raise, TypeOK, WorkFits, tables, csrs
  <1>. QED  BY <1>1, <1>2, <1>3, <1>4, <1>5 DEF TrapStep

LEMMA TypeInductive ==
    ASSUME DispatchAssumption, TypeInv, [Next]_vars
    PROVE  TypeInv'
  <1>1. CASE UNCHANGED vars
    BY <1>1 DEF TypeInv, TypeOK, WorkFits, vars, tables, csrs
  <1>2. CASE Next
    BY <1>2, InitStepsKeepType, CallsKeepType, TrapsKeepType DEF Next
  <1>. QED  BY <1>1, <1>2

-----------------------------------------------------------------------------
(* The order in which the controllers come up. *)

(* Every hart has initialised its own controller before the others are, and *)
(* the hart that initialises the PLIC is the first of its parents: the PLIC *)
(* enables its line on that hart with the first parent's, whichever it is.  *)
InOrder ==
    /\ Careful
    /\ "plic" \in Children => \A h \in Harts : Main <= h

CallStep(h) ==
    \/ \E id \in Ids, isr \in BOOLEAN : RegisterHandler(h, id, isr)
    \/ \E id \in Lines, on \in BOOLEAN : SetEnable(h, id, on)
    \/ \E on \in BOOLEAN : SetGlobal(h, on)
    \/ \E mode \in {"direct", "vector"} : SetVectorMode(h, mode)
    \/ \E code \in Codes : RegisterException(h, code)
    \/ \E to \in Harts : SetIpi(h, to)

DeviceStep(h) ==
    \/ TrapStep(h)
    \/ \E code \in Codes : Exception(h, code)
    \/ \E id \in Lines \cup {"beu"} : Raise(h, id)

(* A hart clears its own controller, before it is ready; Main initialises the *)
(* children when all are.                                                     *)
Phases ==
    \A h \in Harts :
        /\ work[h].next = "idle"
        /\ work[h].op = "clear" => work[h].on = h /\ h \notin ready
        /\ work[h].op \in {"clint", "parent", "attach"}
              => h = Main /\ Harts \subseteq ready
        /\ done[h] <=> h \in ready

(* Nothing is registered or enabled for a hart that is not ready. *)
Untouched ==
    \A h \in Harts \ ready :
        /\ \A id \in Lines \cup {"beu"} : asked[h][id] = "nothing"
        /\ mie[h] = {} /\ ~gie[h] /\ trap[h] = NoTrap

(* A hart that is ready has a trap vector and exception handlers. *)
SetUp ==
    \A h \in ready :
        mtvec[h] # "early" /\ \A c \in Codes : except[h][c] # "null"

OrderInv == TypeInv /\ Phases /\ Untouched /\ SetUp

LEMMA OrderInitially ==
    ASSUME DispatchAssumption, Init
    PROVE  OrderInv
  <1>1. Phases
    BY DEF Init, Phases, Idle
  <1>2. Untouched /\ SetUp
    BY DEF Init, Untouched, SetUp
  <1>. QED  BY <1>1, <1>2, TypeInitially DEF OrderInv

(* Calls and traps leave the order alone. *)
LEMMA CallFrame ==
    ASSUME NEW h \in Harts, CallStep(h)
    PROVE  /\ h \in ready /\ Free(h)
           /\ UNCHANGED <<done, ready, up, work, trap>>
  BY DEF CallStep, RegisterHandler, SetEnable, SetGlobal, SetVectorMode,
         RegisterException, SetIpi, ReadyFor, Calls, tables

LEMMA DeviceFrame ==
    ASSUME NEW h \in Harts, DeviceStep(h)
    PROVE  UNCHANGED <<done, ready, up, work, table, beu, except, asked, mtvec, mie>>
  BY DEF DeviceStep, TrapStep, Interrupt, SoftwareDefault, Return, Exception,
         Raise, tables, csrs

LEMMA StepIsKnown ==
    ASSUME Next
    PROVE  \E h \in Harts :
              \/ InitCpu(h) \/ InitClint(h) \/ InitPlic(h)
              \/ InitLocal(h) \/ InitGlobal(h)
              \/ ClearTables(h) \/ ClintParent(h) \/ PlicParent(h) \/ PlicAttach(h)
              \/ CallStep(h) \/ DeviceStep(h)
  BY DEF Next, InitStep, CallStep, DeviceStep

LEMMA PhasesKept ==
    ASSUME DispatchAssumption, InOrder, OrderInv, Next
    PROVE  Phases'
  <1>. USE DEF OrderInv
  <1>. work \in [Harts -> Works] /\ done \in [Harts -> BOOLEAN] /\ ready \subseteq Harts
    BY DEF TypeInv, TypeOK, Works
  <1>0. Main \in Harts /\ Idle \in Works
    BY DEF DispatchAssumption, Idle, Works
  <1>1. PICK h \in Harts :
           \/ InitCpu(h) \/ InitClint(h) \/ InitPlic(h)
           \/ InitLocal(h) \/ InitGlobal(h)
           \/ ClearTables(h) \/ ClintParent(h) \/ PlicParent(h) \/ PlicAttach(h)
           \/ CallStep(h) \/ DeviceStep(h)
    BY StepIsKnown
  <1>2. CASE InitCpu(h)
    BY <1>0, <1>2 DEF InitCpu, Phases, Idle, Works
  <1>3. CASE ClearTables(h)
    BY <1>3 DEF ClearTables, Phases, Works
  <1>4. CASE InitClint(h) \/ InitPlic(h)
    <2>1. PICK op \in {"clint", "parent"} : Begin(h, op)
      BY <1>4 DEF InitClint, InitPlic
    <2>2. h = Main /\ Harts \subseteq ready
      BY <1>4 DEF InitClint, InitPlic, MayInit, InOrder
    <2>3. /\ work'[h].op = op /\ work'[h].next = "idle"
          /\ \A g \in Harts \ {h} : work'[g] = work[g]
          /\ UNCHANGED <<done, ready>>
      BY <1>0, <2>1 DEF Begin, Idle, Works, tables
    <2>. QED  BY <2>2, <2>3 DEF Phases
  <1>5. CASE ClintParent(h) \/ PlicAttach(h)
    <2>1. /\ work'[h].next = "idle"
          /\ work'[h].op \in {"idle", "clint", "parent"}
          /\ \A g \in Harts \ {h} : work'[g] = work[g]
      <3>1. PICK op \in {"clint", "parent"}, child \in {"clint", "plic"} :
                  NextParent(h, op, child)
        BY <1>5 DEF ClintParent, PlicAttach
      <3>. QED  BY <3>1 DEF NextParent, Phases, Idle, Works
    <2>2. h = Main /\ Harts \subseteq ready /\ UNCHANGED <<done, ready>>
      BY <1>5 DEF ClintParent, PlicAttach, Phases
    <2>. QED  BY <2>1, <2>2 DEF Phases
  <1>6. CASE PlicParent(h)
    <2>1. Min(work[h].todo) \in Harts
      BY <1>6, ParentIsHart DEF PlicParent, TypeInv, WorkFits
    <2>. QED  BY <1>6, <2>1 DEF PlicParent, Phases, Works, tables
  <1>7. CASE InitLocal(h) \/ InitGlobal(h) \/ CallStep(h) \/ DeviceStep(h)
    BY <1>7, CallFrame, DeviceFrame DEF InitLocal, InitGlobal, Phases
  <1>. QED  BY <1>1, <1>2, <1>3, <1>4, <1>5, <1>6, <1>7

LEMMA UntouchedKept ==
    ASSUME DispatchAssumption, InOrder, OrderInv, Next
    PROVE  Untouched'
  <1>. USE DEF OrderInv
  <1>. /\ mie \in [Harts -> SUBSET Lines] /\ gie \in [Harts -> BOOLEAN]
       /\ trap \in [Harts -> Traps] /\ ready \subseteq Harts
       /\ asked \in [Harts -> [Lines \cup {"beu"} -> Functions \cup {"nothing"}]]
       /\ Main \in Harts
    BY DEF DispatchAssumption, TypeInv, TypeOK, Traps
  <1>1. PICK h \in Harts :
           \/ InitCpu(h) \/ InitClint(h) \/ InitPlic(h)
           \/ InitLocal(h) \/ InitGlobal(h)
           \/ ClearTables(h) \/ ClintParent(h) \/ PlicParent(h) \/ PlicAttach(h)
           \/ CallStep(h) \/ DeviceStep(h)
    BY StepIsKnown
  <1>2. CASE InitCpu(h) \/ ClearTables(h)
    BY <1>2 DEF InitCpu, ClearTables, Untouched, csrs
  <1>3. CASE InitClint(h) \/ InitPlic(h) \/ PlicParent(h)
    BY <1>3 DEF InitClint, InitPlic, Begin, PlicParent, Untouched, tables, csrs
  <1>4. CASE InitLocal(h) \/ InitGlobal(h) \/ ClintParent(h) \/ PlicAttach(h)
    <2>1. Harts \subseteq ready'
      BY <1>4 DEF InitLocal, InitGlobal, ClintParent, PlicAttach, MayInit, InOrder,
                  Phases
    <2>. QED  BY <2>1 DEF Untouched
  <1>5. CASE CallStep(h)
    <2>1. h \in ready /\ UNCHANGED <<ready, trap>>
      BY <1>5, CallFrame
    <2>2. \A g \in Harts \ {h} : /\ asked'[g] = asked[g] /\ mie'[g] = mie[g]
                                 /\ gie'[g] = gie[g]
      BY <1>5 DEF CallStep, RegisterHandler, Register, SetEnable, SetGlobal,
                  SetVectorMode, RegisterException, SetIpi, tables, csrs
    <2>. QED  BY <2>1, <2>2 DEF Untouched
  <1>6. CASE DeviceStep(h)
    <2>1. UNCHANGED <<ready, asked, mie>>
      BY <1>6, DeviceFrame
    <2>2. \A g \in Harts \ {h} : trap'[g] = trap[g] /\ gie'[g] = gie[g]
      BY <1>6 DEF DeviceStep, TrapStep, Interrupt, SoftwareDefault, Return,
                  Exception, Raise, csrs
    <2>3. h \in ready \/ UNCHANGED <<trap, gie>>
      <3>1. CASE \E id \in Ids : Interrupt(h, id)
        BY <3>1 DEF Interrupt, Untouched
      <3>2. CASE SoftwareDefault(h) \/ Return(h)
        BY <3>2 DEF SoftwareDefault, Return, Serves, Untouched, NoTrap
      <3>3. CASE \E code \in Codes : Exception(h, code)
        BY <3>3 DEF Exception
      <3>4. CASE \E id \in Lines \cup {"beu"} : Raise(h, id)
        BY <3>4 DEF Raise, csrs
      <3>. QED  BY <1>6, <3>1, <3>2, <3>3, <3>4 DEF DeviceStep, TrapStep
    <2>. QED  BY <2>1, <2>2, <2>3 DEF Untouched
  <1>. QED  BY <1>1, <1>2, <1>3, <1>4, <1>5, <1>6

LEMMA SetUpKept ==
    ASSUME DispatchAssumption, InOrder, OrderInv, Next
    PROVE  SetUp'
  <1>. USE DEF OrderInv
  <1>. /\ mtvec \in [Harts -> {"early", "own", "direct", "vector"}]
       /\ except \in [Harts -> [Codes -> {"null", "default", "user_exception"}]]
       /\ ready \subseteq Harts
    BY DEF TypeInv, TypeOK
  <1>1. PICK h \in Harts :
           \/ InitCpu(h) \/ InitClint(h) \/ InitPlic(h)
           \/ InitLocal(h) \/ InitGlobal(h)
           \/ ClearTables(h) \/ ClintParent(h) \/ PlicParent(h) \/ PlicAttach(h)
           \/ CallStep(h) \/ DeviceStep(h)
    BY StepIsKnown
  <1>2. CASE InitCpu(h)
    BY <1>2 DEF InitCpu, SetUp, Phases, csrs
  <1>3. CASE ClearTables(h)
    <2>1. work[h].on = h /\ work[h].next = "idle" /\ ready' = ready \cup {h}
      BY <1>3 DEF ClearTables, Phases
    <2>2. mtvec'[h] # "early" /\ \A g \in Harts \ {h} : mtvec'[g] = mtvec[g]
      BY <1>3 DEF ClearTables, SetVector
    <2>3. /\ except'[h] = [c \in Codes |-> "default"]
          /\ \A g \in Harts \ {h} : except'[g] = except[g]
      BY <1>3, <2>1 DEF ClearTables
    <2>. QED  BY <2>1, <2>2, <2>3 DEF SetUp
  <1>4. CASE \/ InitClint(h) \/ InitPlic(h) \/ PlicParent(h)
             \/ InitLocal(h) \/ InitGlobal(h) \/ ClintParent(h) \/ PlicAttach(h)
    BY <1>4 DEF InitClint, InitPlic, Begin, PlicParent, InitLocal, InitGlobal,
                ClintParent, PlicAttach, SetUp, tables, csrs
  <1>5. CASE CallStep(h)
    <2>1. CASE \E mode \in {"direct", "vector"} : SetVectorMode(h, mode)
      BY <2>1 DEF SetVectorMode, SetVector, SetUp, tables
    <2>2. CASE \E code \in Codes : RegisterException(h, code)
      BY <2>2 DEF RegisterException, SetUp, csrs
    <2>3. CASE \/ \E id \in Ids, isr \in BOOLEAN : RegisterHandler(h, id, isr)
               \/ \E id \in Lines, on \in BOOLEAN : SetEnable(h, id, on)
               \/ \E on \in BOOLEAN : SetGlobal(h, on)
               \/ \E to \in Harts : SetIpi(h, to)
      BY <2>3 DEF RegisterHandler, SetEnable, SetGlobal, SetIpi, SetUp, tables, csrs
    <2>. QED  BY <1>5, <2>1, <2>2, <2>3 DEF CallStep
  <1>6. CASE DeviceStep(h)
    BY <1>6, DeviceFrame DEF SetUp
  <1>. QED  BY <1>1, <1>2, <1>3, <1>4, <1>5, <1>6

LEMMA OrderInductive ==
    ASSUME DispatchAssumption, InOrder, OrderInv, [Next]_vars
    PROVE  OrderInv'
  <1>1. CASE UNCHANGED vars
    BY <1>1, TypeInductive
    DEF OrderInv, Phases, Untouched, SetUp, vars, tables, csrs
  <1>2. CASE Next
    BY <1>2, TypeInductive, PhasesKept, UntouchedKept, SetUpKept DEF OrderInv
  <1>. QED  BY <1>1, <1>2

-----------------------------------------------------------------------------
(* What the entries hold. *)

(* The program's handler and the PLIC's come with their data. *)
HasItsData(e) == e.fn \in {"user", "plic"} => e.data = e.fn

(* Entry e holds what was registered for it last, if anything was. *)
Holds(e, fn) ==
    /\ fn # "null" /\ HasItsData(e)
    /\ fn # "nothing" => e.fn = fn

EntriesAsAsked ==
    \A h \in Harts :
        /\ \A id \in Lines : Holds(table[h][id], asked[h][id])
        /\ Holds(beu[h], asked[h]["beu"])

LEMMA EntriesInitially ==
    ASSUME Init
    PROVE  EntriesAsAsked
  BY DEF Init, EntriesAsAsked, Holds, HasItsData, Empty, Lines

LEMMA EntryHolds ==
    ASSUME NEW e \in Entries, NEW id \in Lines \cup {"beu"}, NEW isr \in BOOLEAN,
           NEW who \in {"user"} \cup Children,
           isr => who \in {"user", "plic"}
    PROVE  Holds(Entry(e, id, isr, who), IF isr THEN who ELSE DefaultOf(id))
  BY DEF Entry, DefaultOf, Entries, Holds, HasItsData, Lines

LEMMA RegisterHolds ==
    ASSUME TypeInv, EntriesAsAsked, NEW h \in Harts, NEW on \in Harts,
           NEW id \in Ids, NEW isr \in BOOLEAN, NEW who \in {"user"} \cup Children,
           isr => who \in {"user", "plic"},
           Register(h, on, id, isr, who)
    PROVE  EntriesAsAsked'
  <1>. table \in [Harts -> [Lines -> Entries]] /\ beu \in [Harts -> Entries]
       /\ asked \in [Harts -> [Lines \cup {"beu"} -> Functions \cup {"nothing"}]]
    BY DEF TypeInv, TypeOK
  <1>. DEFINE fn == IF isr THEN who ELSE DefaultOf(id)
  <1>1. CASE ~Registrable(h, id)
    <2>1. UNCHANGED <<table, beu, asked>>
      BY <1>1 DEF Register
    <2>. QED  BY <2>1 DEF EntriesAsAsked
  <1>2. CASE Registrable(h, id) /\ id \in Lines
    <2>1. \A e \in Entries : Holds(Entry(e, id, isr, who), fn)
      BY <1>2, EntryHolds
    <2>2. id # "beu" /\ id # "other"
      BY <1>2 DEF Lines
    <2>3. /\ table' = [table EXCEPT ![on][id] = Entry(@, id, isr, who)]
          /\ asked' = [asked EXCEPT ![on][id] = fn]
          /\ beu' = beu
      BY <1>2, <2>2 DEF Register
    <2>. HIDE DEF fn
    <2>4. /\ table'[on][id] = Entry(table[on][id], id, isr, who)
          /\ asked'[on][id] = fn
          /\ \A g \in Harts, i \in Lines \cup {"beu"} : g # on \/ i # id =>
                /\ asked'[g][i] = asked[g][i]
                /\ i \in Lines => table'[g][i] = table[g][i]
      BY <1>2, <2>3
    <2>. QED  BY <1>2, <2>1, <2>2, <2>3, <2>4 DEF EntriesAsAsked
  <1>3. CASE Registrable(h, id) /\ id = "beu"
    <2>1. \A e \in Entries : Holds(Entry(e, id, isr, who), fn)
      <3>1. id \in Lines \cup {"beu"}
        BY <1>3
      <3>. QED  BY <3>1, EntryHolds
    <2>2. id \notin Lines
      BY <1>3 DEF Lines
    <2>3. /\ beu' = [beu EXCEPT ![on] = Entry(@, id, isr, who)]
          /\ asked' = [asked EXCEPT ![on][id] = fn]
          /\ table' = table
      BY <1>3, <2>2 DEF Register
    <2>. HIDE DEF fn
    <2>4. /\ beu'[on] = Entry(beu[on], id, isr, who) /\ asked'[on]["beu"] = fn
          /\ \A g \in Harts, i \in Lines : asked'[g][i] = asked[g][i]
          /\ \A g \in Harts \ {on} : /\ beu'[g] = beu[g]
                                     /\ asked'[g]["beu"] = asked[g]["beu"]
      BY <1>3, <2>2, <2>3
    <2>. QED  BY <2>1, <2>3, <2>4 DEF EntriesAsAsked
  <1>. QED  BY <1>1, <1>2, <1>3 DEF Registrable, Ids

LEMMA EntriesKept ==
    ASSUME DispatchAssumption, InOrder, OrderInv, EntriesAsAsked, [Next]_vars
    PROVE  EntriesAsAsked'
  <1>. USE DEF OrderInv
  <1>. /\ table \in [Harts -> [Lines -> Entries]] /\ beu \in [Harts -> Entries]
       /\ asked \in [Harts -> [Lines \cup {"beu"} -> Functions \cup {"nothing"}]]
       /\ Main \in Harts
    BY DEF DispatchAssumption, TypeInv, TypeOK
  <1>0. CASE UNCHANGED vars
    BY <1>0 DEF vars, tables, EntriesAsAsked
  <1>. SUFFICES ASSUME Next PROVE EntriesAsAsked'
    BY <1>0
  <1>1. PICK h \in Harts :
           \/ InitCpu(h) \/ InitClint(h) \/ InitPlic(h)
           \/ InitLocal(h) \/ InitGlobal(h)
           \/ ClearTables(h) \/ ClintParent(h) \/ PlicParent(h) \/ PlicAttach(h)
           \/ CallStep(h) \/ DeviceStep(h)
    BY StepIsKnown
  <1>2. CASE InitCpu(h) \/ InitClint(h) \/ InitPlic(h) \/ PlicParent(h)
    BY <1>2 DEF InitCpu, InitClint, InitPlic, Begin, PlicParent, tables,
                EntriesAsAsked
  <1>3. CASE ClearTables(h)
    <2>1. /\ work[h].on = h /\ h \notin ready
          /\ \A id \in Lines \cup {"beu"} : asked[h][id] = "nothing"
      BY <1>3 DEF ClearTables, Phases, Untouched
    <2>2. /\ table'[h] = [id \in Lines |-> Empty]
          /\ \A g \in Harts \ {h} : table'[g] = table[g]
          /\ UNCHANGED <<beu, asked>>
      BY <1>3, <2>1 DEF ClearTables
    <2>3. Holds(Empty, "nothing")
      BY DEF Holds, HasItsData, Empty
    <2>. QED  BY <2>1, <2>2, <2>3 DEF EntriesAsAsked
  <1>4. CASE ClintParent(h)
    <2>. DEFINE on == Min(work[h].todo)
    <2>1. on \in Harts
      BY <1>4, ParentIsHart DEF ClintParent, TypeInv, WorkFits
    <2>2. /\ table' = [table EXCEPT ![on]["sw"] = Entry(@, "sw", FALSE, "clint"),
                                    ![on]["tmr"] = Entry(@, "tmr", FALSE, "clint")]
          /\ asked' = [asked EXCEPT ![on]["sw"] = "sw_default",
                                    ![on]["tmr"] = "tmr_default"]
          /\ beu' = beu
      BY <1>4 DEF ClintParent
    <2>. HIDE DEF on
    <2>3. \A e \in Entries : /\ Holds(Entry(e, "sw", FALSE, "clint"), "sw_default")
                             /\ Holds(Entry(e, "tmr", FALSE, "clint"), "tmr_default")
      BY DEF Entry, DefaultOf, Entries, Holds, HasItsData
    <2>4. /\ table'[on] = [table[on] EXCEPT
                             !["sw"] = Entry(@, "sw", FALSE, "clint"),
                             !["tmr"] = Entry(@, "tmr", FALSE, "clint")]
          /\ asked'[on] = [asked[on] EXCEPT !["sw"] = "sw_default",
                                            !["tmr"] = "tmr_default"]
          /\ \A g \in Harts \ {on} : table'[g] = table[g] /\ asked'[g] = asked[g]
      BY <2>1, <2>2
    <2>5. /\ table[on] \in [Lines -> Entries] /\ "sw" \in Lines /\ "tmr" \in Lines
          /\ asked[on] \in [Lines \cup {"beu"} -> Functions \cup {"nothing"}]
      BY <2>1 DEF Lines
    <2>6. \A id \in Lines : Holds(table'[on][id], asked'[on][id])
      <3>. TAKE id \in Lines
      <3>1. table[on]["sw"] \in Entries /\ table[on]["tmr"] \in Entries
        BY <2>5
      <3>2. CASE id = "sw"
        <4>. /\ table'[on][id] = Entry(table[on]["sw"], "sw", FALSE, "clint")
             /\ asked'[on][id] = "sw_default"
          BY <2>4, <2>5, <3>2
        <4>. QED  BY <2>3, <3>1
      <3>3. CASE id = "tmr"
        <4>. /\ table'[on][id] = Entry(table[on]["tmr"], "tmr", FALSE, "clint")
             /\ asked'[on][id] = "tmr_default"
          BY <2>4, <2>5, <3>3
        <4>. QED  BY <2>3, <3>1
      <3>4. CASE id \notin {"sw", "tmr"}
        <4>. table'[on][id] = table[on][id] /\ asked'[on][id] = asked[on][id]
          BY <2>4, <2>5, <3>4
        <4>. QED  BY <2>1 DEF EntriesAsAsked
      <3>. QED  BY <3>2, <3>3, <3>4
    <2>7. asked'[on]["beu"] = asked[on]["beu"]
      BY <2>4, <2>5
    <2>. QED  BY <2>2, <2>4, <2>6, <2>7 DEF EntriesAsAsked
  <1>5. CASE PlicAttach(h)
    <2>. DEFINE on == Min(work[h].todo)
    <2>1. on \in Harts /\ "plic" \in Children
      BY <1>5, ParentIsHart DEF PlicAttach, TypeInv, WorkFits
    <2>2. /\ table' = [table EXCEPT ![on]["ext"] =
                          Entry(Entry(@, "ext", FALSE, "plic"), "ext", TRUE, "plic")]
          /\ asked' = [asked EXCEPT ![on]["ext"] = "plic"]
          /\ beu' = beu
      BY <1>5 DEF PlicAttach
    <2>. HIDE DEF on
    <2>3. \A e \in Entries : Entry(e, "ext", FALSE, "plic") \in Entries
      BY <2>1, EntryType
    <2>4. \A e \in Entries : Holds(Entry(e, "ext", TRUE, "plic"), "plic")
      BY DEF Entry, Entries, Holds, HasItsData
    <2>5. /\ table'[on]["ext"] =
                Entry(Entry(table[on]["ext"], "ext", FALSE, "plic"), "ext", TRUE, "plic")
          /\ asked'[on]["ext"] = "plic"
          /\ \A g \in Harts, i \in Lines \cup {"beu"} : g # on \/ i # "ext" =>
                /\ asked'[g][i] = asked[g][i]
                /\ i \in Lines => table'[g][i] = table[g][i]
      BY <2>1, <2>2 DEF Lines
    <2>6. \A g \in Harts, id \in Lines : Holds(table'[g][id], asked'[g][id])
      <3>. TAKE g \in Harts, id \in Lines
      <3>1. CASE g = on /\ id = "ext"
        <4>1. table[on]["ext"] \in Entries
          BY <2>1 DEF Lines
        <4>. QED  BY <2>3, <2>4, <2>5, <3>1, <4>1
      <3>2. CASE g # on \/ id # "ext"
        BY <2>5, <3>2 DEF EntriesAsAsked
      <3>. QED  BY <3>1, <3>2
    <2>7. \A g \in Harts : asked'[g]["beu"] = asked[g]["beu"]
      BY <2>5
    <2>. QED  BY <2>2, <2>6, <2>7 DEF EntriesAsAsked
  <1>6. CASE InitLocal(h) \/ InitGlobal(h)
    BY <1>6, RegisterHolds DEF InitLocal, InitGlobal, MayInit, Ids, Lines
  <1>7. CASE CallStep(h)
    <2>1. CASE \E id \in Ids, isr \in BOOLEAN : RegisterHandler(h, id, isr)
      BY <2>1, RegisterHolds DEF RegisterHandler
    <2>2. CASE UNCHANGED <<table, beu, asked>>
      BY <2>2 DEF EntriesAsAsked
    <2>3. \/ \E id \in Ids, isr \in BOOLEAN : RegisterHandler(h, id, isr)
          \/ UNCHANGED <<table, beu, asked>>
      BY <1>7 DEF CallStep, SetEnable, SetGlobal, SetVectorMode,
                  RegisterException, SetIpi, tables
    <2>. QED  BY <2>1, <2>2, <2>3
  <1>8. CASE DeviceStep(h)
    BY <1>8, DeviceFrame DEF EntriesAsAsked
  <1>. QED  BY <1>1, <1>2, <1>3, <1>4, <1>5, <1>6, <1>7, <1>8

-----------------------------------------------------------------------------
(* What is enabled, pending or taken was registered before, where the loops *)
(* over the parents have come to, and what a trap has come to.              *)

EnabledWereAsked ==
    \A h \in Harts :
        /\ \A id \in mie[h] : asked[h][id] # "nothing"
        /\ "beu" \in pending[h] => asked[h]["beu"] # "nothing"
        /\ trap[h].id \in Ids => /\ trap[h].id # "other"
                                 /\ asked[h][trap[h].id] # "nothing"
        /\ mtvec[h] = "vector" => asked[h]["beu"] = "nothing"

(* The CLINT has registered with the controller of h. *)
Visited(h) ==
    "clint" \in up \/ (work[Main].op = "clint" /\ h \notin work[Main].todo)

(* It is below both of its lines there, and nothing was registered for them *)
(* before; it is initialised once.                                          *)
ClintLines ==
    /\ "clint" \in up => Harts \subseteq ready
    /\ work[Main].op = "clint" => "clint" \notin up
    /\ \A h \in Harts :
          IF Visited(h)
            THEN table[h]["sw"].sub = "clint" /\ table[h]["tmr"].sub = "clint"
            ELSE asked[h]["sw"] = "nothing" /\ asked[h]["tmr"] = "nothing"

(* Nobody but the PLIC registers for its line, for Main first. *)
PlicLine ==
    /\ \A h \in Harts : asked[h]["ext"] \in {"nothing", "plic"}
    /\ work[Main].op \in {"parent", "attach"}
          => work[Main].todo = Harts \/ asked[Main]["ext"] = "plic"

TrapsAnswered == LastRegisteredRuns /\ InitialisedHartsTrapWell

IInv ==
    /\ OrderInv /\ EntriesAsAsked /\ EnabledWereAsked
    /\ ClintLines /\ PlicLine /\ TrapsAnswered

LEMMA IInvInitially ==
    ASSUME DispatchAssumption, Init
    PROVE  IInv
  <1>0. Main \in Harts
    BY DEF DispatchAssumption
  <1>1. EnabledWereAsked
    BY DEF Init, EnabledWereAsked, NoTrap, Ids, Lines
  <1>2. ClintLines /\ PlicLine
    BY <1>0 DEF Init, ClintLines, Visited, PlicLine, Idle, Lines
  <1>3. TrapsAnswered
    BY DEF Init, TrapsAnswered, LastRegisteredRuns, InitialisedHartsTrapWell,
           NoTrap, Ids, Lines
  <1>. QED  BY <1>1, <1>2, <1>3, OrderInitially, EntriesInitially DEF IInv

(* While a hart is in a trap, or in an init, a line it has registered stays *)
(* registered for what it was; and nothing is ever unregistered.            *)
LEMMA AskedStays ==
    ASSUME DispatchAssumption, InOrder, IInv, Next,
           NEW g \in Harts, NEW id \in Lines \cup {"beu"},
           asked'[g][id] # asked[g][id]
    PROVE  /\ asked'[g][id] # "nothing"
           /\ \/ asked[g][id] = "nothing"
              \/ Free(g) /\ UNCHANGED trap
           /\ id = "beu" => mtvec'[g] # "vector"
  <1>. USE DEF IInv, OrderInv
  <1>. /\ asked \in [Harts -> [Lines \cup {"beu"} -> Functions \cup {"nothing"}]]
       /\ Main \in Harts
    BY DEF DispatchAssumption, TypeInv, TypeOK
  <1>1. PICK h \in Harts :
           \/ InitCpu(h) \/ InitClint(h) \/ InitPlic(h)
           \/ InitLocal(h) \/ InitGlobal(h)
           \/ ClearTables(h) \/ ClintParent(h) \/ PlicParent(h) \/ PlicAttach(h)
           \/ CallStep(h) \/ DeviceStep(h)
    BY StepIsKnown
  <1>2. CASE \/ InitCpu(h) \/ InitClint(h) \/ InitPlic(h) \/ PlicParent(h)
             \/ ClearTables(h) \/ DeviceStep(h)
    BY <1>2, DeviceFrame DEF InitCpu, InitClint, InitPlic, Begin, PlicParent,
                             ClearTables, tables
  <1>3. CASE ClintParent(h)
    <2>. DEFINE on == Min(work[h].todo)
    <2>1. on \in Harts /\ on \in work[h].todo /\ h = Main /\ work[Main].op = "clint"
      BY <1>3, ParentIsHart DEF ClintParent, TypeInv, WorkFits, Phases
    <2>2. asked' = [asked EXCEPT ![on]["sw"] = "sw_default",
                                 ![on]["tmr"] = "tmr_default"]
      BY <1>3 DEF ClintParent
    <2>. HIDE DEF on
    <2>3. g = on /\ \/ id = "sw" /\ asked'[g][id] = "sw_default"
                    \/ id = "tmr" /\ asked'[g][id] = "tmr_default"
      BY <2>1, <2>2
    <2>4. ~Visited(on)
      BY <2>1 DEF ClintLines, Visited
    <2>. QED  BY <2>1, <2>3, <2>4 DEF ClintLines
  <1>4. CASE PlicAttach(h)
    <2>1. Min(work[h].todo) \in Harts
      BY <1>4, ParentIsHart DEF PlicAttach, TypeInv, WorkFits
    <2>2. asked' = [asked EXCEPT ![Min(work[h].todo)]["ext"] = "plic"]
      BY <1>4 DEF PlicAttach
    <2>3. id = "ext" /\ asked'[g][id] = "plic"
      BY <2>1, <2>2
    <2>. QED  BY <2>3 DEF PlicLine
  <1>5. ASSUME NEW i \in Ids, NEW isr \in BOOLEAN,
               NEW who \in {"user"} \cup Children, isr => who \in {"user", "plic"},
               NEW on \in Harts,
               Register(h, on, i, isr, who), Free(on), UNCHANGED <<trap, mtvec>>,
               h = on
        PROVE  /\ asked'[g][id] # "nothing"
               /\ Free(g) /\ UNCHANGED trap
               /\ id = "beu" => mtvec'[g] # "vector"
    <2>1. (IF isr THEN who ELSE DefaultOf(i)) # "nothing"
      BY <1>5 DEF DefaultOf
    <2>2. /\ Registrable(h, i) /\ i # "other"
          /\ asked' = [asked EXCEPT ![on][i] = IF isr THEN who ELSE DefaultOf(i)]
      BY <1>5 DEF Register
    <2>3. g = on /\ id = i /\ asked'[g][id] = IF isr THEN who ELSE DefaultOf(i)
      BY <2>2
    <2>. QED  BY <1>5, <2>1, <2>2, <2>3 DEF Registrable, VectorMode
  <1>6. CASE InitLocal(h) \/ InitGlobal(h)
    <2>1. PICK who \in Children : Register(h, Main, "lc", FALSE, who)
      BY <1>6 DEF InitLocal, InitGlobal, MayInit
    <2>2. Free(Main) /\ h = Main /\ UNCHANGED <<trap, mtvec>>
      BY <1>6 DEF InitLocal, InitGlobal, MayInit, csrs
    <2>. QED  BY <2>1, <2>2, <1>5 DEF Ids, Lines
  <1>7. CASE CallStep(h)
    <2>1. CASE \E i \in Ids, isr \in BOOLEAN : RegisterHandler(h, i, isr)
      <3>1. PICK i \in Ids, isr \in BOOLEAN : RegisterHandler(h, i, isr)
        BY <2>1
      <3>2. Register(h, h, i, isr, "user") /\ Free(h) /\ UNCHANGED <<trap, mtvec>>
        BY <3>1 DEF RegisterHandler, ReadyFor, Calls, csrs
      <3>. QED  BY <3>2, <1>5
    <2>2. CASE UNCHANGED asked
      BY <2>2
    <2>. QED  BY <1>7, <2>1, <2>2 DEF CallStep, SetEnable, SetGlobal,
                  SetVectorMode, RegisterException, SetIpi, tables
  <1>. QED  BY <1>1, <1>2, <1>3, <1>4, <1>6, <1>7

(* The first parent is Main. *)
LEMMA MainFirst ==
    ASSUME DispatchAssumption, InOrder, TypeInv, "plic" \in Children,
           work[Main].todo = Harts
    PROVE  Min(work[Main].todo) = Main
  <1>1. Main \in Harts /\ Harts \subseteq Nat
    BY DEF DispatchAssumption
  <1>2. /\ Min(work[Main].todo) \in Harts
        /\ \A g \in Harts : Min(work[Main].todo) <= g
    BY <1>1, ParentIsHart
  <1>3. Min(work[Main].todo) <= Main /\ Main <= Min(work[Main].todo)
    BY <1>1, <1>2 DEF InOrder
  <1>4. PICK m \in Nat : m = Min(work[Main].todo)
    BY <1>1, <1>2
  <1>5. m <= Main /\ Main <= m
    BY <1>3, <1>4
  <1>6. m = Main
    BY <1>1, <1>5
  <1>. QED  BY <1>4, <1>6

LEMMA EnabledKept ==
    ASSUME DispatchAssumption, InOrder, IInv, Next
    PROVE  EnabledWereAsked'
  <1>. USE DEF IInv, OrderInv
  <1>. /\ mie \in [Harts -> SUBSET Lines] /\ trap \in [Harts -> Traps]
       /\ pending \in [Harts -> SUBSET (Lines \cup {"beu"})]
       /\ mtvec \in [Harts -> {"early", "own", "direct", "vector"}]
       /\ asked \in [Harts -> [Lines \cup {"beu"} -> Functions \cup {"nothing"}]]
       /\ Main \in Harts
    BY DEF DispatchAssumption, TypeInv, TypeOK, Traps
  <1>0. /\ mie' \in [Harts -> SUBSET Lines]
        /\ asked' \in [Harts -> [Lines \cup {"beu"} -> Functions \cup {"nothing"}]]
    BY TypeInductive DEF TypeInv, TypeOK
  <1>1. PICK h \in Harts :
           \/ InitCpu(h) \/ InitClint(h) \/ InitPlic(h)
           \/ InitLocal(h) \/ InitGlobal(h)
           \/ ClearTables(h) \/ ClintParent(h) \/ PlicParent(h) \/ PlicAttach(h)
           \/ CallStep(h) \/ DeviceStep(h)
    BY StepIsKnown
  <1>2. \A g \in Harts, id \in Lines \cup {"beu"} :
           asked[g][id] # "nothing" => asked'[g][id] # "nothing"
    BY AskedStays
  <1>3. ASSUME NEW g \in Harts, NEW id \in mie'[g]
        PROVE  asked'[g][id] # "nothing"
    <2>1. id \in Lines
      BY <1>0, <1>3
    <2>2. CASE id \in mie[g]
      BY <1>2, <2>1, <2>2 DEF EnabledWereAsked
    <2>3. CASE id \notin mie[g]
      <3>1. mie' # mie
        BY <1>3, <2>3
      <3>2. CASE PlicAttach(h)
        <4>. DEFINE on == Min(work[h].todo)
        <4>1. on \in Harts /\ h = Main /\ "plic" \in Children
          BY <3>2, ParentIsHart DEF PlicAttach, TypeInv, WorkFits, Phases
        <4>2. /\ mie' = [mie EXCEPT ![h] = @ \cup {"ext"}]
              /\ asked' = [asked EXCEPT ![on]["ext"] = "plic"]
              /\ work[h].op = "attach"
          BY <3>2 DEF PlicAttach
        <4>3. work[Main].todo = Harts => on = Main
          BY <4>1, MainFirst
        <4>. HIDE DEF on
        <4>4. g = Main /\ id = "ext"
          BY <1>3, <2>3, <4>1, <4>2
        <4>5. CASE on = Main
          <5>. g = on /\ id = "ext" /\ id \in Lines \cup {"beu"}
            BY <2>1, <4>4, <4>5
          <5>. QED  BY <4>1, <4>2
        <4>6. CASE asked[Main]["ext"] = "plic"
          BY <1>2, <2>1, <4>4, <4>6
        <4>. QED  BY <4>1, <4>2, <4>3, <4>5, <4>6 DEF PlicLine
      <3>3. CASE \E i \in Lines, on \in BOOLEAN : SetEnable(h, i, on)
        <4>1. PICK i \in Lines, on \in BOOLEAN : SetEnable(h, i, on)
          BY <3>3
        <4>2. g = h /\ id = i /\ on
          BY <1>3, <2>3, <4>1 DEF SetEnable, WithBit
        <4>. QED  BY <4>1, <4>2 DEF SetEnable, tables
      <3>. QED  BY <1>1, <3>1, <3>2, <3>3, DeviceFrame
           DEF InitCpu, InitClint, InitPlic, Begin, InitLocal, InitGlobal,
               ClearTables, ClintParent, PlicParent, CallStep, RegisterHandler,
               SetGlobal, SetVectorMode, RegisterException, SetIpi, csrs
    <2>. QED  BY <2>2, <2>3
  <1>4. ASSUME NEW g \in Harts, "beu" \in pending'[g]
        PROVE  asked'[g]["beu"] # "nothing"
    <2>1. CASE "beu" \in pending[g]
      BY <1>2, <2>1 DEF EnabledWereAsked
    <2>2. CASE "beu" \notin pending[g]
      <3>1. pending' # pending
        BY <1>4, <2>2
      <3>2. CASE \E id \in Lines \cup {"beu"} : Raise(h, id)
        <4>1. PICK id \in Lines \cup {"beu"} : Raise(h, id)
          BY <3>2
        <4>2. g = h /\ id = "beu"
          BY <1>4, <2>2, <4>1 DEF Raise
        <4>. QED  BY <4>1, <4>2 DEF Raise
      <3>3. CASE Return(h)
        BY <1>4, <2>2, <3>3 DEF Return
      <3>4. CASE \E to \in Harts : SetIpi(h, to)
        BY <1>4, <2>2, <3>4 DEF SetIpi
      <3>. QED  BY <1>1, <3>1, <3>2, <3>3, <3>4
           DEF InitCpu, InitClint, InitPlic, Begin, InitLocal, InitGlobal,
               ClearTables, ClintParent, PlicParent, PlicAttach, CallStep,
               RegisterHandler, SetEnable, SetGlobal, SetVectorMode,
               RegisterException, DeviceStep, TrapStep, Interrupt,
               SoftwareDefault, Exception
    <2>. QED  BY <2>1, <2>2
  <1>5. ASSUME NEW g \in Harts, trap'[g].id \in Ids
        PROVE  trap'[g].id # "other" /\ asked'[g][trap'[g].id] # "nothing"
    <2>1. CASE trap'[g].id = trap[g].id
      <3>1. trap[g].id \in Lines \cup {"beu"}
        BY <1>5, <2>1 DEF EnabledWereAsked, Ids
      <3>. QED  BY <1>2, <1>5, <2>1, <3>1 DEF EnabledWereAsked
    <2>2. CASE trap'[g].id # trap[g].id
      <3>1. trap' # trap
        BY <2>2
      <3>2. CASE \E id \in Ids : Interrupt(h, id)
        <4>1. PICK id \in Ids : Interrupt(h, id)
          BY <3>2
        <4>2. /\ id \in mie[h] \cup {"beu"} /\ id \in pending[h]
              /\ UNCHANGED asked
          BY <4>1 DEF Interrupt
        <4>3. g = h /\ trap'[g].id = id
          <5>1. g = h
            BY <2>2, <4>1 DEF Interrupt
          <5>. QED  BY <4>1, <5>1 DEF Interrupt, ByExceptionHandler, ByVectorTable,
                                     WeakHandler, Call, Stray
        <4>. QED  BY <4>2, <4>3 DEF EnabledWereAsked, Lines
      <3>3. CASE SoftwareDefault(h)
        BY <2>2, <3>3 DEF SoftwareDefault, Traps
      <3>4. CASE Return(h)
        BY <1>5, <2>2, <3>4 DEF Return, NoTrap, Ids, Lines
      <3>5. CASE \E code \in Codes : Exception(h, code)
        BY <1>5, <2>2, <3>5 DEF Exception, Stray, Codes, Ids, Lines
      <3>. QED  BY <1>1, <3>1, <3>2, <3>3, <3>4, <3>5, CallFrame
           DEF InitCpu, InitClint, InitPlic, Begin, InitLocal, InitGlobal,
               ClearTables, ClintParent, PlicParent, PlicAttach, DeviceStep,
               TrapStep, Raise
    <2>. QED  BY <2>1, <2>2
  <1>6. ASSUME NEW g \in Harts, mtvec'[g] = "vector"
        PROVE  asked'[g]["beu"] = "nothing"
    <2>1. asked'[g]["beu"] = asked[g]["beu"]
      BY <1>6, AskedStays
    <2>2. CASE mtvec[g] = "vector"
      BY <2>1, <2>2 DEF EnabledWereAsked
    <2>3. CASE mtvec[g] # "vector"
      <3>1. mtvec' # mtvec
        BY <1>6, <2>3
      <3>2. CASE ClearTables(h)
        BY <1>6, <2>3, <3>2 DEF ClearTables, SetVector
      <3>3. CASE \E mode \in {"direct", "vector"} : SetVectorMode(h, mode)
        <4>1. PICK mode \in {"direct", "vector"} : SetVectorMode(h, mode)
          BY <3>3
        <4>2. g = h /\ mode = "vector"
          BY <1>6, <2>3, <4>1 DEF SetVectorMode, SetVector
        <4>. QED  BY <2>1, <4>1, <4>2 DEF SetVectorMode
      <3>. QED  BY <1>1, <3>1, <3>2, <3>3, DeviceFrame
           DEF InitCpu, InitClint, InitPlic, Begin, InitLocal, InitGlobal,
               ClintParent, PlicParent, PlicAttach, CallStep, RegisterHandler,
               SetEnable, SetGlobal, RegisterException, SetIpi, csrs
    <2>. QED  BY <2>2, <2>3
  <1>. QED  BY <1>3, <1>4, <1>5, <1>6 DEF EnabledWereAsked

LEMMA ClintLinesKept ==
    ASSUME DispatchAssumption, InOrder, IInv, Next
    PROVE  ClintLines'
  <1>. USE DEF IInv, OrderInv
  <1>. /\ table \in [Harts -> [Lines -> Entries]] /\ work \in [Harts -> Works]
       /\ asked \in [Harts -> [Lines \cup {"beu"} -> Functions \cup {"nothing"}]]
       /\ Main \in Harts /\ Idle \in Works /\ ready \subseteq Harts
    BY DEF DispatchAssumption, TypeInv, TypeOK, Works, Idle
  <1>1. PICK h \in Harts :
           \/ InitCpu(h) \/ InitClint(h) \/ InitPlic(h)
           \/ InitLocal(h) \/ InitGlobal(h)
           \/ ClearTables(h) \/ ClintParent(h) \/ PlicParent(h) \/ PlicAttach(h)
           \/ CallStep(h) \/ DeviceStep(h)
    BY StepIsKnown
  <1>2. CASE ClintParent(h)
    <2>0. PICK on \in Harts : on = Min(work[h].todo)
      BY <1>2, ParentIsHart DEF ClintParent, TypeInv, WorkFits
    <2>. DEFINE left == work[h].todo \ {on}
    <2>1. /\ h = Main /\ Harts \subseteq ready
          /\ work[Main].op = "clint" /\ "clint" \notin up
      BY <1>2 DEF ClintParent, Phases, ClintLines
    <2>2. /\ table' = [table EXCEPT ![on]["sw"] = Entry(@, "sw", FALSE, "clint"),
                                    ![on]["tmr"] = Entry(@, "tmr", FALSE, "clint")]
          /\ asked' = [asked EXCEPT ![on]["sw"] = "sw_default",
                                    ![on]["tmr"] = "tmr_default"]
          /\ work' = [work EXCEPT ![h] = IF left = {} THEN Idle
                                  ELSE [@ EXCEPT !.op = "clint", !.todo = left]]
          /\ up' = IF left = {} THEN up \cup {"clint"} ELSE up
          /\ ready' = ready
      BY <1>2, <2>0 DEF ClintParent, NextParent
    <2>3. \A g \in Harts : Visited(g)' <=> g \notin left
      <3>1. CASE left = {}
        BY <2>1, <2>2, <3>1 DEF Visited
      <3>2. CASE left # {}
        <4>1. work'[Main].op = "clint" /\ work'[Main].todo = left
          BY <2>1, <2>2, <3>2 DEF Works
        <4>. QED  BY <2>1, <2>2, <3>2, <4>1 DEF Visited
      <3>. QED  BY <3>1, <3>2
    <2>4. \A g \in Harts : Visited(g) <=> g \notin work[Main].todo
      BY <2>1 DEF Visited
    <2>5. work'[Main].op = "clint" => "clint" \notin up'
      BY <2>1, <2>2 DEF Idle
    <2>6. table'[on]["sw"].sub = "clint" /\ table'[on]["tmr"].sub = "clint"
      <3>1. \A e \in Entries : /\ Entry(e, "sw", FALSE, "clint").sub = "clint"
                               /\ Entry(e, "tmr", FALSE, "clint").sub = "clint"
        BY DEF Entry, Entries
      <3>2. /\ table'[on]["sw"] = Entry(table[on]["sw"], "sw", FALSE, "clint")
            /\ table'[on]["tmr"] = Entry(table[on]["tmr"], "tmr", FALSE, "clint")
            /\ table[on]["sw"] \in Entries /\ table[on]["tmr"] \in Entries
        BY <2>1, <2>2 DEF Lines
      <3>. QED  BY <3>1, <3>2
    <2>7. \A g \in Harts \ {on} : table'[g] = table[g] /\ asked'[g] = asked[g]
      BY <2>1, <2>2
    <2>8. \A g \in Harts \ {on} : Visited(g)' <=> Visited(g)
      BY <2>1, <2>3, <2>4
    <2>9. Visited(on)'
      BY <2>1, <2>3
    <2>10. ready' = ready
      BY <2>2
    <2>. QED  BY <2>1, <2>5, <2>6, <2>7, <2>8, <2>9, <2>10 DEF ClintLines
  <1>3. ASSUME \A g \in Harts : Visited(g)' <=> Visited(g),
               work'[Main].op = "clint" => "clint" \notin up',
               "clint" \in up' => "clint" \in up, ready \subseteq ready',
               \A g \in Harts : /\ Visited(g) =>
                                      /\ table'[g]["sw"].sub = table[g]["sw"].sub
                                      /\ table'[g]["tmr"].sub = table[g]["tmr"].sub
                                /\ ~Visited(g) =>
                                      /\ asked'[g]["sw"] = asked[g]["sw"]
                                      /\ asked'[g]["tmr"] = asked[g]["tmr"]
        PROVE  ClintLines'
    BY <1>3 DEF ClintLines
  <1>4. CASE InitCpu(h)
    <2>1. work' = work \/ /\ work' = [work EXCEPT ![h] = [Idle EXCEPT !.op = "clear",
                                                                   !.on = h]]
                          /\ work[h].op = "idle"
      BY <1>4 DEF InitCpu, Free
    <2>2. \/ work'[Main] = work[Main]
          \/ work'[Main].op = "clear" /\ work[Main].op = "idle"
      BY <2>1 DEF Idle
    <2>3. \A g \in Harts : Visited(g)' <=> Visited(g)
      BY <1>4, <2>2 DEF InitCpu, Visited
    <2>. QED  BY <1>3, <1>4, <2>2, <2>3 DEF InitCpu, ClintLines
  <1>5. CASE InitClint(h) \/ InitPlic(h)
    <2>1. PICK op \in {"clint", "parent"} :
             Begin(h, op) /\ (op = "clint" => "clint" \notin up)
      BY <1>5 DEF InitClint, InitPlic, MayInit
    <2>2. h = Main /\ work[Main].op = "idle"
      BY <1>5 DEF InitClint, InitPlic, MayInit, Free
    <2>3. work'[Main].op = op /\ work'[Main].todo = Harts
      BY <2>1, <2>2 DEF Begin, Idle
    <2>4. \A g \in Harts : Visited(g)' <=> Visited(g)
      BY <2>1, <2>2, <2>3 DEF Begin, Visited
    <2>. QED  BY <1>3, <2>1, <2>3, <2>4 DEF Begin, tables
  <1>6. CASE ClearTables(h)
    <2>1. h \notin ready /\ work[h].next = "idle" /\ work[h].op = "clear"
      BY <1>6 DEF ClearTables, Phases
    <2>2. "clint" \notin up /\ work[Main].op # "clint"
      BY <2>1 DEF ClintLines, Phases
    <2>3. work'[Main].op # "clint" /\ UNCHANGED <<up, asked>> /\ ready \subseteq ready'
      BY <1>6, <2>1, <2>2 DEF ClearTables
    <2>. QED  BY <1>3, <2>2, <2>3 DEF Visited
  <1>7. CASE PlicParent(h)
    <2>1. work[Main].op # "clint" /\ work'[Main].op # "clint"
      BY <1>7 DEF PlicParent, Phases
    <2>. QED  BY <1>3, <1>7, <2>1 DEF PlicParent, Visited, tables
  <1>8. CASE PlicAttach(h)
    <2>. DEFINE on == Min(work[h].todo)
    <2>1. on \in Harts /\ h = Main /\ work[Main].op = "attach"
      BY <1>8, ParentIsHart DEF PlicAttach, TypeInv, WorkFits, Phases
    <2>2. /\ up' \in {up, up \cup {"plic"}}
          /\ work'[Main].op \in {"parent", "idle"}
          /\ ready' = ready
      BY <1>8, <2>1 DEF PlicAttach, NextParent, Idle, Works
    <2>3. \A g \in Harts : Visited(g)' <=> Visited(g)
      BY <2>1, <2>2 DEF Visited
    <2>4. /\ table' = [table EXCEPT ![on]["ext"] =
                          Entry(Entry(@, "ext", FALSE, "plic"), "ext", TRUE, "plic")]
          /\ asked' = [asked EXCEPT ![on]["ext"] = "plic"]
      BY <1>8 DEF PlicAttach
    <2>. HIDE DEF on
    <2>5. \A g \in Harts, id \in {"sw", "tmr"} :
             table'[g][id] = table[g][id] /\ asked'[g][id] = asked[g][id]
      BY <2>1, <2>4 DEF Lines
    <2>. QED  BY <1>3, <2>2, <2>3, <2>5
  <1>9. CASE InitLocal(h) \/ InitGlobal(h)
    <2>1. PICK who \in {"local", "global"} :
             Register(h, Main, "lc", FALSE, who) /\ up' = up \cup {who}
      BY <1>9 DEF InitLocal, InitGlobal
    <2>2. UNCHANGED <<work, ready>>
      BY <1>9 DEF InitLocal, InitGlobal
    <2>3. \A g \in Harts, id \in {"sw", "tmr"} :
             table'[g][id] = table[g][id] /\ asked'[g][id] = asked[g][id]
      BY <2>1 DEF Register, Lines
    <2>. QED  BY <1>3, <2>1, <2>2, <2>3 DEF Visited, ClintLines
  <1>10. CASE CallStep(h)
    <2>1. UNCHANGED <<work, up, ready>>
      BY <1>10, CallFrame
    <2>2. CASE \E id \in Ids, isr \in BOOLEAN : RegisterHandler(h, id, isr)
      <3>1. PICK id \in Ids, isr \in BOOLEAN : RegisterHandler(h, id, isr)
        BY <2>2
      <3>2. CASE id \in {"sw", "tmr"}
        <4>1. "clint" \in up /\ isr /\ id \in Lines /\ id # "beu"
          BY <3>1, <3>2 DEF RegisterHandler, ReadyFor, ByClint, ByLocal, ByGlobal,
                            ByCpu, Lines
        <4>2. table' = table
              \/ table' = [table EXCEPT ![h][id] = Entry(@, id, isr, "user")]
          BY <3>1, <4>1 DEF RegisterHandler, Register
        <4>3. \A e \in Entries : Entry(e, id, isr, "user").sub = e.sub
          BY <4>1 DEF Entry, Entries
        <4>4. ASSUME NEW g \in Harts, NEW i \in Lines
              PROVE  \/ table'[g][i] = table[g][i]
                     \/ table'[g][i] = Entry(table[g][i], id, isr, "user")
          <5>1. CASE table' = table
            BY <5>1
          <5>2. CASE table' = [table EXCEPT ![h][id] = Entry(@, id, isr, "user")]
            <6>1. CASE g = h /\ i = id
              BY <5>2, <6>1
            <6>2. CASE g # h \/ i # id
              BY <5>2, <6>2
            <6>. QED  BY <6>1, <6>2
          <5>. QED  BY <4>2, <5>1, <5>2
        <4>5. \A g \in Harts, i \in {"sw", "tmr"} : table[g][i] \in Entries
          BY DEF Lines
        <4>6. \A g \in Harts, i \in {"sw", "tmr"} :
                 table'[g][i].sub = table[g][i].sub
          BY <4>3, <4>4, <4>5 DEF Lines
        <4>7. \A g \in Harts : Visited(g) /\ Visited(g)'
          BY <2>1, <4>1 DEF Visited
        <4>. QED  BY <2>1, <4>6, <4>7 DEF ClintLines
      <3>3. CASE id \notin {"sw", "tmr"}
        <4>1. \A g \in Harts, i \in {"sw", "tmr"} :
                 table'[g][i] = table[g][i] /\ asked'[g][i] = asked[g][i]
          BY <3>1, <3>3 DEF RegisterHandler, Register, Lines
        <4>. QED  BY <1>3, <2>1, <4>1 DEF Visited, ClintLines
      <3>. QED  BY <3>2, <3>3
    <2>3. CASE UNCHANGED <<table, asked>>
      BY <2>1, <2>3 DEF ClintLines, Visited
    <2>. QED  BY <1>10, <2>2, <2>3 DEF CallStep, SetEnable, SetGlobal,
                  SetVectorMode, RegisterException, SetIpi, tables
  <1>11. CASE DeviceStep(h)
    BY <1>11, DeviceFrame DEF ClintLines, Visited
  <1>. QED  BY <1>1, <1>2, <1>4, <1>5, <1>6, <1>7, <1>8, <1>9, <1>10, <1>11

LEMMA PlicLineKept ==
    ASSUME DispatchAssumption, InOrder, IInv, Next
    PROVE  PlicLine'
  <1>. USE DEF IInv, OrderInv
  <1>. /\ work \in [Harts -> Works] /\ Main \in Harts /\ Idle \in Works
       /\ asked \in [Harts -> [Lines \cup {"beu"} -> Functions \cup {"nothing"}]]
    BY DEF DispatchAssumption, TypeInv, TypeOK, Works, Idle
  <1>1. PICK h \in Harts :
           \/ InitCpu(h) \/ InitClint(h) \/ InitPlic(h)
           \/ InitLocal(h) \/ InitGlobal(h)
           \/ ClearTables(h) \/ ClintParent(h) \/ PlicParent(h) \/ PlicAttach(h)
           \/ CallStep(h) \/ DeviceStep(h)
    BY StepIsKnown
  <1>2. CASE PlicAttach(h)
    <2>0. PICK on \in Harts : on = Min(work[h].todo)
      BY <1>2, ParentIsHart DEF PlicAttach, TypeInv, WorkFits
    <2>1. /\ h = Main /\ "plic" \in Children
          /\ work[Main].todo = Harts => on = Main
      BY <1>2, <2>0, MainFirst DEF PlicAttach, Phases, TypeInv, WorkFits
    <2>2. asked' = [asked EXCEPT ![on]["ext"] = "plic"]
      BY <1>2, <2>0 DEF PlicAttach
    <2>3. \A g \in Harts : asked'[g]["ext"] = asked[g]["ext"] \/ asked'[g]["ext"] = "plic"
      BY <2>2
    <2>4. asked'[Main]["ext"] = "plic"
      <3>1. CASE on = Main
        BY <2>2, <3>1 DEF Lines
      <3>2. CASE asked[Main]["ext"] = "plic"
        BY <2>3, <3>2
      <3>. QED  BY <1>2, <2>1, <3>1, <3>2 DEF PlicAttach, PlicLine
    <2>. QED  BY <2>3, <2>4 DEF PlicLine
  <1>3. ASSUME \A g \in Harts : asked'[g]["ext"] = asked[g]["ext"],
               work'[Main].op \in {"parent", "attach"} =>
                  \/ work'[Main].todo = Harts
                  \/ /\ work[Main].op \in {"parent", "attach"}
                     /\ work'[Main].todo = work[Main].todo
        PROVE  PlicLine'
    BY <1>3 DEF PlicLine
  <1>4. CASE InitCpu(h)
    <2>1. work'[Main] = work[Main] \/ work'[Main].op = "clear"
      <3>1. \/ work' = work
            \/ work' = [work EXCEPT ![h] = [Idle EXCEPT !.op = "clear", !.on = h]]
        BY <1>4 DEF InitCpu
      <3>. QED  BY <3>1 DEF Idle
    <2>. QED  BY <1>3, <1>4, <2>1 DEF InitCpu
  <1>5. CASE InitClint(h) \/ InitPlic(h)
    <2>1. PICK op \in {"clint", "parent"} : Begin(h, op)
      BY <1>5 DEF InitClint, InitPlic
    <2>2. h = Main
      BY <1>5 DEF InitClint, InitPlic, MayInit
    <2>3. work'[Main].op = op /\ work'[Main].todo = Harts
      BY <2>1, <2>2 DEF Begin, Idle
    <2>. QED  BY <1>3, <2>1, <2>3 DEF Begin
  <1>6. CASE ClearTables(h)
    <2>1. work' = [work EXCEPT ![h].op = "idle"]
      BY <1>6 DEF ClearTables, Phases
    <2>2. work'[Main] = work[Main] \/ work'[Main].op = "idle"
      BY <2>1 DEF Works
    <2>. QED  BY <1>3, <1>6, <2>2 DEF ClearTables
  <1>7. CASE ClintParent(h)
    <2>0. PICK on \in Harts : on = Min(work[h].todo)
      BY <1>7, ParentIsHart DEF ClintParent, TypeInv, WorkFits
    <2>1. h = Main
      BY <1>7 DEF ClintParent, Phases
    <2>2. work'[Main].op \in {"clint", "idle"}
      BY <1>7, <2>1 DEF ClintParent, NextParent, Idle, Works
    <2>3. asked' = [asked EXCEPT ![on]["sw"] = "sw_default",
                                 ![on]["tmr"] = "tmr_default"]
      BY <1>7, <2>0 DEF ClintParent
    <2>4. ASSUME NEW g \in Harts PROVE asked'[g]["ext"] = asked[g]["ext"]
      <3>1. asked[g] \in [Lines \cup {"beu"} -> Functions \cup {"nothing"}]
            /\ "ext" \in Lines
        BY DEF Lines
      <3>2. g # on => asked'[g] = asked[g]
        BY <2>3
      <3>3. g = on => asked'[g] = [asked[g] EXCEPT !["sw"] = "sw_default",
                                                  !["tmr"] = "tmr_default"]
        BY <2>3
      <3>. QED  BY <3>1, <3>2, <3>3
    <2>. QED  BY <1>3, <2>2, <2>4
  <1>8. CASE PlicParent(h)
    <2>1. h = Main /\ done[Min(work[h].todo)]
      BY <1>8, ParentIsHart DEF PlicParent, TypeInv, WorkFits, Phases
    <2>2. work' = [work EXCEPT ![h].op = "attach"]
      BY <1>8, <2>1 DEF PlicParent
    <2>3. work'[Main].todo = work[Main].todo /\ work[Main].op = "parent"
      BY <1>8, <2>1, <2>2 DEF PlicParent, Works
    <2>. QED  BY <1>3, <1>8, <2>3 DEF PlicParent
  <1>9. CASE InitLocal(h) \/ InitGlobal(h)
    <2>1. PICK who \in {"local", "global"} : Register(h, Main, "lc", FALSE, who)
      BY <1>9 DEF InitLocal, InitGlobal
    <2>2. \A g \in Harts : asked'[g]["ext"] = asked[g]["ext"]
      BY <2>1 DEF Register
    <2>. QED  BY <1>3, <1>9, <2>2 DEF InitLocal, InitGlobal
  <1>10. CASE CallStep(h)
    <2>1. UNCHANGED work
      BY <1>10, CallFrame
    <2>2. \/ asked' = asked
          \/ \E id \in Ids, isr \in BOOLEAN : RegisterHandler(h, id, isr)
      BY <1>10 DEF CallStep, SetEnable, SetGlobal, SetVectorMode,
                   RegisterException, SetIpi, tables
    <2>3. ASSUME NEW id \in Ids, NEW isr \in BOOLEAN, RegisterHandler(h, id, isr)
          PROVE  \A g \in Harts : asked'[g]["ext"] = asked[g]["ext"]
      BY <2>3 DEF RegisterHandler, Register
    <2>4. \A g \in Harts : asked'[g]["ext"] = asked[g]["ext"]
      BY <2>2, <2>3
    <2>. QED  BY <1>3, <2>1, <2>4
  <1>11. CASE DeviceStep(h)
    BY <1>3, <1>11, DeviceFrame
  <1>. QED  BY <1>1, <1>2, <1>4, <1>5, <1>6, <1>7, <1>8, <1>9, <1>10, <1>11

(* What an entry holds answers its interrupt. *)
Answers(t, fn) ==
    /\ t.fn \in {fn, "own", "early"}
    /\ t.fn = "user" => t.data = "user"
    /\ t.fn = "plic" => t.data = "plic"

LEMMA InterruptAnswers ==
    ASSUME DispatchAssumption, IInv, NEW h \in Harts, NEW id \in Ids,
           Interrupt(h, id)
    PROVE  /\ Answers(trap'[h], asked[h][id]) /\ trap'[h].id = id
           /\ h \in ready /\ trap'[h].fn \notin {"early", "null", "stray"}
  <1>. USE DEF IInv, OrderInv
  <1>. /\ table \in [Harts -> [Lines -> Entries]] /\ beu \in [Harts -> Entries]
       /\ trap \in [Harts -> Traps]
       /\ mtvec \in [Harts -> {"early", "own", "direct", "vector"}]
    BY DEF TypeInv, TypeOK, Traps
  <1>1. /\ id \in Lines \cup {"beu"}
        /\ asked[h][id] # "nothing"
        /\ mtvec[h] = "vector" => id \in Lines
    <2>1. id \in mie[h] \cup {"beu"} /\ id \in pending[h]
      BY DEF Interrupt
    <2>. QED  BY <2>1 DEF EnabledWereAsked, TypeInv, TypeOK
  <1>2. h \in ready /\ mtvec[h] # "early"
    BY DEF Interrupt, Untouched, SetUp
  <1>3. \A e \in Entries : Holds(e, asked[h][id])
           => Answers(Call(e, id), asked[h][id]) /\ Call(e, id).id = id
    BY <1>1 DEF Holds, HasItsData, Answers, Call
  <1>4. id \in Lines => /\ Holds(table[h][id], asked[h][id])
                        /\ table[h][id] \in Entries
    BY DEF EntriesAsAsked
  <1>5. id = "beu" => Holds(beu[h], asked[h][id])
    BY DEF EntriesAsAsked
  <1>6. \A e \in Entries : Holds(e, asked[h][id])
           => Call(e, id).fn \notin {"early", "null", "stray"}
    BY <1>1 DEF Holds, Call, Entries, Functions
  <1>7. trap'[h] = CASE mtvec[h] = "direct" -> ByExceptionHandler(h, id)
                     [] mtvec[h] = "vector" -> ByVectorTable(h, id)
                     [] OTHER -> Stray(mtvec[h], id)
    BY DEF Interrupt
  <1>8. CASE mtvec[h] = "direct"
    <2>1. CASE id = "beu"
      <3>1. trap'[h] = Call(beu[h], id)
        BY <1>7, <1>8, <2>1 DEF ByExceptionHandler
      <3>. QED  BY <1>2, <1>3, <1>5, <1>6, <2>1, <3>1
    <2>2. CASE id # "beu"
      <3>1. trap'[h] = Call(table[h][id], id) /\ id \in Lines
        BY <1>1, <1>7, <1>8, <2>2 DEF ByExceptionHandler
      <3>. QED  BY <1>2, <1>3, <1>4, <1>6, <3>1
    <2>. QED  BY <2>1, <2>2
  <1>9. CASE mtvec[h] = "vector"
    <2>1. trap'[h] = Call(table[h][id], id) /\ id \in Lines
      BY <1>1, <1>7, <1>9 DEF ByVectorTable, WeakHandler
    <2>. QED  BY <1>2, <1>3, <1>4, <1>6, <2>1
  <1>10. CASE mtvec[h] = "own"
    <2>1. trap'[h] = Stray("own", id)
      BY <1>7, <1>10
    <2>. QED  BY <1>2, <2>1 DEF Stray, Answers
  <1>. QED  BY <1>2, <1>8, <1>9, <1>10

LEMMA TrapsKept ==
    ASSUME DispatchAssumption, InOrder, IInv, Next
    PROVE  TrapsAnswered'
  <1>. USE DEF IInv, OrderInv
  <1>. /\ trap \in [Harts -> Traps] /\ ready \subseteq Harts
       /\ except \in [Harts -> [Codes -> {"null", "default", "user_exception"}]]
    BY DEF TypeInv, TypeOK, Traps
  <1>. DEFINE Well(g) ==
                 /\ trap[g].id \in Ids /\ trap[g].fn \notin {"own", "early"} =>
                       /\ trap[g].fn \in {asked[g][trap[g].id], except[g]["break"]}
                       /\ trap[g].fn = "user" => trap[g].data = "user"
                       /\ trap[g].fn = "plic" => trap[g].data = "plic"
                 /\ g \in ready => trap[g].fn \notin {"early", "null", "stray"}
  <1>1. PICK h \in Harts :
           \/ InitCpu(h) \/ InitClint(h) \/ InitPlic(h)
           \/ InitLocal(h) \/ InitGlobal(h)
           \/ ClearTables(h) \/ ClintParent(h) \/ PlicParent(h) \/ PlicAttach(h)
           \/ CallStep(h) \/ DeviceStep(h)
    BY StepIsKnown
  <1>2. \A g \in Harts : Well(g)
    BY DEF TrapsAnswered, LastRegisteredRuns, InitialisedHartsTrapWell
  <1>3. NoTrap.id \notin Ids /\ NoTrap.fn = "none"
    BY DEF NoTrap, Ids, Lines
  (* A trap that a hart is in is about a line it has registered. *)
  <1>4. ASSUME NEW g \in Harts, trap[g].id \in Ids
        PROVE  asked'[g][trap[g].id] = asked[g][trap[g].id]
    <2>1. trap[g].id \in Lines \cup {"beu"} /\ asked[g][trap[g].id] # "nothing"
      BY <1>4 DEF EnabledWereAsked, Ids
    <2>2. ~Free(g)
      BY <1>3, <1>4 DEF Free
    <2>. QED  BY <2>1, <2>2, AskedStays
  (* Nor do its exception handlers change, or the set of harts that are ready. *)
  <1>5. ASSUME NEW g \in Harts, trap[g] # NoTrap
        PROVE  except'[g] = except[g] /\ (g \in ready' <=> g \in ready)
    <2>1. g \in ready
      BY <1>5 DEF Untouched
    <2>2. CASE ClearTables(h)
      <3>1. work[h].on = h /\ h # g
        BY <2>1, <2>2 DEF ClearTables, Phases
      <3>. QED  BY <2>1, <2>2, <3>1 DEF ClearTables
    <2>3. CASE \E code \in Codes : RegisterException(h, code)
      <3>1. h # g
        BY <1>5, <2>3 DEF RegisterException, Calls, Free
      <3>. QED  BY <2>3, <3>1 DEF RegisterException
    <2>4. CASE InitCpu(h)
      BY <2>1, <2>4 DEF InitCpu
    <2>. QED  BY <1>1, <2>2, <2>3, <2>4, DeviceFrame
         DEF InitClint, InitPlic, Begin, InitLocal, InitGlobal, ClintParent,
             PlicParent, PlicAttach, CallStep, RegisterHandler, SetEnable,
             SetGlobal, SetVectorMode, SetIpi, tables
  (* A step that leaves the trap of a hart as it is. *)
  <1>6. ASSUME NEW g \in Harts, trap'[g] = trap[g]
        PROVE  Well(g)'
    <2>1. CASE trap[g] = NoTrap
      BY <1>3, <1>6, <2>1
    <2>2. CASE trap[g] # NoTrap
      <3>1. except'[g] = except[g] /\ (g \in ready' <=> g \in ready)
        BY <1>5, <2>2
      <3>. QED  BY <1>2, <1>4, <1>6, <3>1
    <2>. QED  BY <2>1, <2>2
  <1>7. ASSUME NEW g \in Harts, trap'[g] # trap[g]
        PROVE  Well(g)'
    <2>1. CASE \E id \in Ids : Interrupt(h, id)
      <3>1. PICK id \in Ids : Interrupt(h, id)
        BY <2>1
      <3>2. g = h
        BY <1>7, <3>1 DEF Interrupt
      <3>3. UNCHANGED <<asked, except, ready>>
        BY <3>1 DEF Interrupt, tables
      <3>. QED  BY <3>1, <3>2, <3>3, InterruptAnswers DEF Answers
    <2>2. CASE SoftwareDefault(h)
      <3>1. g = h
        BY <1>7, <2>2 DEF SoftwareDefault
      <3>2. /\ trap'[h].fn = except[h]["break"] /\ trap'[h].id = trap[h].id
            /\ UNCHANGED <<asked, except, ready>>
        BY <2>2 DEF SoftwareDefault, tables, Traps
      <3>3. except[h]["break"] \in {"null", "default", "user_exception"}
        BY DEF Codes
      <3>4. h \in ready => except[h]["break"] # "null"
        BY DEF SetUp, Codes
      <3>. QED  BY <3>1, <3>2, <3>3, <3>4
    <2>3. CASE Return(h)
      <3>1. trap'[g] = NoTrap
        BY <1>7, <2>3 DEF Return
      <3>. QED  BY <1>3, <3>1
    <2>4. CASE \E code \in Codes : Exception(h, code)
      <3>1. PICK code \in Codes : Exception(h, code)
        BY <2>4
      <3>2. g = h /\ h \in ready /\ mtvec[h] # "early" /\ except[h][code] # "null"
        BY <1>7, <3>1 DEF Exception, SetUp
      <3>3. trap'[h].id = code /\ trap'[h].fn \in {except[h][code], "default", mtvec[h]}
            /\ (trap'[h].fn = mtvec[h] => mtvec[h] \notin {"null", "stray"})
        <4>1. mtvec[h] \in {"early", "own", "direct", "vector"}
          BY DEF TypeInv, TypeOK
        <4>. QED  BY <3>1, <4>1 DEF Exception, Stray
      <3>4. except[h][code] \in {"null", "default", "user_exception"} /\ code \notin Ids
        BY DEF Codes, Ids, Lines
      <3>. QED  BY <3>2, <3>3, <3>4
    <2>. QED  BY <1>1, <1>7, <2>1, <2>2, <2>3, <2>4, CallFrame
         DEF InitCpu, InitClint, InitPlic, Begin, InitLocal, InitGlobal,
             ClearTables, ClintParent, PlicParent, PlicAttach, DeviceStep,
             TrapStep, Raise
  <1>8. ready' \subseteq Harts
    BY TypeInductive DEF TypeInv, TypeOK
  <1>9. \A g \in Harts : Well(g)'
    BY <1>6, <1>7
  <1>. QED  BY <1>8, <1>9 DEF TrapsAnswered, LastRegisteredRuns,
                              InitialisedHartsTrapWell

LEMMA Inductive ==
    ASSUME DispatchAssumption, InOrder, IInv, [Next]_vars
    PROVE  IInv'
  <1>1. CASE UNCHANGED vars
    <2>1. EnabledWereAsked' /\ ClintLines' /\ PlicLine' /\ TrapsAnswered'
      BY <1>1 DEF IInv, EnabledWereAsked, ClintLines, Visited, PlicLine,
                  TrapsAnswered, LastRegisteredRuns, InitialisedHartsTrapWell,
                  vars, tables, csrs
    <2>. QED  BY <2>1, OrderInductive, EntriesKept DEF IInv
  <1>2. CASE Next
    BY <1>2, OrderInductive, EntriesKept, EnabledKept, ClintLinesKept,
       PlicLineKept, TrapsKept DEF IInv
  <1>. QED  BY <1>1, <1>2

-----------------------------------------------------------------------------

(* The controllers, their entries, the CSRs and the traps of the harts have *)
(* their types in every reachable state, whoever initialises what and when: *)
(* the metal_int_table of riscv_cpu.c never holds anything but functions    *)
(* and controllers that were registered in it.                              *)
THEOREM TypeCorrect ==
    ASSUME DispatchAssumption
    PROVE  Spec => []TypeOK
  <1>1. Init => TypeInv
    BY TypeInitially
  <1>2. TypeInv /\ [Next]_vars => TypeInv'
    BY TypeInductive
  <1>3. TypeInv => TypeOK
    BY DEF TypeInv
  <1>. QED  BY <1>1, <1>2, <1>3, PTL DEF Spec

(* The invariant of the reachable states, for any number of harts of which *)
(* each initialises its own controller before Main goes on.                *)
THEOREM Invariance ==
    ASSUME DispatchAssumption, InOrder
    PROVE  Spec => []IInv
  <1>1. Init => IInv
    BY IInvInitially
  <1>2. IInv /\ [Next]_vars => IInv'
    BY Inductive
  <1>. QED  BY <1>1, <1>2, PTL DEF Spec

(* An interrupt that a hart takes is answered by the function registered    *)
(* last for it, with its own data (metal/interrupt.h), in direct and in     *)
(* vector mode (riscv_cpu.c), while the children register and initialise on *)
(* another hart.                                                            *)
THEOREM LastRegistered ==
    ASSUME DispatchAssumption, InOrder
    PROVE  Spec => []LastRegisteredRuns
  <1>1. IInv => LastRegisteredRuns
    BY DEF IInv, TrapsAnswered
  <1>. QED  BY <1>1, Invariance, PTL

(* A hart whose controller is initialised never traps to early_trap_vector, *)
(* to NULL or past the vector table (riscv_cpu.c).                          *)
THEOREM TrapsWell ==
    ASSUME DispatchAssumption, InOrder
    PROVE  Spec => []InitialisedHartsTrapWell
  <1>1. IInv => InitialisedHartsTrapWell
    BY DEF IInv, TrapsAnswered
  <1>. QED  BY <1>1, Invariance, PTL

(* Once the CLINT is initialised it stays the child of its two lines on     *)
(* every hart, where the default timer handler and the calls of             *)
(* riscv_cpu.c look for it.                                                 *)
THEOREM ClintReachable ==
    ASSUME DispatchAssumption, InOrder
    PROVE  Spec => []ClintStaysReachable
  <1>1. IInv => ClintStaysReachable
    BY DEF IInv, ClintLines, Visited, ClintStaysReachable
  <1>. QED  BY <1>1, Invariance, PTL

=============================================================================
