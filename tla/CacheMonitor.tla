----------------------------- MODULE CacheMonitor -----------------------------
(***************************************************************************)
(* The event counters of the second-level caches: of the one that harts    *)
(* share (src/drivers/sifive_ccache0.c) and of the private one of a hart   *)
(* (src/drivers/sifive_pl2cache0.c, whose calls use the registers of the   *)
(* hart that they run on).  The counters have 64 bits and go on while a    *)
(* 32-bit hart reads or clears them a word at a time.                      *)
(***************************************************************************)
EXTENDS Naturals

CONSTANTS Units,     \* the caches that the program uses, each from one hart
          Counters,  \* PERFMON_COUNTERS
          Ids,       \* the counters that programs name
          Events, Clients,
          Word,      \* a word of a counter counts from 0 to Word - 1
          MaxEvents  \* bound: the events

CacheMonitorAssumption ==
    /\ {Counters, MaxEvents} \subseteq Nat /\ Word \in Nat \ {0}
    /\ Ids \subseteq Nat

VARIABLES select,  \* the events that a counter counts
          filter,  \* the clients that a cache leaves out
          count,   \* the counters
          since,   \* how much has happened since a counter was cleared: at
                   \* least, and at most
          call,    \* the call under way
          happened

vars == <<select, filter, count, since, call, happened>>

Existing == {i \in Ids : i < Counters}

NoCall == [pc |-> "idle", unit |-> "none", id |-> 0, high |-> 0, low |-> 0,
           during |-> 0, value |-> 0]

Init ==
    /\ select = [u \in Units |-> [i \in Existing |-> {}]]
    /\ filter = [u \in Units |-> {}]
    /\ count = [u \in Units |-> [i \in Existing |-> 0]]
    /\ since = [u \in Units |-> [i \in Existing |-> [least |-> 0, most |-> 0]]]
    /\ call = NoCall
    /\ happened = 0

At(l) == call.pc = l
Idle == At("idle")
Begin(l, u, i) == call' = [NoCall EXCEPT !.pc = l, !.unit = u, !.id = i]

-----------------------------------------------------------------------------
(* The registers.  What is asked of a counter that there is not is ignored. *)

\* get_pmevent_selector.
Selector(u, i) == IF i < Counters THEN select[u][i] ELSE {}

\* get_client_filter.
Excluded(u) == filter[u]

SetSelector(u, i, mask) ==
    /\ Idle
    /\ select' = IF i < Counters THEN [select EXCEPT ![u][i] = mask] ELSE select
    /\ UNCHANGED <<filter, count, since, call, happened>>

SetFilter(u, mask) ==
    /\ Idle
    /\ filter' = [filter EXCEPT ![u] = mask]
    /\ UNCHANGED <<select, count, since, call, happened>>

\* The build clears the low word first.  Between that and the other store the
\* low word does not overflow again.
Event(u, e, c) ==
    LET Counts(i) == e \in Selector(u, i) /\ c \notin Excluded(u)
        mine == ~Idle /\ call.unit = u /\ Counts(call.id)
        Clearing(i) == mine /\ call.id = i /\ (At("clear") \/ At("clear high"))
    IN  /\ happened < MaxEvents
        /\ mine /\ At("clear high") => (count[u][call.id] % Word) < Word - 1
        /\ happened' = happened + 1
        /\ count' = [count EXCEPT ![u] =
                        [i \in Existing |-> @[i] + IF Counts(i) THEN 1 ELSE 0]]
        /\ since' = [since EXCEPT ![u] =
                        [i \in Existing |->
                            [least |-> @[i].least + IF Counts(i) THEN 1 ELSE 0,
                             most |-> @[i].most + IF Counts(i) THEN 1 ELSE 0]]]
        /\ call' = IF mine /\ Clearing(call.id)
                     THEN [call EXCEPT !.during = @ + 1] ELSE call
        /\ UNCHANGED <<select, filter>>

-----------------------------------------------------------------------------
(* clr_pmevent_counter: what happens meanwhile may count. *)

BeginClear(u, i) ==
    /\ Idle /\ i < Counters
    /\ Begin("clear", u, i)
    /\ UNCHANGED <<select, filter, count, since, happened>>

ClearLow ==
    /\ At("clear")
    /\ count' = [count EXCEPT ![call.unit][call.id] = @ - (@ % Word)]
    /\ call' = [call EXCEPT !.pc = "clear high"]
    /\ UNCHANGED <<select, filter, since, happened>>

\* A form it must not take: the high word stays.
HighStays(n) == n

WithoutHigh(n) == n % Word

ClearHigh ==
    /\ At("clear high")
    /\ count' = [count EXCEPT ![call.unit][call.id] = WithoutHigh(@)]
    /\ since' = [since EXCEPT ![call.unit][call.id] =
                    [least |-> 0, most |-> call.during]]
    /\ call' = NoCall
    /\ UNCHANGED <<select, filter, happened>>

-----------------------------------------------------------------------------
(* get_pmevent_counter. *)

BeginRead(u, i) ==
    /\ Idle /\ i < Counters
    /\ call' = [NoCall EXCEPT !.pc = "high", !.unit = u, !.id = i,
                              !.during = since[u][i].least]
    /\ UNCHANGED <<select, filter, count, since, happened>>

ReadHigh ==
    /\ At("high")
    /\ call' = [call EXCEPT !.pc = "low",
                            !.high = count[call.unit][call.id] \div Word]
    /\ UNCHANGED <<select, filter, count, since, happened>>

ReadLow ==
    /\ At("low")
    /\ call' = [call EXCEPT !.pc = "again",
                            !.low = count[call.unit][call.id] % Word]
    /\ UNCHANGED <<select, filter, count, since, happened>>

\* A form it must not take: the high word is read once.
NeverAgain == FALSE

Changed == count[call.unit][call.id] \div Word # call.high

\* The call starts over when the high word has changed.
ReadAgain ==
    /\ At("again")
    /\ call' = IF Changed THEN [call EXCEPT !.pc = "high"]
               ELSE [call EXCEPT !.pc = "done",
                                 !.value = (call.high * Word) + call.low]
    /\ UNCHANGED <<select, filter, count, since, happened>>

EndRead ==
    /\ At("done")
    /\ call' = NoCall
    /\ UNCHANGED <<select, filter, count, since, happened>>

Next ==
    \/ ClearLow \/ ClearHigh \/ ReadHigh \/ ReadLow \/ ReadAgain \/ EndRead
    \/ \E u \in Units :
          \/ \E i \in Ids, mask \in SUBSET Events : SetSelector(u, i, mask)
          \/ \E mask \in SUBSET Clients : SetFilter(u, mask)
          \/ \E e \in Events, c \in Clients : Event(u, e, c)
          \/ \E i \in Ids : BeginClear(u, i) \/ BeginRead(u, i)

Spec == Init /\ [][Next]_vars

-----------------------------------------------------------------------------

TypeOK ==
    /\ select \in [Units -> [Existing -> SUBSET Events]]
    /\ filter \in [Units -> SUBSET Clients]
    /\ count \in [Units -> [Existing -> Nat]]
    /\ call.pc \in {"idle", "clear", "clear high", "high", "low", "again", "done"}
    /\ happened \in 0 .. MaxEvents

\* The value of a counter that a call returns is how many of the selected
\* events have happened since the counter was cleared, as of some moment during
\* the call: no carry between the words is lost, of a read or of a clear.
CounterIsExact ==
    At("done") => call.value \in call.during .. since[call.unit][call.id].most

=============================================================================
