----------------------------- MODULE MetalClock -----------------------------
(***************************************************************************)
(* The rate-change callbacks of metal/clock.h and the drivers that use     *)
(* them, on one clock.  A device adds a pre- and a post-callback to two    *)
(* intrusive linked lists; metal_clock_set_rate_hz walks the first list,   *)
(* changes the rate, and walks the second.  The drivers differ in when     *)
(* they register: UART and SPI in their init, I2C in every set_baud_rate   *)
(* (its post-callback included), PWM in a set_freq that finds freq = 0.    *)
(***************************************************************************)
EXTENDS Sequences, FiniteSets, Integers

CONSTANTS Serial,    \* the UARTs and SPIs on the clock
          I2c,       \* the I2C controllers
          Pwm,       \* the PWM controllers
          Rates,     \* the rates the clock can run at
          Null       \* the null pointer

Devices == Serial \cup I2c \cup Pwm

MetalClockAssumption ==
    /\ Null \notin Devices
    /\ Serial \cap I2c = {} /\ Serial \cap Pwm = {} /\ I2c \cap Pwm = {}
    /\ Rates \subseteq Nat \ {0} /\ Rates # {}
    /\ IsFiniteSet(Devices)

VARIABLES lists,    \* the two lists: the head and each callback's _next
          order,    \* the devices in the order they first registered
          again,    \* some device has registered a second time
          inited,   \* the devices that were initialised or enabled
          divisor,  \* the clock rate a device's divisor is set for, 0 if none
          active,   \* the devices at a transfer and the PWMs that run always
          oneshot,  \* the PWMs that run through one period
          rate,     \* the rate of the clock
          target,   \* the rate asked of a metal_clock_set_rate_hz that runs
          pc,       \* what the program does
          current   \* the callback a walk has come to

vars == <<lists, order, again, inited, divisor, active, oneshot, rate, target,
          pc, current>>
devices == <<inited, active, oneshot>>
calls == <<target, pc, current>>

Empty == [head |-> Null, next |-> [d \in Devices |-> Null]]

Init ==
    /\ lists = [pre |-> Empty, post |-> Empty]
    /\ order = <<>>
    /\ again = FALSE
    /\ inited = {}
    /\ divisor = [d \in Devices |-> 0]
    /\ active = {} /\ oneshot = {}
    /\ rate \in Rates
    /\ target = rate
    /\ pc = "idle"
    /\ current = Null

-----------------------------------------------------------------------------
(* _metal_clock_append_to_callbacks. *)

\* The node n steps of _next lead to.
NodeAt(l, n) ==
    LET node[k \in 0 .. n] ==
            IF k = 0 THEN l.head
            ELSE IF node[k-1] = Null THEN Null ELSE l.next[node[k-1]]
    IN  node[n]

\* A walk of l comes to its end.
Ends(l) == NodeAt(l, Cardinality(Devices)) = Null

Nodes(l) == {NodeAt(l, n) : n \in 0 .. Cardinality(Devices)} \ {Null}

\* A form the list must not take: the second entry is overwritten.
AppendAfterHead(l, d) ==
    IF l.head = Null THEN [l EXCEPT !.head = d]
    ELSE [l EXCEPT !.next = [@ EXCEPT ![l.head] = d]]

\* cb->_next is cleared first, also of a callback that is in the list already.
AppendTo(l, d) ==
    LET cut == [l EXCEPT !.next = [@ EXCEPT ![d] = Null]] IN
    IF cut.head = Null
      THEN [cut EXCEPT !.head = d]
      ELSE [cut EXCEPT !.next =
               [@ EXCEPT ![CHOOSE n \in Nodes(cut) : cut.next[n] = Null] = d]]

\* metal_clock_register_{pre,post}_rate_change_callback by device d.  The loop
\* that looks for the end of a list never returns if the list has none.
Register(d, then) ==
    LET cut(l) == [l EXCEPT !.next = [@ EXCEPT ![d] = Null]]
        known == \E k \in 1 .. Len(order) : order[k] = d
    IN
    /\ again' = (again \/ known)
    /\ order' = IF known THEN order ELSE Append(order, d)
    /\ IF Ends(cut(lists.pre)) /\ Ends(cut(lists.post))
         THEN /\ lists' = [pre  |-> AppendTo(lists.pre, d),
                           post |-> AppendTo(lists.post, d)]
              /\ pc' = then
         ELSE pc' = "stuck" /\ UNCHANGED lists

\* The divisor is set after the registration, if that returns.
Tuned(d) == IF pc' = "stuck" THEN divisor ELSE [divisor EXCEPT ![d] = rate]

-----------------------------------------------------------------------------
(* What the program asks of the drivers between two rate changes. *)

RegisterAndTune(d) ==
    /\ Register(d, "idle")
    /\ divisor' = Tuned(d)

\* metal_uart_init and metal_spi_init.
InitSerial(d) ==
    /\ pc = "idle"
    /\ RegisterAndTune(d)
    /\ inited' = inited \cup {d}
    /\ UNCHANGED <<active, oneshot, rate, target, current>>

\* metal_i2c_init, which is a metal_i2c_set_baud_rate, and that call itself
\* (for a baud rate that the prescaler can reach).
SetI2cBaudRate(d) ==
    /\ pc = "idle"
    /\ RegisterAndTune(d)
    /\ inited' = inited \cup {d}
    /\ UNCHANGED <<active, oneshot, rate, target, current>>

\* metal_pwm_enable clears the configuration and forgets the frequency.
EnablePwm(d) ==
    /\ pc = "idle"
    /\ inited' = inited \cup {d}
    /\ divisor' = [divisor EXCEPT ![d] = 0]
    /\ active' = active \ {d} /\ oneshot' = oneshot \ {d}
    /\ UNCHANGED <<lists, order, again, rate, target, pc, current>>

\* metal_pwm_set_freq.
SetPwmFreq(d) ==
    /\ pc = "idle" /\ d \in inited
    /\ IF divisor[d] = 0 THEN Register(d, "idle")
                         ELSE UNCHANGED <<lists, order, again, pc>>
    /\ divisor' = Tuned(d)
    /\ UNCHANGED <<devices, rate, target, current>>

\* The program starts a transfer, which ends by itself.
Start(d) ==
    /\ pc = "idle"
    /\ active' = active \cup {d}
    /\ UNCHANGED <<lists, order, again, inited, divisor, oneshot, rate, calls>>

TransferEnds(d) ==
    /\ d \in active \ Pwm
    /\ active' = active \ {d}
    /\ UNCHANGED <<lists, order, again, inited, divisor, oneshot, rate, calls>>

\* metal_pwm_trigger, of the two modes, and metal_pwm_stop, which clears only
\* that of running always; a PWM comes to the end of a one-shot by itself.
Trigger(d) ==
    /\ pc = "idle"
    /\ \/ active' = active \cup {d} /\ UNCHANGED oneshot
       \/ oneshot' = oneshot \cup {d} /\ UNCHANGED active
    /\ UNCHANGED <<lists, order, again, inited, divisor, rate, calls>>

StopPwm(d) ==
    /\ pc = "idle"
    /\ active' = active \ {d}
    /\ UNCHANGED <<lists, order, again, inited, divisor, oneshot, rate, calls>>

OneShotEnds(d) ==
    /\ d \in oneshot
    /\ oneshot' = oneshot \ {d}
    /\ UNCHANGED <<lists, order, again, inited, divisor, active, rate, calls>>

-----------------------------------------------------------------------------
(* metal_clock_set_rate_hz. *)

SetRate(r) ==
    /\ pc = "idle"
    /\ target' = r
    /\ pc' = "pre"
    /\ current' = lists.pre.head
    /\ UNCHANGED <<lists, order, again, devices, divisor, rate>>

\* Forms they must not take: the callback does not wait for the transfer; it
\* waits for a PWM too, which does not end.
CallPreWithoutWait ==
    /\ pc = "pre" /\ current # Null
    /\ active' = active \ ({current} \cap Pwm)
    /\ current' = lists.pre.next[current]
    /\ UNCHANGED <<lists, order, again, inited, divisor, oneshot, rate, target, pc>>

WaitForPwm ==
    /\ pc = "pre" /\ current # Null
    /\ current \notin active
    /\ current' = lists.pre.next[current]
    /\ UNCHANGED <<lists, order, again, devices, divisor, rate, target, pc>>

\* The pre-callbacks: UART, SPI and I2C wait until the transfer has ended; PWM
\* calls stop, and a one-shot goes on.
CallPre ==
    /\ pc = "pre" /\ current # Null
    /\ current \in active => current \in Pwm
    /\ active' = active \ {current}
    /\ current' = lists.pre.next[current]
    /\ UNCHANGED <<lists, order, again, inited, divisor, oneshot, rate, target, pc>>

ChangeRate ==
    /\ pc = "pre" /\ current = Null
    /\ rate' = target
    /\ pc' = "post"
    /\ current' = lists.post.head
    /\ UNCHANGED <<lists, order, again, devices, divisor, target>>

\* The post-callbacks set the divisor for the new rate.  That of I2C calls
\* metal_i2c_set_baud_rate, which registers again; that of a PWM without a
\* frequency does nothing.  _next is read after the callback has run.
CallPost ==
    /\ pc = "post" /\ current # Null
    /\ IF current \in I2c THEN Register(current, "post")
                          ELSE UNCHANGED <<lists, order, again, pc>>
    /\ divisor' = [divisor EXCEPT ![current] =
                      IF current \in Pwm /\ @ = 0 THEN 0 ELSE rate]
    /\ current' = lists'.post.next[current]
    /\ UNCHANGED <<devices, rate, target>>

Return ==
    /\ pc = "post" /\ current = Null
    /\ pc' = "idle"
    /\ UNCHANGED <<lists, order, again, devices, divisor, rate, target, current>>

\* A registration in a list without an end looks for it for ever.
Spin == pc = "stuck" /\ UNCHANGED vars

Next ==
    \/ \E d \in Serial : InitSerial(d)
    \/ \E d \in I2c : SetI2cBaudRate(d)
    \/ \E d \in Pwm : EnablePwm(d) \/ SetPwmFreq(d)
    \/ \E d \in Pwm : Trigger(d) \/ StopPwm(d) \/ OneShotEnds(d)
    \/ \E d \in Serial \cup I2c : Start(d) \/ TransferEnds(d)
    \/ \E r \in Rates : SetRate(r)
    \/ CallPre \/ ChangeRate \/ CallPost \/ Return \/ Spin

\* A call that has begun goes on, and a transfer comes to its end.
Fairness ==
    /\ WF_vars(CallPre \/ ChangeRate \/ CallPost \/ Return)
    /\ \A d \in Devices : WF_vars(TransferEnds(d))

Spec == Init /\ [][Next]_vars /\ Fairness

-----------------------------------------------------------------------------

List == [head : Devices \cup {Null}, next : [Devices -> Devices \cup {Null}]]

TypeOK ==
    /\ lists \in [pre : List, post : List]
    /\ order \in Seq(Devices)
    /\ again \in BOOLEAN
    /\ inited \subseteq Devices
    /\ divisor \in [Devices -> Rates \cup {0}]
    /\ active \subseteq Devices /\ oneshot \subseteq Pwm
    /\ rate \in Rates /\ target \in Rates
    /\ pc \in {"idle", "pre", "post", "stuck"}
    /\ current \in Devices \cup {Null}

\* "Append a callback to the linked list and return the head of the list"
\* (metal/clock.h): as long as nobody registers twice, both lists hold every
\* device that has registered, once, in that order, and come to an end.
ListsHoldOrder ==
    ~again => \A l \in {lists.pre, lists.post} :
        /\ \A k \in 1 .. Len(order) : NodeAt(l, k-1) = order[k]
        /\ NodeAt(l, Len(order)) = Null

\* "Set baud rate after clock rate change" (sifive_i2c0.c; likewise the UART,
\* SPI and PWM): as long as nobody registers twice, between two rate changes
\* the divisor of every configured device is the one for the clock's rate.
DivisorsFollowRate ==
    ~again /\ pc = "idle" => \A d \in inited : divisor[d] \in {0, rate}

\* "Check for any pending transfers", "Disable active PWM instance" (the
\* pre-callbacks): the rate never changes under a transfer or a PWM that runs
\* always, of any device that has registered, and be it because the walk over
\* lists that were spoilt never gets there.  It may change under a one-shot of a
\* PWM, which the callback does not stop.
AtRest == \A k \in 1 .. Len(order) : order[k] \notin active
RateChangesAtRest == [][rate' # rate => AtRest]_vars

\* As long as nobody registers twice, metal_clock_set_rate_hz returns.
ChangeReturns == pc # "idle" ~> (pc = "idle" \/ again)

\* "Call all callbacks in the linked list, if any are registered": the walks
\* come to an end, and metal_clock_set_rate_hz returns, in every program.
EveryChangeReturns == pc # "idle" ~> pc = "idle"
=============================================================================
