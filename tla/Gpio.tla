-------------------------------- MODULE Gpio --------------------------------
(***************************************************************************)
(* The GPIO controller, metal/gpio.h over src/drivers/sifive_gpio0.c, with *)
(* the LEDs that are pins of it.  A call names one pin; the registers have *)
(* a bit for each, and the pending ones are cleared by writing ones.       *)
(***************************************************************************)
EXTENDS Naturals, Sequences

CONSTANTS Pins,       \* the pins that interrupt
          Leds,       \* those that are also put out, or given to a device
          Types,      \* of "rise", "fall", "high" and "low" those that are used
          Functions   \* the functions that a pin is given to, of 0 and 1

GpioAssumption ==
    /\ Leds \subseteq Pins /\ Pins # {}
    /\ Types \subseteq {"rise", "fall", "high", "low"}
    /\ Functions \subseteq {0, 1}

VARIABLES input, output, port,  \* INPUT_EN, OUTPUT_EN, PORT
          mux, sel,             \* IOF_EN, IOF_SEL
          ie, ip,               \* RISE_IE and so on, RISE_IP and so on
          high,                 \* the pins that are high
          op,                   \* the clear_int that runs
          asked,                \* the function a pin was last given to, 2: none
          wants                 \* the types a pin was configured for

pinout == <<input, output, port, mux, sel, asked>>
vars == <<pinout, ie, ip, high, op, wants>>

Idle == [todo |-> <<>>, pin |-> CHOOSE p \in Pins : TRUE, read |-> FALSE,
         seen |-> {}]

Init ==
    /\ input = Pins /\ output = {} /\ port = {}
    /\ mux = {} /\ sel = {}
    /\ ie = [t \in Types |-> {}]
    /\ ip = [t \in Types |-> {}]
    /\ high = {}
    /\ op = Idle
    /\ asked = [p \in Leds |-> 2]
    /\ wants = [p \in Pins |-> {}]

-----------------------------------------------------------------------------
(* The pins. *)

\* A pin changes: the edge, and the level from now on, are latched.
Edge(p) ==
    /\ p \in input
    /\ high' = IF p \in high THEN high \ {p} ELSE high \cup {p}
    /\ LET new == IF p \in high THEN {"fall", "low"} ELSE {"rise", "high"}
       IN ip' = [t \in Types |-> IF t \in new THEN ip[t] \cup {p} ELSE ip[t]]
    /\ UNCHANGED <<pinout, ie, op, wants>>

\* What the handler of a pin's interrupt line is called for.
Interrupting == {p \in Pins : \E t \in Types : p \in ie[t] \cap ip[t]}

-----------------------------------------------------------------------------
(* Calls that set one bit of a register, or clear it. *)

With(set, p, on) == IF on THEN set \cup {p} ELSE set \ {p}

Quiet == op = Idle /\ UNCHANGED <<ip, high, op>>

\* metal_gpio_enable_input and _disable_input.
EnableInput(p, on) ==
    /\ Quiet
    /\ input' = With(input, p, on)
    /\ UNCHANGED <<output, port, mux, sel, asked, ie, wants>>

\* metal_gpio_enable_output and _disable_output.
EnableOutput(p, on) ==
    /\ Quiet
    /\ output' = With(output, p, on)
    /\ UNCHANGED <<input, port, mux, sel, asked, ie, wants>>

\* metal_gpio_set_pin and _clear_pin, metal_led_on and _off.
SetPin(p, on) ==
    /\ Quiet
    /\ port' = With(port, p, on)
    /\ UNCHANGED <<input, output, mux, sel, asked, ie, wants>>

\* metal_gpio_toggle_pin and metal_led_toggle.
TogglePin(p) == SetPin(p, p \notin port)

\* metal_led_enable.
EnableLed(p) ==
    /\ Quiet
    /\ input' = input \ {p}
    /\ output' = output \cup {p}
    /\ UNCHANGED <<port, mux, sel, asked, ie, wants>>

\* A form it must not take: the function selects, and the pin is given away.
MuxBits(p, function) == [sel |-> function = 1, mux |-> TRUE]

\* enable_io(gpio, 1 << pin, function << pin) takes the first for IOF_SEL and
\* the second for IOF_EN, and ORs both.
PinmuxBits(p, function) == [sel |-> TRUE, mux |-> function = 1]

\* metal_gpio_enable_pinmux.
EnablePinmux(p, function) ==
    LET bits == PinmuxBits(p, function) IN
    /\ Quiet
    /\ sel' = IF bits.sel THEN sel \cup {p} ELSE sel
    /\ mux' = IF bits.mux THEN mux \cup {p} ELSE mux
    /\ asked' = [asked EXCEPT ![p] = function]
    /\ UNCHANGED <<input, output, port, ie, wants>>

\* metal_gpio_disable_pinmux.
DisablePinmux(p) ==
    /\ Quiet
    /\ mux' = mux \ {p}
    /\ asked' = [asked EXCEPT ![p] = 2]
    /\ UNCHANGED <<input, output, port, sel, ie, wants>>

-----------------------------------------------------------------------------
(* Interrupts. *)

\* The registers of a METAL_GPIO_INT_ type.
TypesOf(kind) ==
    CASE kind = "rising" -> <<"rise">>
      [] kind = "falling" -> <<"fall">>
      [] kind = "both_edge" -> <<"rise", "fall">>
      [] kind = "high" -> <<"high">>
      [] kind = "low" -> <<"low">>
      [] kind = "both_level" -> <<"high", "low">>
      [] kind = "max" -> <<"rise", "fall", "high", "low">>

AllKinds == {"rising", "falling", "both_edge", "high", "low", "both_level", "max"}
InTypes(kind) == {TypesOf(kind)[i] : i \in 1 .. Len(TypesOf(kind))}
Kinds == {k \in AllKinds : InTypes(k) \subseteq Types}

\* A form it must not take: the other types of the pin are turned off.
ConfiguredOnly(t, p, kind) == IF t \in InTypes(kind) THEN ie[t] \cup {p}
                                                     ELSE ie[t] \ {p}

\* A type is added to those the pin is configured for.
Configured(t, p, kind) == IF t \in InTypes(kind) THEN ie[t] \cup {p} ELSE ie[t]

\* metal_gpio_config_interrupt.
ConfigInt(p, kind) ==
    /\ Quiet
    /\ ie' = [t \in Types |-> Configured(t, p, kind)]
    /\ wants' = [wants EXCEPT ![p] = @ \cup InTypes(kind)]
    /\ UNCHANGED pinout

\* The same with METAL_GPIO_INT_DISABLE.
DisableInt(p) ==
    /\ Quiet
    /\ ie' = [t \in Types |-> ie[t] \ {p}]
    /\ wants' = [wants EXCEPT ![p] = {}]
    /\ UNCHANGED pinout

\* metal_gpio_clear_interrupt reads, for each type, the bits that are set ...
BeginClear(p, kind) ==
    /\ op = Idle
    /\ op' = [Idle EXCEPT !.todo = TypesOf(kind), !.pin = p]
    /\ UNCHANGED <<pinout, ie, ip, high, wants>>

ReadPending ==
    /\ op.todo # <<>> /\ ~op.read
    /\ op' = [op EXCEPT !.read = TRUE, !.seen = ip[Head(op.todo)]]
    /\ UNCHANGED <<pinout, ie, ip, high, wants>>

\* A form it must not take: all bits are written.
AllOnes == Pins

\* ... and writes them back with that of the pin: what it writes is cleared.
OnesWritten == op.seen \cup {op.pin}

\* A level that lasts is latched again.
StillHolds(t, p) == \/ t = "high" /\ p \in high \cap input
                    \/ t = "low" /\ p \in input \ high

WriteOnes ==
    /\ op.read
    /\ LET t == Head(op.todo) IN
       ip' = [ip EXCEPT ![t] = {p \in Pins : StillHolds(t, p)
                                             \/ p \in @ \ OnesWritten}]
    /\ op' = IF Len(op.todo) = 1 THEN Idle
             ELSE [op EXCEPT !.todo = Tail(@), !.read = FALSE, !.seen = {}]
    /\ UNCHANGED <<pinout, ie, high, wants>>

Next ==
    \/ ReadPending \/ WriteOnes
    \/ \E p \in Pins :
          \/ Edge(p) \/ DisableInt(p)
          \/ \E kind \in Kinds : ConfigInt(p, kind) \/ BeginClear(p, kind)
    \/ \E p \in Leds :
          \/ TogglePin(p) \/ EnableLed(p) \/ DisablePinmux(p)
          \/ \E on \in BOOLEAN : EnableInput(p, on) \/ EnableOutput(p, on)
                                 \/ SetPin(p, on)
          \/ \E function \in Functions : EnablePinmux(p, function)

Spec == Init /\ [][Next]_vars

-----------------------------------------------------------------------------

TypeOK ==
    /\ {input, output, port, mux, sel, high} \subseteq SUBSET Pins
    /\ ie \in [Types -> SUBSET Pins] /\ ip \in [Types -> SUBSET Pins]
    /\ op.pin \in Pins /\ op.read \in BOOLEAN /\ op.seen \subseteq Pins
    /\ asked \in [Leds -> Functions \cup {2}]
    /\ wants \in [Pins -> SUBSET Types]

\* "Config gpio interrupt type" (gpio.h): a pin interrupts for an event that
\* is pending just if it was configured for it since it was last disabled,
\* whatever the other pins and types of the registers were told.
InterruptsAsAsked ==
    \A p \in Pins :
        p \in Interrupting <=> \E t \in wants[p] : p \in ip[t]

\* "Clear gpio interrupt status ... @param pin" (gpio.h): an event of another pin
\* that comes while clear_int is between its read of the pending bits and its
\* write is not lost.  One that was pending at the read is: it is written back,
\* and what is written as one is cleared.
LateEdgesAreKept ==
    [][\A t \in Types, p \in Pins :
          p \in ip[t] /\ p \notin ip'[t] => p = op.pin \/ p \in op.seen]_vars

\* "Enables and sets the pinmux for a GPIO pin, @return 0 if the pinmux is
\* successfully set" (gpio.h): the pin is given to the function that was asked.
PinHasItsFunction ==
    \A p \in Leds : asked[p] # 2 =>
        p \in mux /\ (p \in sel <=> asked[p] = 1)

=============================================================================
