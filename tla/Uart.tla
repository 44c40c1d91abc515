-------------------------------- MODULE Uart --------------------------------
(***************************************************************************)
(* The UART, src/drivers/sifive_uart0.c, and the console over it,          *)
(* src/tty.c: a thread, its interrupt handler, and a clock that changes    *)
(* its rate.  Time is counted in bits on the wire.                         *)
(***************************************************************************)
EXTENDS Naturals, Sequences

CONSTANTS Depth,       \* what each FIFO holds
          Frame,       \* the bits of a character, start and stop bit included
          Watermarks,  \* the levels that programs set
          Printers,    \* who sends: "thread", "handler"
          MaxSent,     \* bound: sent characters that others may follow
          MaxCame      \* bound: characters that come

UartAssumption ==
    /\ {Depth, Frame} \subseteq Nat \ {0} /\ {MaxSent, MaxCame} \subseteq Nat
    /\ Watermarks \subseteq 0 .. 7
    /\ Printers \subseteq {"thread", "handler"}

VARIABLES fifo,     \* the characters that wait to be sent
          shift,    \* the bits that are left of the one on the wire
          txcnt,    \* the transmit watermark in TXCTRL
          pc,       \* where the thread is
          left,     \* what is left of the wait for the last character
          sent,     \* the characters that were written, those lost included
          lost,     \* the characters that were written to a full FIFO
          torn,     \* what changed the divisor under a character
          rx,       \* the characters that have come
          came, got \* how many came, and those getc returned

vars == <<fifo, shift, txcnt, pc, left, sent, lost, torn, rx, came, got>>
transmitter == <<fifo, shift, sent, lost>>
receiver == <<rx, came, got>>

Init ==
    /\ fifo = 0 /\ shift = 0 /\ txcnt = 0
    /\ pc = "idle" /\ left = 0
    /\ sent = 0 /\ lost = 0 /\ torn = {}
    /\ rx = <<>> /\ came = 0 /\ got = <<>>

-----------------------------------------------------------------------------
(* The device. *)

\* A bit is sent, or the next character goes on the wire.
Sends ==
    IF shift > 1 \/ fifo = 0
      THEN shift' = (IF shift = 0 THEN 0 ELSE shift - 1) /\ UNCHANGED fifo
      ELSE shift' = Frame /\ fifo' = fifo - 1

Bit ==
    /\ Sends /\ (fifo > 0 \/ shift > 0)
    /\ UNCHANGED <<txcnt, pc, left, sent, lost, torn, receiver>>

\* A character comes, if there is room for it.
Arrive ==
    /\ came < MaxCame
    /\ came' = came + 1
    /\ rx' = IF Len(rx) < Depth THEN Append(rx, came') ELSE rx
    /\ UNCHANGED <<transmitter, txcnt, pc, left, torn, got>>

-----------------------------------------------------------------------------
(* putc and getc. *)

\* A form it must not take: one more is let in.
FullPastEnd == fifo > Depth

\* txready, which is not 0 when the FIFO is full.
TxReady == fifo >= Depth

Write ==
    /\ sent' = sent + 1
    /\ IF fifo < Depth THEN fifo' = fifo + 1 /\ UNCHANGED lost
                       ELSE lost' = lost + 1 /\ UNCHANGED fifo
    /\ UNCHANGED shift

\* metal_uart_putc by the thread waits for room and then writes.
SeeRoom ==
    /\ pc = "idle" /\ "thread" \in Printers /\ sent < MaxSent
    /\ ~TxReady
    /\ pc' = "room"
    /\ UNCHANGED <<transmitter, txcnt, left, torn, receiver>>

Putc ==
    /\ pc = "room"
    /\ Write
    /\ pc' = "idle"
    /\ UNCHANGED <<txcnt, left, torn, receiver>>

\* The same by a handler, which the thread does not run in between.
HandlerPutc ==
    /\ "handler" \in Printers /\ sent < MaxSent
    /\ ~TxReady
    /\ Write
    /\ UNCHANGED <<txcnt, pc, left, torn, receiver>>

\* A form it must not take: the character is read again, not with its status.
Reread ==
    \/ rx # <<>> /\ pc = "idle" /\ pc' = "came" /\ UNCHANGED <<rx, got>>
    \/ /\ pc = "came"
       /\ got' = Append(got, IF rx = <<>> THEN 0 ELSE Head(rx))
       /\ rx' = (IF rx = <<>> THEN rx ELSE Tail(rx))
       /\ pc' = "idle"
    \/ rx # <<>> /\ got' = Append(got, Head(rx)) /\ rx' = Tail(rx) /\ UNCHANGED pc

\* "we get status and the byte at same time".
ReadData ==
    rx # <<>> /\ got' = Append(got, Head(rx)) /\ rx' = Tail(rx) /\ UNCHANGED pc

\* metal_uart_getc, by either, or the last turn of metal_tty_getc.
Getc ==
    /\ pc # "drain"
    /\ ReadData
    /\ UNCHANGED <<transmitter, txcnt, left, torn, came>>

-----------------------------------------------------------------------------
(* Watermarks, baud rates and rates of the clock. *)

\* set_tx_watermark sets the bits of the level.
SetTxWatermark(level) ==
    /\ pc = "idle"
    /\ txcnt' = CHOOSE n \in 0 .. 7 :
                  \A i \in {1, 2, 4} :
                    ((n \div i) % 2 = 1) =
                       ((txcnt \div i) % 2 = 1 \/ (level \div i) % 2 = 1)
    /\ UNCHANGED <<transmitter, pc, left, torn, receiver>>

\* set_baud_rate does not wait for the characters before it.
SetBaudRate ==
    /\ pc = "idle"
    /\ torn' = IF shift > 0 \/ fifo > 0 THEN torn \cup {"baud"} ELSE torn
    /\ UNCHANGED <<transmitter, txcnt, pc, left, receiver>>

\* A form it must not take: the level that was set is kept.
KeptLevel == txcnt

DrainLevel == 1

\* pre_rate_change_callback_func: a watermark of one is pending when the FIFO
\* is empty ...
BeginDrain ==
    /\ pc = "idle"
    /\ txcnt' = DrainLevel
    /\ pc' = "drain"
    /\ UNCHANGED <<transmitter, left, torn, receiver>>

\* A form it must not take: the stop bit is not waited for.
WithoutStop == Frame - 1

\* ... and the last character has gone after its bits (with one stop bit).
BitsToWait == Frame

SeeEmpty ==
    /\ pc = "drain" /\ fifo < txcnt
    /\ left' = BitsToWait
    /\ pc' = "wait"
    /\ UNCHANGED <<transmitter, txcnt, torn, receiver>>

\* The wait takes as long as the bits or longer.
Wait ==
    /\ pc = "wait" /\ left > 0
    /\ Sends
    /\ left' = left - 1
    /\ UNCHANGED <<txcnt, pc, sent, lost, torn, receiver>>

\* The clock changes its rate, and the post callback the divisor.
ChangeRate ==
    /\ pc = "wait" /\ left = 0
    /\ torn' = IF shift > 0 \/ fifo > 0 THEN torn \cup {"clock"} ELSE torn
    /\ pc' = "idle"
    /\ UNCHANGED <<transmitter, txcnt, left, receiver>>

Next ==
    \/ Bit \/ Arrive \/ SeeRoom \/ Putc \/ HandlerPutc \/ Getc
    \/ \E level \in Watermarks : SetTxWatermark(level)
    \/ SetBaudRate \/ BeginDrain \/ SeeEmpty \/ Wait \/ ChangeRate

\* The device goes on sending, and a thread that waits goes on waiting.
Fairness == WF_vars(Bit) /\ WF_vars(SeeEmpty) /\ WF_vars(Wait)
                /\ WF_vars(ChangeRate) /\ WF_vars(Putc)

Spec == Init /\ [][Next]_vars /\ Fairness

-----------------------------------------------------------------------------

TypeOK ==
    /\ fifo \in 0 .. Depth /\ shift \in 0 .. Frame /\ txcnt \in 0 .. 7
    /\ pc \in {"idle", "room", "drain", "wait"} /\ left \in 0 .. Frame
    /\ sent \in 0 .. MaxSent + 1 /\ lost \in 0 .. MaxSent
    /\ torn \subseteq {"baud", "clock"}
    /\ Len(rx) <= Depth /\ came \in 0 .. MaxCame

\* "Detect when the TXDATA is empty ... When the TXDATA clears, the UART is
\* still shifting out the last byte" (sifive_uart0.c): whatever watermark the
\* program has set, the clock does not change under a character.
NoCharacterIsTorn == "clock" \notin torn

\* "Output a character over the UART, @return 0 upon success" (uart.h): no
\* character is written to a full FIFO.  It is violated when handlers send too.
NothingIsDropped == lost = 0

\* "We get status and the byte at same time": whoever of thread and handler
\* asks, every character is returned once, in the order they came.
EachOnceInOrder ==
    /\ \A i \in 1 .. Len(got) : got[i] \in 1 .. came
    /\ \A i \in 1 .. Len(got) - 1 : got[i] < got[i + 1]

\* The wait of the pre-callback ends, whatever is left to send.
DrainEnds == pc = "drain" ~> pc = "idle"

=============================================================================
