------------------------------- MODULE SpiBaud -------------------------------
(***************************************************************************)
(* The serial clock of a SPI, src/drivers/sifive_spi0.c, whose divisor     *)
(* follows the rate of the clock that the device hangs on.  The lists of   *)
(* callbacks are in MetalClock, transfers in SpiTransfer.                  *)
(***************************************************************************)
EXTENDS Integers

CONSTANTS Rates,    \* what the clock can run at
          Bauds,    \* what programs ask for
          MaxDiv    \* METAL_SPI_SCKDIV_MASK

SpiBaudAssumption ==
    /\ Rates \subseteq Nat /\ Bauds \subseteq Nat \ {0}
    /\ MaxDiv \in Nat

VARIABLES rate,   \* of the clock
          baud,   \* spi->baud_rate
          div,    \* SCKDIV
          txmark, \* the watermark of the transmit FIFO
          left,   \* what is in that FIFO
          phase   \* where the device, or a change of the rate, is

vars == <<rate, baud, div, txmark, left, phase>>

Init ==
    /\ rate \in Rates
    /\ baud = 0 /\ div = 3 /\ txmark = 0 /\ left = 0
    /\ phase = "reset"

\* The divisor for a baud rate: -1 when the clock is slower than twice that.
DivFor(b) == (rate \div (2 * b)) - 1

\* A form it must not take: the divisor is not cut to its field.
SetsBaudUncut(b) ==
    /\ baud' = b
    /\ div' = IF DivFor(b) > MaxDiv THEN div ELSE DivFor(b)

\* __metal_driver_sifive_spi0_set_baud_rate.  What is too slow for the divisor
\* is refused, and kept all the same; -1 is cut to the largest divisor.
SetsBaud(b) ==
    /\ baud' = b
    /\ div' = IF DivFor(b) > MaxDiv THEN div ELSE DivFor(b) % (MaxDiv + 1)

\* __metal_driver_sifive_spi0_init: the callbacks, and the first baud rate.
InitSpi(b) ==
    /\ phase = "reset"
    /\ SetsBaud(b)
    /\ phase' = "rest"
    /\ UNCHANGED <<rate, txmark, left>>

SetBaudRate(b) ==
    /\ phase = "rest"
    /\ SetsBaud(b)
    /\ UNCHANGED <<rate, txmark, left, phase>>

\* The words of a transfer that nobody waited for, and their way out.
Queue ==
    /\ phase = "rest"
    /\ left' = 1
    /\ UNCHANGED <<rate, baud, div, txmark, phase>>

Send ==
    /\ left > 0
    /\ left' = left - 1
    /\ UNCHANGED <<rate, baud, div, txmark, phase>>

\* pre_rate_change_callback_func: a watermark of one, and the wait until less
\* than that is in the FIFO.
BeforeChange ==
    /\ phase = "rest"
    /\ txmark' = 1
    /\ phase' = "waiting"
    /\ UNCHANGED <<rate, baud, div, left>>

\* A form it must not take: the watermark is looked at, and not waited for.
NoWait == TRUE

IsEmpty == left < txmark

SeeEmpty ==
    /\ phase = "waiting" /\ IsEmpty
    /\ phase' = "changing"
    /\ UNCHANGED <<rate, baud, div, txmark, left>>

Change ==
    /\ phase = "changing"
    /\ rate' \in Rates
    /\ phase' = "changed"
    /\ UNCHANGED <<baud, div, txmark, left>>

\* post_rate_change_callback_func: the baud rate that get_baud_rate returns.
AfterChange ==
    /\ phase = "changed"
    /\ SetsBaud(baud)
    /\ phase' = "rest"
    /\ UNCHANGED <<rate, txmark, left>>

Next ==
    \/ \E b \in Bauds : InitSpi(b) \/ SetBaudRate(b)
    \/ Queue \/ Send \/ BeforeChange \/ SeeEmpty \/ Change \/ AfterChange

Spec == Init /\ [][Next]_vars

-----------------------------------------------------------------------------

TypeOK ==
    /\ rate \in Rates /\ baud \in Bauds \cup {0}
    /\ div \in 0 .. MaxDiv \cup {3}
    /\ txmark \in 0 .. 1 /\ left \in 0 .. 1
    /\ phase \in {"reset", "rest", "waiting", "changing", "changed"}

\* "Get the current baud rate of the SPI device" (metal/spi.h): outside a change
\* of the rate, whatever calls were refused at the rates before, the serial
\* clock has the baud rate of get_baud_rate, or the next above that a divisor
\* gives, if there is a divisor for it.
SckFollowsRate ==
    phase = "rest" /\ DivFor(baud) \in 0 .. MaxDiv =>
        /\ rate >= 2 * baud * (div + 1)
        /\ rate < 2 * baud * (div + 2)

\* The rate does not change while words wait in the transmit FIFO.
RateChangesWhenEmpty == [][rate' # rate => left = 0]_vars

=============================================================================
