----------------------------- MODULE I2cTransfer -----------------------------
(***************************************************************************)
(* Transfers of the I2C master, src/drivers/sifive_i2c0.c: the driver      *)
(* writes a command and polls until it is done or a second has passed; the *)
(* slave answers, late or not at all, and may refuse what it is sent.      *)
(***************************************************************************)
EXTENDS Naturals

CONSTANT MaxLen    \* bound: the bytes of a call

I2cAssumption == MaxLen \in Nat \ {0}

VARIABLES op,      \* the call the program is in
          tip,     \* METAL_I2C_STATUS_TIP
          nack,    \* METAL_I2C_STATUS_RXACK: the last byte was refused
          cmd,     \* the command that was written last
          held,    \* the bus has been started and not stopped
          talks,   \* a slave goes on sending when the next byte is clocked
          refused, \* a byte of this call was refused, or was not done in time
          last     \* the call that returned last

bus == <<tip, nack, held, talks>>
vars == <<op, tip, nack, cmd, held, talks, refused, last>>

NoCall == [kind |-> "none", at |-> "none", read |-> FALSE, tx |-> 0, rx |-> 0,
           stop |-> FALSE, i |-> 0]
NoCmd == [start |-> FALSE, asks |-> FALSE, stop |-> FALSE, read |-> FALSE,
          nack |-> FALSE]

Init ==
    /\ op = NoCall
    /\ tip = FALSE /\ nack = FALSE
    /\ cmd = NoCmd
    /\ held = FALSE /\ talks = FALSE
    /\ refused = FALSE
    /\ last = [ret |-> 0, call |-> NoCall, refused |-> FALSE]

-----------------------------------------------------------------------------
(* The bus. *)

\* The command in progress is of this call, not of one that gave it up.
Own == op.at \in {"addressed", "byte"}

\* A command is done: a slave takes the address or the byte, or refuses it.
\* A slave that is read from goes on until the master refuses a byte.
Done(accepts) ==
    /\ tip
    /\ tip' = FALSE
    /\ nack' = IF cmd.read THEN nack ELSE ~accepts
    /\ held' = ~cmd.stop
    /\ talks' = IF cmd.start THEN cmd.asks /\ accepts
                ELSE talks /\ ~cmd.nack
    /\ refused' = (refused \/ (Own /\ ~cmd.read /\ ~accepts))
    /\ UNCHANGED <<op, cmd, last>>

Send(command, next) ==
    /\ cmd' = command
    /\ tip' = TRUE
    /\ op' = next
    /\ UNCHANGED <<nack, held, talks, refused, last>>

Returns(ret) ==
    /\ last' = [ret |-> ret, call |-> op,
                refused |-> refused \/ (ret # 0 /\ tip)]
    /\ op' = NoCall
    /\ refused' = FALSE
    /\ UNCHANGED <<cmd, bus>>

-----------------------------------------------------------------------------
(* The calls.  A program asks for one byte at least: with none, no command
   carries the stop condition. *)

\* metal_i2c_write and metal_i2c_read.
Begin(kind, len, stop) ==
    /\ op = NoCall
    /\ op' = [NoCall EXCEPT !.kind = kind, !.at = "address",
                            !.read = (kind = "read"), !.stop = stop,
                            !.tx = IF kind = "write" THEN len ELSE 0,
                            !.rx = IF kind = "read" THEN len ELSE 0]
    /\ UNCHANGED <<cmd, bus, refused, last>>

\* metal_i2c_transfer writes, then reads, and stops after the last of them.
BeginTransfer(tx, rx) ==
    /\ op = NoCall /\ tx + rx > 0
    /\ op' = [NoCall EXCEPT !.kind = "transfer", !.at = "address",
                            !.read = (tx = 0), !.stop = TRUE,
                            !.tx = tx, !.rx = rx]
    /\ UNCHANGED <<cmd, bus, refused, last>>

\* __metal_driver_sifive_i2c0_write_addr, once nothing is in progress.
SendAddress ==
    /\ op.at = "address" /\ ~tip
    /\ Send([NoCmd EXCEPT !.start = TRUE, !.asks = op.read],
            [op EXCEPT !.at = "addressed"])

\* A poll ends after a second.
Timeout ==
    /\ op # NoCall /\ tip
    /\ Returns(1)

\* An address that is refused ends the call.
RefusedAddress ==
    /\ op.at = "addressed" /\ ~tip /\ nack
    /\ Returns(1)

Len == IF op.read THEN op.rx ELSE op.tx

\* A form it must not take: the index of the last byte is off by one.
IsLastPastEnd == op.i = Len

IsLast == op.i + 1 = Len

\* A transfer that goes on to read keeps the bus.
StopNow == IsLast /\ op.stop /\ (op.kind = "transfer" => op.read \/ op.rx = 0)

\* A form it must not take: a read ends without refusing its last byte.
NeverRefused == FALSE

\* "Set NACK to end read".
RefusesLast == op.read /\ IsLast

\* The next byte: the one before it was done, and accepted if it was written.
SendByte ==
    /\ op.at \in {"addressed", "byte"} /\ ~tip
    /\ op.i < Len
    /\ (op.read /\ op.at = "byte") \/ ~nack
    /\ Send([NoCmd EXCEPT !.stop = StopNow, !.read = op.read,
                          !.nack = RefusesLast],
            [op EXCEPT !.at = "byte", !.i = @ + 1])

\* A form it must not take: the acknowledgement is not looked at.
NothingRefused == FALSE

ByteRefused == ~op.read /\ nack

\* After the last byte, or one that was refused, a transfer goes on to read,
\* if it reads at all; otherwise the call returns.
EndBytes ==
    /\ op.at = "byte" /\ ~tip
    /\ op.i = Len \/ ByteRefused
    /\ IF op.kind = "transfer" /\ ~op.read /\ op.rx > 0
       THEN /\ op' = [op EXCEPT !.at = "address", !.read = TRUE, !.i = 0]
            /\ UNCHANGED <<cmd, bus, refused, last>>
       ELSE Returns(IF ByteRefused THEN 1 ELSE 0)

Next ==
    \/ \E accepts \in BOOLEAN : Done(accepts)
    \/ \E len \in 1 .. MaxLen, stop \in BOOLEAN, kind \in {"write", "read"} :
          Begin(kind, len, stop)
    \/ \E tx, rx \in 0 .. MaxLen : BeginTransfer(tx, rx)
    \/ SendAddress \/ Timeout \/ RefusedAddress \/ SendByte \/ EndBytes

Spec == Init /\ [][Next]_vars

-----------------------------------------------------------------------------

Calls == [kind : {"none", "write", "read", "transfer"},
          at : {"none", "address", "addressed", "byte"},
          read : BOOLEAN, tx : 0 .. MaxLen, rx : 0 .. MaxLen, stop : BOOLEAN,
          i : 0 .. MaxLen]

TypeOK ==
    /\ op \in Calls
    /\ {tip, nack, held, talks, refused} \subseteq BOOLEAN
    /\ cmd \in [start : BOOLEAN, asks : BOOLEAN, stop : BOOLEAN,
                read : BOOLEAN, nack : BOOLEAN]
    /\ last \in [ret : {0, 1}, call : Calls, refused : BOOLEAN]

\* "@return 0 if the write succeeds", "... if the read succeeds" (metal/i2c.h):
\* a write or a read that returns 0 had its address and all its bytes accepted,
\* whatever earlier calls left on the bus.
SuccessMeansAccepted ==
    last.ret = 0 /\ last.call.kind \in {"write", "read"} => ~last.refused

\* "@return 0 if the transfer succeeds": the same for metal_i2c_transfer.
TransferMeansAccepted ==
    last.ret = 0 /\ last.call.kind = "transfer" => ~last.refused

\* "Insert stop condition to end transfer": a call that was to stop, and
\* returned 0, leaves the bus to others.
BusIsLeft ==
    op = NoCall /\ last.ret = 0 /\ last.call.stop => ~held

\* "Set NACK to end read": once a call has returned 0, no slave goes on
\* sending, which would take the data line from the next start condition.
SlaveIsSilent == op = NoCall /\ last.ret = 0 => ~talks

=============================================================================
