----------------------------- MODULE SpiTransfer -----------------------------
(***************************************************************************)
(* Transfers of the SPI master, src/drivers/sifive_spi0.c.  A call sends a *)
(* command, an address, dummy frames and data one after the other, may     *)
(* change the number of wires in between, and waits for the answer to each *)
(* frame before it sends the next.                                         *)
(***************************************************************************)
EXTENDS Naturals, Sequences

CONSTANTS Csids,     \* the chip select lines that have a device, active low
          Protocols, \* of "single", "dual" and "quad" those that are used
          MaxData    \* bound: the data frames of a transfer

SpiAssumption ==
    /\ Csids \subseteq Nat /\ MaxData \in Nat
    /\ Protocols \subseteq {"single", "dual", "quad"} /\ "single" \in Protocols

Modes == {"all", "data_only", "addr_data"}

VARIABLES proto,    \* the protocol bits of FMT
          csmode,   \* "auto" or "hold"
          csid,     \* the line that CSID selects
          csdef,    \* the lines that are high when they are not selected
          tx, rx,   \* the two FIFOs
          op,       \* the call the program is in
          late,     \* some call has timed out
          wire,     \* the frame that was sent last since a call began, and how
          stored    \* the byte that was stored last in it: its place, its frame

fifos == <<tx, rx>>
lines == <<csmode, csid, csdef>>
vars == <<proto, lines, fifos, op, late, wire, stored>>

NoConfig == [protocol |-> "single", wires |-> "all", csid |-> 0,
             cmd |-> 0, addr |-> 0, dummy |-> 0]
NoFrame == [i |-> 0, call |-> [config |-> NoConfig, len |-> 0]]
NotSent == [frame |-> NoFrame, proto |-> "single", devices |-> {0}]
Idle == [at |-> "idle", config |-> NoConfig, len |-> 0, i |-> 0]

Init ==
    /\ proto = "single"
    /\ csmode = "auto" /\ csid = 0 /\ csdef = Csids
    /\ tx = <<>> /\ rx = <<>>
    /\ op = Idle
    /\ late = FALSE
    /\ wire = NotSent /\ stored = [at |-> 0, of |-> 0]

-----------------------------------------------------------------------------
(* The wires. *)

\* A line that is selected is the other way than at rest; devices are active
\* low.
Selected(c, s, d) == IF c \in d THEN c = s ELSE c # s

\* A frame is sent, to every device that is selected, and answered.
Shift ==
    /\ tx # <<>>
    /\ wire' = [frame |-> Head(tx), proto |-> proto,
                devices |-> {c \in Csids : Selected(c, csid, csdef)}]
    /\ tx' = Tail(tx)
    /\ rx' = Append(rx, Head(tx).i)
    /\ UNCHANGED <<proto, lines, op, late, stored>>

-----------------------------------------------------------------------------
(* __metal_driver_sifive_spi0_transfer. *)

\* A form it must not take: the bits of the protocol before are not cleared.
ProtocolBitsKept(config) ==
    IF config.wires = "all" /\ config.protocol # "single" THEN config.protocol
    ELSE proto

\* configure_spi: more wires from the start only if all frames use them.
ProtocolBits(config) ==
    IF config.wires = "all" THEN config.protocol ELSE "single"

\* configure_spi; CSDEF is written as a whole, for a device that is active
\* low with a 1, the bit of line 0.
Begin(config, data) ==
    /\ op = Idle
    /\ proto' = ProtocolBits(config)
    /\ csid' = config.csid
    /\ csdef' = {0}
    /\ csmode' = "hold"
    /\ op' = [at |-> "send", config |-> config, i |-> 0,
              len |-> config.cmd + config.addr + config.dummy + data]
    /\ wire' = NotSent /\ stored' = [at |-> 0, of |-> 0]
    /\ UNCHANGED <<fifos, late>>

\* A protocol that is not known returns with the protocol bits cleared.
BadProtocol ==
    /\ op = Idle
    /\ proto' = "single"
    /\ UNCHANGED <<lines, fifos, op, late, wire, stored>>

\* The frames before which spi_mode_switch is called with the mode.
SwitchPoint(config, mode) ==
    IF mode = "addr_data" THEN config.cmd
    ELSE config.cmd + config.addr + config.dummy

\* A form it must not take: the switch comes after the address.
NewProtocolLate(config, i) ==
    IF config.wires # "all" /\ i = config.cmd + config.addr + config.dummy
    THEN config.protocol ELSE proto

\* spi_mode_switch, on the way to frame i.
NewProtocol(config, i) ==
    IF config.wires # "all" /\ i = SwitchPoint(config, config.wires)
    THEN config.protocol ELSE proto

\* A form it must not take: the driver only waits for a place in the FIFO.
NoWait == op.at = "receive"

\* The answer to the frame that was sent.
Answered == op.at = "receive" /\ rx # <<>>

SendFrame ==
    /\ op.at = "send" /\ op.i < op.len
    /\ proto' = NewProtocol(op.config, op.i)
    /\ tx' = Append(tx, [i |-> op.i,
                         call |-> [config |-> op.config, len |-> op.len]])
    /\ op' = [op EXCEPT !.at = "receive"]
    /\ UNCHANGED <<lines, rx, late, wire, stored>>

ReceiveFrame ==
    /\ Answered
    /\ IF rx # <<>>
       THEN rx' = Tail(rx) /\ stored' = [at |-> op.i, of |-> Head(rx)]
       ELSE UNCHANGED <<rx, stored>>
    /\ op' = [op EXCEPT !.at = "send", !.i = @ + 1]
    /\ UNCHANGED <<proto, lines, tx, late, wire>>

\* A form it must not take: the line is held when the call gives up.
HeldWhenLate == "hold"

\* "If timeout, deassert the CS".
LateMode == "auto"

\* No answer within a second.  Bound: it happens once.
Timeout ==
    /\ op.at = "receive" /\ rx = <<>> /\ ~late
    /\ csmode' = LateMode
    /\ op' = Idle
    /\ late' = TRUE
    /\ UNCHANGED <<proto, csid, csdef, fifos, wire, stored>>

\* The mode is switched for data even if there is none.
End ==
    /\ op.at = "send" /\ op.i = op.len
    /\ proto' = NewProtocol(op.config, op.i)
    /\ csmode' = "auto"
    /\ op' = Idle
    /\ UNCHANGED <<csid, csdef, fifos, late, wire, stored>>

Configs == [protocol : Protocols, wires : Modes, csid : Csids,
            cmd : 0 .. 1, addr : 0 .. 1, dummy : 0 .. 1]

Next ==
    \/ Shift \/ BadProtocol \/ SendFrame \/ ReceiveFrame \/ Timeout \/ End
    \/ \E config \in Configs, data \in 0 .. MaxData : Begin(config, data)

Spec == Init /\ [][Next]_vars

-----------------------------------------------------------------------------

Frames == [i : 0 .. MaxData + 2,
           call : [config : Configs \cup {NoConfig}, len : 0 .. MaxData + 3]]

TypeOK ==
    /\ proto \in Protocols
    /\ csmode \in {"auto", "hold"} /\ csid \in Csids \cup {0}
    /\ csdef \subseteq Csids \cup {0}
    /\ tx \in Seq(Frames) /\ rx \in Seq(0 .. MaxData + 2)
    /\ op \in [at : {"idle", "send", "receive"},
               config : Configs \cup {NoConfig}, len : 0 .. MaxData + 3,
               i : 0 .. MaxData + 3]
    /\ late \in BOOLEAN
    /\ wire.frame \in Frames /\ wire.proto \in Protocols
    /\ stored \in [at : 0 .. MaxData + 2, of : 0 .. MaxData + 2]

\* "The Dual/Quad spi mode selection" (metal/spi.h): the frames from the one
\* the configuration names on, and no other, use the wires of its protocol,
\* whatever the transfer before used, unless a call has timed out.
FramesInTheirMode ==
    LET config == wire.frame.call.config
        first == CASE config.wires = "all" -> 0
                   [] config.wires = "addr_data" -> config.cmd
                   [] OTHER -> config.cmd + config.addr + config.dummy
    IN ~late => wire.proto = (IF wire.frame.i < first THEN "single"
                              ELSE config.protocol)

\* "Hold the chip select line for all len transferred", "the chip select
\* transitions back to high": the line is held as long as a call lasts,
\* and between calls it is not, also after a timeout.
HeldDuringCalls == csmode = "hold" <=> op # Idle

\* "@param rx_buf The buffer to store received data" (metal/spi.h): unless a
\* call has timed out, the byte that is stored at a place is the answer to
\* the frame of that place, and no frame or answer is left between calls.
AnswersInPlace ==
    ~late => /\ stored.at = stored.of
             /\ op = Idle => tx = <<>> /\ rx = <<>>

\* "The chip select ID to activate for the SPI transfer" (metal/spi.h): a
\* frame reaches the device that was selected and no other.
OnlyTheSelected ==
    ~late => wire.devices = {wire.frame.call.config.csid}

=============================================================================
