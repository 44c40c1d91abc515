-------------------------------- MODULE Trace -------------------------------
(***************************************************************************)
(* The console in the instruction trace, src/drivers/sifive_trace.c:       *)
(* characters are collected in a word and written to a stimulus register   *)
(* four at a time, or what there is at the end of a line.  The width of a  *)
(* write tells the tool that reads the trace how many there are.           *)
(***************************************************************************)
EXTENDS Naturals, Sequences

CONSTANTS Byte,     \* 2^8
          Chars,    \* what the program prints
          Ends,     \* '\n' and '\r'
          MaxChars  \* bound: how many characters are printed

TraceAssumption ==
    /\ Byte \in Nat \ {0} /\ MaxChars \in Nat
    /\ Chars \subseteq 0 .. Byte - 1

VARIABLES buffer, bytes,  \* buffer and bytes_in_buffer
          told,           \* the characters of the stimuli, as the tool has them
          asked           \* what was printed

vars == <<buffer, bytes, told, asked>>

Init == buffer = 0 /\ bytes = 0 /\ told = <<>> /\ asked = <<>>

\* The value of a one in the byte n, that of a word beyond the last.
Place(n) == CASE n = 0 -> 1
              [] n = 1 -> Byte
              [] n = 2 -> Byte * Byte
              [] n = 3 -> Byte * (Byte * Byte)
              [] n = 4 -> Byte * (Byte * (Byte * Byte))

Stimulus(width, data) == [width |-> width, data |-> data % Place(width)]

\* A form it must not take: the third byte alone is lost.
HalfOfThree(n, data) == <<Stimulus(IF n = 3 THEN 2 ELSE n, data)>>

\* The writes of n characters; there is none of three bytes.
Writes(n, data) ==
    IF n = 3 THEN <<Stimulus(2, data), Stimulus(1, data \div Place(2))>>
    ELSE <<Stimulus(n, data)>>

\* The characters of a word, the first one lowest.
Characters(width, data) ==
    [i \in 1 .. width |-> (data \div Place(i - 1)) % Byte]

\* What the tool makes of one stimulus, or of two.
OfOne(s) == Characters(s.width, s.data)
Of(writes) == IF Len(writes) = 1 THEN OfOne(writes[1])
              ELSE OfOne(writes[1]) \o OfOne(writes[2])

\* __metal_driver_sifive_trace_putc.
Putc(c) ==
    LET data == buffer + (c * Place(bytes))
        full == bytes + 1 >= 4 \/ c \in Ends
    IN /\ Len(asked) < MaxChars
       /\ buffer' = IF full THEN 0 ELSE data
       /\ bytes' = IF full THEN 0 ELSE bytes + 1
       /\ told' = IF full THEN told \o Of(Writes(bytes + 1, data)) ELSE told
       /\ asked' = Append(asked, c)

Next == \E c \in Chars : Putc(c)

Spec == Init /\ [][Next]_vars

-----------------------------------------------------------------------------

TypeOK ==
    /\ buffer \in 0 .. Place(3) - 1 /\ bytes \in 0 .. 3
    /\ told \in Seq(0 .. Byte - 1)
    /\ asked \in Seq(Chars)

\* What the tool makes of the stimuli, with what is yet to come, is what was
\* printed, and a line that has ended is there in full.
TraceIsWhole ==
    /\ told \o Characters(bytes, buffer) = asked
    /\ asked # <<>> /\ asked[Len(asked)] \in Ends => bytes = 0

=============================================================================
