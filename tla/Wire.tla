-------------------------------- MODULE Wire --------------------------------
(***************************************************************************)
(* The two-byte integers of the gateway's packets: write_block stores one, *)
(* read_block loads one.  The bytes go through plain char, which is signed *)
(* on the x86 Linux builds the Makefile describes, so a loaded byte of 128 *)
(* or more is a negative number before it is shifted and or-ed.            *)
(* HalfByte is 128 in the code; TLC uses small values of it.               *)
(***************************************************************************)
EXTENDS Integers

CONSTANT HalfByte    \* the first value a signed char cannot hold

ASSUME HalfByteAssumption == HalfByte \in Nat \ {0}

Byte == 2 * HalfByte

\* What two bytes can spell.
WireWord == 0 .. Byte * Byte - 1

\* write_block: the low two bytes of r, negative numbers in two's complement.
WriteBlock(r) == r % (Byte * Byte)

\* A byte b read through a signed char.
SignedChar(b) == IF b >= HalfByte THEN b - Byte ELSE b

\* read_block: hi << 8 | lo.  Or-ing a negative lo sets every higher bit, so
\* that only lo is left of the word.
ReadBlock(w) ==
    LET hi == w \div Byte
        lo == w % Byte
    IN  IF lo >= HalfByte THEN SignedChar(lo) ELSE SignedChar(hi) * Byte + lo

\* The integers that survive the trip through a packet.
Readable(r) == r = ReadBlock(WriteBlock(r))
=============================================================================
