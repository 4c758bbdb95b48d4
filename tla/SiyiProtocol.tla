---------------------------- MODULE SiyiProtocol ----------------------------
(***************************************************************************)
(* What the SIYI SDK does to the numbers it puts into a message            *)
(* (SIYI-SDK/src/message.cpp).  A message is a string of hexadecimal       *)
(* digits; the functions that build it print an int in hexadecimal and     *)
(* keep digits from one end of what was printed, so a field is a residue.  *)
(* The bytes of a speed are signed for the camera.                         *)
(***************************************************************************)
EXTENDS Integers

Byte == 0 .. 255

\* The last two hexadecimal digits of an int, negative ones in two's complement.
LastDigits(n) == n % 256

\* How the camera reads a byte of speed.
AsSigned(b) == IF b < 128 THEN b ELSE b - 256

Clamp(low, n, high) == IF n < low THEN low ELSE IF n > high THEN high ELSE n

\* Mutant of SpeedByte: all digits of the int are kept.
MutantKeepsDigits(speed) == Clamp(-100, speed, 100)

SpeedByte(speed) == LastDigits(Clamp(-100, speed, 100))

\* increment_seq(): the member _seq and the number in the message after a
\* message that is built with val in _seq.  Of the four or five digits printed
\* the first two are dropped.
NextSeq(val) == IF val < 0 \/ val > 65535 THEN 0 ELSE val + 1
SeqField(val) == IF val < 0 \/ val > 65535 THEN 0 ELSE LastDigits(val + 1)

\* compute_data_len(): the length in the message of this many bytes of data.
LengthField(bytes) == LastDigits(bytes)
=============================================================================
