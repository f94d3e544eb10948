------------------------- MODULE VariableByteInteger -------------------------
(***************************************************************************)
(* The Variable Byte Integer of the fixed header                           *)
(* (codec/variable_byte_integer.rs): little-endian digits to the base 128, *)
(* at most four of them, with a continuation bit on all but the last.      *)
(*                                                                         *)
(* The base is a parameter, so that a small instance has integers of every *)
(* length.  A byte is a digit below VbiBase, plus VbiBase for the          *)
(* continuation bit.                                                       *)
(***************************************************************************)
EXTENDS Integers, Sequences

CONSTANT VbiBase  \* 128

ASSUME VbiBaseAssumption == VbiBase \in Nat /\ VbiBase >= 2

VbiBytes == 0..(2 * VbiBase - 1)
VbiMaxLen == 4

\* VariableByteInteger::MAX
VbiMax == VbiBase * VbiBase * VbiBase * VbiBase - 1

\* encoded_len
EncodedLen(value) ==
    IF value < VbiBase THEN 1
    ELSE IF value < VbiBase * VbiBase THEN 2
    ELSE IF value < VbiBase * VbiBase * VbiBase THEN 3 ELSE 4

\* What is left of value in each round of the loop of encode
Rest(value) ==
    LET second == value \div VbiBase
        third == second \div VbiBase
    IN  <<value, second, third, third \div VbiBase>>

\* The byte of a round: a digit, and the continuation bit unless it is the last
RoundByte(rest) ==
    IF rest < VbiBase THEN rest ELSE VbiBase + (rest % VbiBase)

\* The rounds of encode: the last one leaves nothing
Rounds(value) ==
    LET rest == Rest(value)
    IN  IF rest[1] < VbiBase THEN 1
        ELSE IF rest[2] < VbiBase THEN 2
        ELSE IF rest[3] < VbiBase THEN 3 ELSE 4

\* encode
Encode[value \in 0..VbiMax] ==
    LET rest == Rest(value)
    IN  [i \in 1..Rounds(value) |-> RoundByte(rest[i])]

\* The multiplier of the digit at a position
Multiplier == <<1, VbiBase, VbiBase * VbiBase, VbiBase * VbiBase * VbiBase>>

\* What the digit at position i adds to an integer of n digits
DigitValue(bytes, n, i) ==
    IF i <= n THEN (bytes[i] % VbiBase) * Multiplier[i] ELSE 0

DigitsValue(bytes, n) ==
    DigitValue(bytes, n, 1) + DigitValue(bytes, n, 2)
        + DigitValue(bytes, n, 3) + DigitValue(bytes, n, 4)

\* The positions at which an integer at the start of bytes may end
FinalPositions(bytes) ==
    {i \in 1..VbiMaxLen : i <= Len(bytes) /\ bytes[i] < VbiBase}

VbiError(error) == [status |-> error, value |-> 0, length |-> 0]

\* Mutant: an encoding longer than needed is accepted.
DecodeVbiOverlong(bytes) ==
    IF FinalPositions(bytes) = {}
    THEN VbiError(IF Len(bytes) >= VbiMaxLen THEN "MalformedPacket"
                                             ELSE "InsufficientData")
    ELSE LET n == CHOOSE i \in FinalPositions(bytes) :
                     \A j \in FinalPositions(bytes) : i <= j
         IN  [status |-> "Ok", value |-> DigitsValue(bytes, n), length |-> n]

\* decode: the value and the number of bytes it takes, or the error
DecodeVbi(bytes) ==
    IF FinalPositions(bytes) = {}
    THEN VbiError(IF Len(bytes) >= VbiMaxLen THEN "MalformedPacket"
                                             ELSE "InsufficientData")
    ELSE LET n == CHOOSE i \in FinalPositions(bytes) :
                     \A j \in FinalPositions(bytes) : i <= j
             value == DigitsValue(bytes, n)
         IN  IF n = EncodedLen(value)
             THEN [status |-> "Ok", value |-> value, length |-> n]
             ELSE VbiError("MalformedPacket")

=============================================================================
