---------------------------- MODULE DecoderProofs ----------------------------
(***************************************************************************)
(* The streaming decoder, for every base of the Variable Byte Integer,     *)
(* every set of frames and limits, every chunking and every packet         *)
(* decoder: the remaining length is decoded to what was encoded, the       *)
(* memory is bounded, and the frames come out as they were sent.           *)
(***************************************************************************)
EXTENDS DecoderStream, TLAPS

-----------------------------------------------------------------------------
(***************************************************************************)
(* The Variable Byte Integer                                               *)
(***************************************************************************)

(***************************************************************************)
(* Division by the base leaves a digit.                                    *)
(***************************************************************************)
LEMMA DivStep ==
    ASSUME NEW x \in Nat
    PROVE  /\ x \div VbiBase \in Nat
           /\ x % VbiBase \in 0..(VbiBase - 1)
           /\ x = VbiBase * (x \div VbiBase) + (x % VbiBase)
BY VbiBaseAssumption

(***************************************************************************)
(* A digit and a multiple of the base are found again by division.         *)
(***************************************************************************)
LEMMA DivUnique ==
    ASSUME NEW q \in Nat, NEW d \in 0..(VbiBase - 1)
    PROVE  /\ (d + VbiBase * q) \div VbiBase = q
           /\ (d + VbiBase * q) % VbiBase = d
<1>. DEFINE x == d + VbiBase * q
            p == x \div VbiBase
            e == x % VbiBase
<1>1. x \in Nat
  BY VbiBaseAssumption
<1>2. p \in Nat /\ e \in 0..(VbiBase - 1) /\ x = VbiBase * p + e
  BY <1>1, DivStep
<1>3. VbiBase * p + e = d + VbiBase * q
  BY <1>2
<1>. HIDE DEF x, p, e
<1>4. ASSUME p < q PROVE FALSE
  <2>1. VbiBase * (p + 1) <= VbiBase * q
    BY <1>2, <1>4, VbiBaseAssumption
  <2>2. VbiBase * (p + 1) = VbiBase * p + VbiBase
    BY <1>2, VbiBaseAssumption
  <2>. QED BY <1>2, <1>3, <2>1, <2>2, VbiBaseAssumption
<1>5. ASSUME q < p PROVE FALSE
  <2>1. VbiBase * (q + 1) <= VbiBase * p
    BY <1>2, <1>5, VbiBaseAssumption
  <2>2. VbiBase * (q + 1) = VbiBase * q + VbiBase
    BY <1>2, VbiBaseAssumption
  <2>. QED BY <1>2, <1>3, <2>1, <2>2, VbiBaseAssumption
<1>6. p = q
  BY <1>2, <1>4, <1>5
<1>7. e = d
  BY <1>2, <1>3, <1>6, VbiBaseAssumption
<1>. QED BY <1>6, <1>7 DEF p, e, x

(***************************************************************************)
(* A number is below a multiple of the base when its quotient is below the *)
(* factor.                                                                 *)
(***************************************************************************)
LEMMA DivBound ==
    ASSUME NEW x \in Nat, NEW a \in Nat
    PROVE  x < a * VbiBase <=> x \div VbiBase < a
<1>. DEFINE p == x \div VbiBase
            e == x % VbiBase
<1>1. p \in Nat /\ e \in 0..(VbiBase - 1) /\ x = VbiBase * p + e
  BY DivStep
<1>. HIDE DEF p, e
<1>2. ASSUME p < a PROVE x < a * VbiBase
  <2>1. VbiBase * (p + 1) <= VbiBase * a
    BY <1>1, <1>2, VbiBaseAssumption
  <2>2. VbiBase * (p + 1) = VbiBase * p + VbiBase
    BY <1>1, VbiBaseAssumption
  <2>. QED BY <1>1, <2>1, <2>2, VbiBaseAssumption
<1>3. ASSUME ~(p < a) PROVE ~(x < a * VbiBase)
  <2>1. VbiBase * a <= VbiBase * p
    BY <1>1, <1>3, VbiBaseAssumption
  <2>. QED BY <1>1, <2>1, VbiBaseAssumption
<1>. QED BY <1>2, <1>3 DEF p

(***************************************************************************)
(* What is left in the rounds of encode: each round takes one digit.       *)
(***************************************************************************)
LEMMA RestDigits ==
    ASSUME NEW value \in Nat
    PROVE  /\ Rest(value) = <<Rest(value)[1], Rest(value)[2], Rest(value)[3],
                              Rest(value)[4]>>
           /\ Rest(value)[1] = value
           /\ \A i \in 1..4 : Rest(value)[i] \in Nat
           /\ \A i \in 1..3 :
                 /\ Rest(value)[i + 1] = Rest(value)[i] \div VbiBase
                 /\ Rest(value)[i] = VbiBase * Rest(value)[i + 1]
                                       + (Rest(value)[i] % VbiBase)
<1>. DEFINE s == value \div VbiBase
            t == s \div VbiBase
            u == t \div VbiBase
<1>1. Rest(value) = <<value, s, t, u>>
  BY DEF Rest
<1>2. s \in Nat /\ value = VbiBase * s + (value % VbiBase)
  BY DivStep
<1>3. t \in Nat /\ s = VbiBase * t + (s % VbiBase)
  BY <1>2, DivStep
<1>4. u \in Nat /\ t = VbiBase * u + (t % VbiBase)
  BY <1>3, DivStep
<1>5. Rest(value)[1] = value /\ Rest(value)[2] = s /\ Rest(value)[3] = t
      /\ Rest(value)[4] = u
  BY <1>1
<1>6. Rest(value) = <<Rest(value)[1], Rest(value)[2], Rest(value)[3],
                      Rest(value)[4]>>
  BY <1>1, <1>5
<1>7. \A i \in 1..4 : Rest(value)[i] \in Nat
  BY <1>2, <1>3, <1>4, <1>5
<1>8. ASSUME NEW i \in 1..3
      PROVE  /\ Rest(value)[i + 1] = Rest(value)[i] \div VbiBase
             /\ Rest(value)[i] = VbiBase * Rest(value)[i + 1]
                                       + (Rest(value)[i] % VbiBase)
  <2>1. CASE i = 1
    BY <2>1, <1>2, <1>5
  <2>2. CASE i = 2
    BY <2>2, <1>3, <1>5
  <2>3. CASE i = 3
    BY <2>3, <1>4, <1>5
  <2>. QED BY <2>1, <2>2, <2>3
<1>. QED BY <1>5, <1>6, <1>7, <1>8

(***************************************************************************)
(* encoded_len counts the rounds of encode: the thresholds of its match    *)
(* are where the rest of a round becomes a single digit.                   *)
(***************************************************************************)
LEMMA LenIsRounds ==
    ASSUME NEW value \in 0..VbiMax
    PROVE  /\ EncodedLen(value) \in 1..4
           /\ Rest(value)[EncodedLen(value)] < VbiBase
           /\ \A i \in 1..(EncodedLen(value) - 1) : Rest(value)[i] >= VbiBase
           /\ Rounds(value) = EncodedLen(value)
<1>. DEFINE r == Rest(value)
            B == VbiBase
            n == EncodedLen(value)
<1>1. B \in Nat /\ B >= 2
  BY VbiBaseAssumption
<1>2. value \in Nat /\ value < B * B * B * B
  BY <1>1 DEF VbiMax, Multiplier
<1>3. /\ r[1] = value /\ r[1] \in Nat /\ r[2] \in Nat /\ r[3] \in Nat /\ r[4] \in Nat
      /\ r[2] = r[1] \div B /\ r[3] = r[2] \div B /\ r[4] = r[3] \div B
  BY <1>2, RestDigits
<1>. HIDE DEF r
<1>4. /\ B * B \in Nat /\ B * B * B \in Nat /\ B < B * B /\ B * B < B * B * B
  BY <1>1
<1>5. r[1] < B * B <=> r[2] < B
  BY <1>1, <1>3, DivBound
<1>6. r[1] < B * B * B <=> r[3] < B
  <2>1. r[1] < B * B * B <=> r[2] < B * B
    BY <1>3, <1>4, DivBound
  <2>2. r[2] < B * B <=> r[3] < B
    BY <1>1, <1>3, DivBound
  <2>. QED BY <2>1, <2>2
<1>7. r[4] < B
  <2>1. r[2] < B * B * B
    BY <1>2, <1>3, <1>4, DivBound
  <2>2. r[3] < B * B
    BY <1>3, <1>4, <2>1, DivBound
  <2>. QED BY <1>1, <1>3, <2>2, DivBound
<1>8. /\ Multiplier[2] = B /\ Multiplier[3] = B * B /\ Multiplier[4] = B * B * B
  BY DEF Multiplier
<1>9. /\ n \in 1..4
      /\ n = 1 <=> r[1] < B
      /\ n = 2 <=> r[1] >= B /\ r[2] < B
      /\ n = 3 <=> r[2] >= B /\ r[3] < B
      /\ n = 4 <=> r[3] >= B
  <2>1. CASE value < B
    <3>1. n = 1
      BY <2>1, <1>8, <1>2, <1>1, <1>4 DEF EncodedLen
    <3>. QED BY <3>1, <2>1, <1>1, <1>3, <1>4, <1>5, <1>6
  <2>2. CASE B <= value /\ value < B * B
    <3>1. n = 2
      BY <2>2, <1>8, <1>2, <1>1, <1>4 DEF EncodedLen
    <3>. QED BY <3>1, <2>2, <1>1, <1>3, <1>4, <1>5, <1>6
  <2>3. CASE B * B <= value /\ value < B * B * B
    <3>1. n = 3
      BY <2>3, <1>8, <1>2, <1>1, <1>4 DEF EncodedLen
    <3>. QED BY <3>1, <2>3, <1>1, <1>3, <1>4, <1>5, <1>6
  <2>4. CASE B * B * B <= value
    <3>1. n = 4
      BY <2>4, <1>8, <1>2, <1>1, <1>4 DEF EncodedLen
    <3>. QED BY <3>1, <2>4, <1>1, <1>3, <1>4, <1>5, <1>6
  <2>. QED BY <1>1, <1>2, <1>4, <2>1, <2>2, <2>3, <2>4
<1>. HIDE DEF n
<1>11. (r[2] >= B => r[1] >= B) /\ (r[3] >= B => r[2] >= B)
  BY <1>1, <1>3, <1>4, <1>5, <1>6
<1>12. r[n] < B
  BY <1>9, <1>7
<1>13. \A i \in 1..(n - 1) : r[i] >= B
  BY <1>1, <1>3, <1>9, <1>11
<1>14. ASSUME NEW m \in 1..4, r[m] < B, \A i \in 1..(m - 1) : r[i] >= B
       PROVE  m = n
  <2>1. ~(m < n)
    BY <1>1, <1>3, <1>9, <1>13, <1>14
  <2>2. ~(n < m)
    BY <1>1, <1>3, <1>9, <1>12, <1>14
  <2>. QED BY <1>9, <2>1, <2>2
<1>15. Rounds(value) = n
  BY <1>9, <1>12, <1>13, <1>14 DEF Rounds, VbiMaxLen, r
<1>. QED BY <1>9, <1>12, <1>13, <1>15 DEF n, r

\* The digit at position i of an integer of n bytes
Digit(bytes, n, i) == IF i <= n THEN bytes[i] % VbiBase ELSE 0

(***************************************************************************)
(* The digits of what decode adds up are the bytes without their           *)
(* continuation bits, and four digits never exceed MAX.                    *)
(***************************************************************************)
LEMMA DigitsRest ==
    ASSUME NEW bytes \in Seq(VbiBytes), NEW n \in 1..4, n <= Len(bytes)
    PROVE  /\ DigitsValue(bytes, n) \in 0..VbiMax
           /\ \A i \in 1..4 :
                 Rest(DigitsValue(bytes, n))[i] % VbiBase = Digit(bytes, n, i)
<1>. DEFINE B == VbiBase
            d1 == Digit(bytes, n, 1)
            d2 == Digit(bytes, n, 2)
            d3 == Digit(bytes, n, 3)
            d4 == Digit(bytes, n, 4)
            w3 == d3 + B * d4
            w2 == d2 + B * w3
            w1 == d1 + B * w2
<1>1. B \in Nat /\ B >= 2
  BY VbiBaseAssumption
<1>2. ASSUME NEW i \in 1..4 PROVE Digit(bytes, n, i) \in 0..(B - 1)
  <2>1. CASE i <= n
    <3>1. bytes[i] \in Nat
      BY <2>1, <1>1 DEF VbiBytes
    <3>. QED BY <2>1, <3>1, DivStep DEF Digit
  <2>2. CASE ~(i <= n)
    BY <2>2, <1>1 DEF Digit
  <2>. QED BY <2>1, <2>2
<1>3. d1 \in 0..(B - 1) /\ d2 \in 0..(B - 1) /\ d3 \in 0..(B - 1) /\ d4 \in 0..(B - 1)
  BY <1>2
<1>4. DigitsValue(bytes, n) = d1 * 1 + d2 * B + d3 * (B * B) + d4 * (B * B * B)
  <2>1. ASSUME NEW i \in 1..4
        PROVE  DigitValue(bytes, n, i) = Digit(bytes, n, i) * Multiplier[i]
    <3>1. Multiplier[i] \in Nat
      BY <1>1 DEF Multiplier
    <3>2. CASE i <= n
      BY <3>2 DEF DigitValue, Digit
    <3>3. CASE ~(i <= n)
      BY <3>1, <3>3 DEF DigitValue, Digit
    <3>. QED BY <3>2, <3>3
  <2>2. Multiplier[1] = 1 /\ Multiplier[2] = B /\ Multiplier[3] = B * B
        /\ Multiplier[4] = B * B * B
    BY DEF Multiplier
  <2>. HIDE DEF d1, d2, d3, d4
  <2>3. /\ DigitValue(bytes, n, 1) = d1 * 1 /\ DigitValue(bytes, n, 2) = d2 * B
        /\ DigitValue(bytes, n, 3) = d3 * (B * B)
        /\ DigitValue(bytes, n, 4) = d4 * (B * B * B)
    BY <2>1, <2>2 DEF d1, d2, d3, d4
  <2>. QED BY <2>3 DEF DigitsValue
<1>. HIDE DEF d1, d2, d3, d4
<1>5. w3 \in Nat /\ w2 \in Nat /\ w1 \in Nat
  BY <1>1, <1>3
<1>6. DigitsValue(bytes, n) = w1
  <2>1. B * w3 = d3 * B + d4 * (B * B)
    BY <1>1, <1>3
  <2>2. B * w2 = d2 * B + B * (B * w3)
    BY <1>1, <1>3, <1>5
  <2>3. B * (B * w3) = B * (d3 * B) + B * (d4 * (B * B))
    BY <1>1, <1>3, <2>1
  <2>4. B * (d3 * B) = d3 * (B * B) /\ B * (d4 * (B * B)) = d4 * (B * B * B)
    BY <1>1, <1>3
  <2>. QED BY <1>1, <1>3, <1>4, <1>5, <2>2, <2>3, <2>4
<1>7. w3 < B * B
  <2>1. B * d4 <= B * (B - 1)
    BY <1>1, <1>3
  <2>. QED BY <1>1, <1>3, <2>1
<1>8. w2 < B * B * B
  <2>1. B * w3 <= B * (B * B - 1)
    BY <1>1, <1>5, <1>7
  <2>. QED BY <1>1, <1>3, <1>5, <2>1
<1>9. w1 < B * B * B * B
  <2>1. B * w2 <= B * (B * B * B - 1)
    BY <1>1, <1>5, <1>8
  <2>. QED BY <1>1, <1>3, <1>5, <2>1
<1>10. w1 \in 0..VbiMax
  BY <1>1, <1>5, <1>9 DEF VbiMax, Multiplier
<1>11. w1 % B = d1 /\ w1 \div B = w2
  BY <1>3, <1>5, DivUnique
<1>12. w2 % B = d2 /\ w2 \div B = w3
  BY <1>3, <1>5, DivUnique
<1>13. w3 % B = d3 /\ w3 \div B = d4
  BY <1>1, <1>3, DivUnique
<1>14. d4 % B = d4
  <2>1. d4 = d4 + B * 0
    BY <1>1, <1>3
  <2>. QED BY <1>3, <2>1, DivUnique
<1>. HIDE DEF w1, w2, w3
<1>15. Rest(w1) = <<w1, w2, w3, d4>>
  BY <1>11, <1>12, <1>13 DEF Rest
<1>16. \A i \in 1..4 : Rest(w1)[i] % B = Digit(bytes, n, i)
  BY <1>11, <1>12, <1>13, <1>14, <1>15 DEF d1, d2, d3, d4
<1>. QED BY <1>6, <1>10, <1>16

(***************************************************************************)
(* encode writes bytes, as many as encoded_len says.                       *)
(***************************************************************************)
LEMMA EncodeBytes ==
    ASSUME NEW value \in 0..VbiMax
    PROVE  /\ Encode[value] = [i \in 1..EncodedLen(value) |-> RoundByte(Rest(value)[i])]
           /\ Encode[value] \in Seq(VbiBytes)
           /\ Len(Encode[value]) = EncodedLen(value)
<1>. DEFINE n == EncodedLen(value)
<1>1. n \in 1..4 /\ Rounds(value) = n /\ value \in Nat
  BY LenIsRounds
<1>2. Encode[value] = [i \in 1..n |-> RoundByte(Rest(value)[i])]
  BY <1>1 DEF Encode
<1>3. ASSUME NEW i \in 1..n PROVE RoundByte(Rest(value)[i]) \in VbiBytes
  <2>1. Rest(value)[i] \in Nat
    BY <1>1, RestDigits
  <2>2. Rest(value)[i] % VbiBase \in 0..(VbiBase - 1)
    BY <2>1, DivStep
  <2>. QED BY <2>1, <2>2, VbiBaseAssumption DEF RoundByte, VbiBytes
<1>. HIDE DEF n
<1>. QED BY <1>1, <1>2, <1>3 DEF n

\* The bytes of an integer of n bytes: all but the last have the continuation bit
EndsAt(bytes, n) ==
    /\ n \in 1..4
    /\ n <= Len(bytes)
    /\ bytes[n] < VbiBase
    /\ \A i \in 1..(n - 1) : bytes[i] >= VbiBase

(***************************************************************************)
(* The two ways decode can go: the integer ends within four bytes, or not. *)
(***************************************************************************)
LEMMA DecodeCases ==
    ASSUME NEW bytes \in Seq(VbiBytes)
    PROVE  /\ \A n : EndsAt(bytes, n) =>
                 DecodeVbi(bytes) = IF n = EncodedLen(DigitsValue(bytes, n))
                                    THEN [status |-> "Ok", value |-> DigitsValue(bytes, n),
                                          length |-> n]
                                    ELSE VbiError("MalformedPacket")
           /\ \/ \E n \in 1..4 : EndsAt(bytes, n)
              \/ /\ \A i \in 1..4 : i <= Len(bytes) => bytes[i] >= VbiBase
                 /\ DecodeVbi(bytes) = VbiError(IF Len(bytes) >= 4 THEN "MalformedPacket"
                                                ELSE "InsufficientData")
<1>. DEFINE F == FinalPositions(bytes)
            least == CHOOSE i \in F : \A j \in F : i <= j
<1>0. \A i \in 1..4 : i <= Len(bytes) => bytes[i] \in Nat
  BY VbiBaseAssumption DEF VbiBytes
<1>1. \A i : i \in F <=> i \in 1..4 /\ i <= Len(bytes) /\ bytes[i] < VbiBase
  BY DEF FinalPositions, VbiMaxLen
<1>2. ASSUME NEW n, EndsAt(bytes, n)
      PROVE  DecodeVbi(bytes) = IF n = EncodedLen(DigitsValue(bytes, n))
                                    THEN [status |-> "Ok", value |-> DigitsValue(bytes, n),
                                          length |-> n]
                                    ELSE VbiError("MalformedPacket")
  <2>1. n \in F
    BY <1>1, <1>2 DEF EndsAt
  <2>2. \A j \in F : n <= j
    BY <1>0, <1>1, <1>2, VbiBaseAssumption DEF EndsAt
  <2>3. least \in F /\ \A j \in F : least <= j
    BY <2>1, <2>2
  <2>4. least = n
    <3>1. least \in 1..4 /\ n \in 1..4 /\ least <= n /\ n <= least
      BY <1>1, <2>1, <2>2, <2>3
    <3>. HIDE DEF least
    <3>. QED BY <3>1
  <2>. QED BY <2>1, <2>4, Zenon DEF DecodeVbi
<1>3. CASE F = {}
  <2>1. \A i \in 1..4 : i <= Len(bytes) => bytes[i] >= VbiBase
    BY <1>0, <1>1, <1>3, VbiBaseAssumption
  <2>. QED BY <1>2, <1>3, <2>1 DEF DecodeVbi, VbiMaxLen
<1>4. CASE F # {}
  <2>1. PICK n \in F : \A j \in F : n <= j
    BY <1>1, <1>4
  <2>2. EndsAt(bytes, n)
    BY <1>0, <1>1, <2>1, VbiBaseAssumption DEF EndsAt
  <2>. QED BY <1>2, <2>2 DEF EndsAt
<1>. QED BY <1>3, <1>4

(***************************************************************************)
(* A byte below the base is its own digit, one with the continuation bit   *)
(* is the base and its digit.                                              *)
(***************************************************************************)
LEMMA ByteDigit ==
    ASSUME NEW byte \in VbiBytes
    PROVE  /\ byte < VbiBase => byte % VbiBase = byte
           /\ byte >= VbiBase => byte = VbiBase + (byte % VbiBase)
<1>1. VbiBase \in Nat /\ VbiBase >= 2 /\ byte \in 0..(2 * VbiBase - 1)
  BY VbiBaseAssumption DEF VbiBytes
<1>2. ASSUME byte < VbiBase PROVE byte % VbiBase = byte
  <2>1. byte = byte + VbiBase * 0 /\ byte \in 0..(VbiBase - 1)
    BY <1>1, <1>2
  <2>. QED BY <2>1, DivUnique
<1>3. ASSUME byte >= VbiBase PROVE byte = VbiBase + (byte % VbiBase)
  <2>. DEFINE d == byte - VbiBase
  <2>1. byte = d + VbiBase * 1 /\ d \in 0..(VbiBase - 1)
    BY <1>1, <1>3
  <2>2. byte % VbiBase = d
    BY <2>1, DivUnique
  <2>. QED BY <1>1, <2>2
<1>. QED BY <1>2, <1>3

(***************************************************************************)
(* What decode accepts is the one encoding that encode produces, of an     *)
(* integer within MAX.                                                     *)
(***************************************************************************)
THEOREM VbiCanonical ==
    ASSUME NEW bytes \in Seq(VbiBytes), DecodeVbi(bytes).status = "Ok"
    PROVE  /\ DecodeVbi(bytes).length \in 1..4
           /\ DecodeVbi(bytes).length <= Len(bytes)
           /\ DecodeVbi(bytes).value \in 0..VbiMax
           /\ SubSeq(bytes, 1, DecodeVbi(bytes).length) = Encode[DecodeVbi(bytes).value]
<1>1. PICK n \in 1..4 : EndsAt(bytes, n)
  BY DecodeCases DEF VbiError
<1>. DEFINE v == DigitsValue(bytes, n)
<1>2. n = EncodedLen(v) /\ DecodeVbi(bytes) = [status |-> "Ok", value |-> v, length |-> n]
  <2>1. DecodeVbi(bytes) = IF n = EncodedLen(v)
                           THEN [status |-> "Ok", value |-> v, length |-> n]
                           ELSE VbiError("MalformedPacket")
    BY <1>1, DecodeCases
  <2>. QED BY <2>1 DEF VbiError
<1>3. n <= Len(bytes) /\ bytes[n] < VbiBase /\ \A i \in 1..(n - 1) : bytes[i] >= VbiBase
  BY <1>1 DEF EndsAt
<1>4. v \in 0..VbiMax /\ \A i \in 1..4 : Rest(v)[i] % VbiBase = Digit(bytes, n, i)
  BY <1>3, DigitsRest
<1>. HIDE DEF v
<1>5. /\ Rest(v)[n] < VbiBase
      /\ \A i \in 1..(n - 1) : Rest(v)[i] >= VbiBase
  BY <1>2, <1>4, LenIsRounds
<1>6. \A i \in 1..4 : Rest(v)[i] \in Nat
  BY <1>4, RestDigits
<1>7. ASSUME NEW i \in 1..n PROVE RoundByte(Rest(v)[i]) = bytes[i]
  <2>1. Rest(v)[i] % VbiBase = bytes[i] % VbiBase
    BY <1>4 DEF Digit
  <2>2. bytes[i] \in VbiBytes
    BY <1>3
  <2>3. CASE i = n
    <3>1. Rest(v)[i] \in VbiBytes
      BY <1>5, <1>6, <2>3, VbiBaseAssumption DEF VbiBytes
    <3>2. Rest(v)[i] % VbiBase = Rest(v)[i] /\ bytes[i] % VbiBase = bytes[i]
      BY <1>3, <1>5, <2>2, <2>3, <3>1, ByteDigit
    <3>. QED BY <1>5, <2>1, <2>3, <3>2 DEF RoundByte
  <2>4. CASE i # n
    <3>1. i \in 1..(n - 1)
      BY <2>4
    <3>2. bytes[i] = VbiBase + (bytes[i] % VbiBase)
      BY <1>3, <2>2, <3>1, ByteDigit
    <3>3. Rest(v)[i] >= VbiBase /\ Rest(v)[i] \in Nat
      BY <1>5, <1>6, <3>1
    <3>. QED BY <2>1, <3>2, <3>3, VbiBaseAssumption DEF RoundByte
  <2>. QED BY <2>3, <2>4
<1>8. Encode[v] = [i \in 1..n |-> RoundByte(Rest(v)[i])]
  BY <1>2, <1>4, EncodeBytes
<1>9. SubSeq(bytes, 1, n) = [i \in 1..n |-> bytes[i]]
  BY <1>3
<1>10. SubSeq(bytes, 1, n) = Encode[v]
  BY <1>7, <1>8, <1>9
<1>. QED BY <1>2, <1>3, <1>4, <1>10

(***************************************************************************)
(* An integer within MAX is the sum of its four digits.                    *)
(***************************************************************************)
LEMMA DigitsOfValue ==
    ASSUME NEW u \in 0..VbiMax
    PROVE  u = (Rest(u)[1] % VbiBase) + VbiBase * ((Rest(u)[2] % VbiBase)
                   + VbiBase * ((Rest(u)[3] % VbiBase) + VbiBase * (Rest(u)[4] % VbiBase)))
<1>. DEFINE B == VbiBase
            r2 == Rest(u)[2]
            r3 == Rest(u)[3]
            r4 == Rest(u)[4]
<1>1. B \in Nat /\ B >= 2 /\ u \in Nat
  BY VbiBaseAssumption
<1>2. r2 \in Nat /\ r3 \in Nat /\ r4 \in Nat /\ Rest(u)[1] = u
  BY RestDigits
<1>3. /\ u = B * r2 + (u % B)
      /\ r2 = B * r3 + (r2 % B)
      /\ r3 = B * r4 + (r3 % B)
  BY <1>2, RestDigits
<1>4. /\ EncodedLen(u) \in 1..4 /\ Rest(u)[EncodedLen(u)] < B
  BY LenIsRounds
<1>. HIDE DEF r2, r3, r4, B
<1>5. /\ u % B \in 0..(B - 1) /\ r2 % B \in 0..(B - 1) /\ r3 % B \in 0..(B - 1)
  BY <1>1, <1>2, DivStep DEF B
<1>6. ASSUME NEW x \in Nat, NEW q \in Nat, NEW d \in 0..(B - 1), x = B * q + d
      PROVE  q <= x
  <2>1. 1 * q <= B * q
    BY <1>1
  <2>2. B * q \in Nat
    BY <1>1
  <2>. QED BY <1>1, <1>6, <2>1, <2>2
<1>7. r2 <= u /\ r3 <= r2 /\ r4 <= r3
  BY <1>1, <1>2, <1>3, <1>5, <1>6
<1>8. r4 < B
  <2>1. CASE EncodedLen(u) = 4
    BY <1>4, <2>1 DEF r4
  <2>2. CASE EncodedLen(u) = 3
    BY <1>1, <1>2, <1>4, <1>7, <2>2 DEF r3
  <2>3. CASE EncodedLen(u) = 2
    BY <1>1, <1>2, <1>4, <1>7, <2>3 DEF r2
  <2>4. CASE EncodedLen(u) = 1
    BY <1>1, <1>2, <1>4, <1>7, <2>4
  <2>. QED BY <1>4, <2>1, <2>2, <2>3, <2>4
<1>9. r4 % B = r4
  <2>1. r4 = r4 + B * 0 /\ r4 \in 0..(B - 1)
    BY <1>1, <1>2, <1>8
  <2>. QED BY <2>1, DivUnique DEF B
<1>10. r3 = (r3 % B) + B * (r4 % B) /\ r2 = (r2 % B) + B * r3 /\ u = (u % B) + B * r2
  <2>1. B * r4 \in Nat /\ B * r3 \in Nat /\ B * r2 \in Nat
    BY <1>1, <1>2
  <2>. QED BY <1>3, <1>5, <1>9, <2>1
<1>. QED BY <1>2, <1>10 DEF B, r2, r3, r4

(***************************************************************************)
(* decode inverts encode, whatever bytes follow.                           *)
(***************************************************************************)
THEOREM VbiRoundTrip ==
    ASSUME NEW value \in 0..VbiMax, NEW bytes \in Seq(VbiBytes),
           Len(Encode[value]) <= Len(bytes),
           \A i \in 1..Len(Encode[value]) : bytes[i] = Encode[value][i]
    PROVE  DecodeVbi(bytes) = [status |-> "Ok", value |-> value,
                               length |-> Len(Encode[value])]
<1>. DEFINE n == EncodedLen(value)
            B == VbiBase
<1>1. B \in Nat /\ B >= 2 /\ value \in Nat
  BY VbiBaseAssumption
<1>2. /\ n \in 1..4 /\ Len(Encode[value]) = n /\ n <= Len(bytes)
      /\ Encode[value] = [i \in 1..n |-> RoundByte(Rest(value)[i])]
  BY EncodeBytes, LenIsRounds
<1>3. \A i \in 1..n : bytes[i] = RoundByte(Rest(value)[i])
  BY <1>2
<1>4. /\ Rest(value)[n] < B /\ \A i \in 1..(n - 1) : Rest(value)[i] >= B
  BY LenIsRounds
<1>5. \A i \in 1..4 : Rest(value)[i] \in Nat
  BY RestDigits
<1>6. \A i \in 1..3 :
         /\ Rest(value)[i + 1] = Rest(value)[i] \div B
         /\ Rest(value)[i] = B * Rest(value)[i + 1] + (Rest(value)[i] % B)
  BY RestDigits
<1>7. Rest(value)[1] = value
  BY RestDigits
<1>. HIDE DEF n
<1>8. EndsAt(bytes, n)
  <2>1. bytes[n] < B
    BY <1>2, <1>3, <1>4 DEF RoundByte
  <2>2. ASSUME NEW i \in 1..(n - 1) PROVE bytes[i] >= B
    <3>1. i \in 1..n /\ i \in 1..4 /\ Rest(value)[i] >= B /\ Rest(value)[i] \in Nat
      BY <1>2, <1>4, <1>5
    <3>2. Rest(value)[i] % B \in 0..(B - 1)
      BY <3>1, DivStep
    <3>. QED BY <1>1, <1>3, <3>1, <3>2 DEF RoundByte
  <2>. QED BY <1>2, <2>1, <2>2 DEF EndsAt
<1>. DEFINE v == DigitsValue(bytes, n)
<1>9. v \in 0..VbiMax /\ v \in Nat /\ \A i \in 1..4 : Rest(v)[i] % B = Digit(bytes, n, i)
  BY <1>2, DigitsRest
<1>10. ASSUME NEW i \in 1..4 PROVE Rest(value)[i] % B = Digit(bytes, n, i)
  <2>1. CASE i <= n
    <3>1. i \in 1..n
      BY <1>2, <2>1
    <3>2. bytes[i] \in VbiBytes /\ bytes[i] = RoundByte(Rest(value)[i])
      BY <1>2, <1>3, <3>1
    <3>3. CASE Rest(value)[i] < B
      BY <2>1, <3>2, <3>3 DEF RoundByte, Digit
    <3>4. CASE ~(Rest(value)[i] < B)
      <4>1. bytes[i] = (Rest(value)[i] % B) + B * 1
        BY <1>1, <1>5, <3>2, <3>4 DEF RoundByte
      <4>2. Rest(value)[i] % B \in 0..(B - 1)
        BY <1>5, DivStep
      <4>3. bytes[i] % B = Rest(value)[i] % B
        BY <4>1, <4>2, DivUnique
      <4>. QED BY <2>1, <4>3 DEF Digit
    <3>. QED BY <3>3, <3>4
  <2>2. CASE ~(i <= n)
    <3>1. Rest(value)[n + 1] = 0
      <4>1. n \in 1..3
        BY <1>2, <2>2
      <4>2. Rest(value)[n] = Rest(value)[n] + B * 0 /\ Rest(value)[n] \in 0..(B - 1)
        BY <1>1, <1>2, <1>4, <1>5
      <4>3. Rest(value)[n] \div B = 0
        BY <4>2, DivUnique
      <4>. QED BY <1>6, <4>1, <4>3
    <3>2. 0 \div B = 0 /\ 0 % B = 0
      <4>1. 0 = 0 + B * 0 /\ 0 \in 0..(B - 1)
        BY <1>1
      <4>. QED BY <4>1, DivUnique
    <3>3. n \in 1..3 /\ i \in 2..4
      BY <1>2, <2>2
    <3>4. Rest(value)[i] = 0
      <4>1. CASE i = n + 1
        BY <3>1, <4>1
      <4>2. CASE i = n + 2
        <5>1. n + 1 \in 1..3 /\ i = (n + 1) + 1
          BY <3>3, <4>2
        <5>. QED BY <1>6, <3>1, <3>2, <5>1
      <4>3. CASE i = n + 3
        <5>1. n = 1 /\ i = 4
          BY <3>3, <4>3
        <5>2. Rest(value)[2] = 0
          BY <3>1, <5>1
        <5>3. Rest(value)[3] = 0
          BY <1>6, <3>2, <5>2
        <5>. QED BY <1>6, <3>2, <5>1, <5>3
      <4>. QED BY <2>2, <3>3, <4>1, <4>2, <4>3
    <3>. QED BY <2>2, <3>2, <3>4 DEF Digit
  <2>. QED BY <2>1, <2>2
<1>11. ASSUME NEW u \in 0..VbiMax
       PROVE  u = (Rest(u)[1] % B) + B * ((Rest(u)[2] % B)
                      + B * ((Rest(u)[3] % B) + B * (Rest(u)[4] % B)))
  BY DigitsOfValue
<1>12. v = value
  <2>1. /\ Rest(v)[1] % B = Rest(value)[1] % B /\ Rest(v)[2] % B = Rest(value)[2] % B
        /\ Rest(v)[3] % B = Rest(value)[3] % B /\ Rest(v)[4] % B = Rest(value)[4] % B
    BY <1>9, <1>10
  <2>. HIDE DEF v
  <2>2. v = (Rest(v)[1] % B) + B * ((Rest(v)[2] % B)
                      + B * ((Rest(v)[3] % B) + B * (Rest(v)[4] % B)))
    BY <1>9, <1>11
  <2>3. value = (Rest(value)[1] % B) + B * ((Rest(value)[2] % B)
                      + B * ((Rest(value)[3] % B) + B * (Rest(value)[4] % B)))
    BY <1>11
  <2>. QED BY <2>1, <2>2, <2>3
<1>13. DecodeVbi(bytes) = IF n = EncodedLen(v)
                          THEN [status |-> "Ok", value |-> v, length |-> n]
                          ELSE VbiError("MalformedPacket")
  BY <1>8, DecodeCases
<1>. QED BY <1>2, <1>12, <1>13 DEF n

(***************************************************************************)
(* The integer that ends in one of two beginnings of a stream ends in the  *)
(* other, too.                                                             *)
(***************************************************************************)
LEMMA VbiStableOneWay ==
    ASSUME NEW x \in Seq(VbiBytes), NEW y \in Seq(VbiBytes), NEW n \in 1..4, EndsAt(x, n),
           \A i \in 1..4 : i <= Len(x) /\ i <= Len(y) => x[i] = y[i],
           DecodeVbi(y).status # "InsufficientData"
    PROVE  DecodeVbi(x) = DecodeVbi(y)
<1>1. Len(x) \in Nat /\ Len(y) \in Nat /\ n <= Len(x)
  BY DEF EndsAt
<1>2. n <= Len(y)
  <2>1. CASE \E m \in 1..4 : EndsAt(y, m)
    <3>1. PICK m \in 1..4 : EndsAt(y, m)
      BY <2>1
    <3>2. CASE m < n
      <4>1. m \in 1..(n - 1) /\ m <= Len(x) /\ m <= Len(y)
        BY <1>1, <3>1, <3>2 DEF EndsAt
      <4>2. x[m] = y[m]
        BY <4>1
      <4>3. x[m] \in VbiBytes
        BY <1>1, <4>1
      <4>4. x[m] >= VbiBase /\ y[m] < VbiBase
        BY <3>1, <4>1 DEF EndsAt
      <4>. QED BY <4>2, <4>3, <4>4, VbiBaseAssumption DEF VbiBytes
    <3>3. CASE ~(m < n)
      BY <1>1, <3>1, <3>3 DEF EndsAt
    <3>. QED BY <3>2, <3>3
  <2>2. CASE ~ \E m \in 1..4 : EndsAt(y, m)
    <3>1. DecodeVbi(y) = VbiError(IF Len(y) >= 4 THEN "MalformedPacket"
                                  ELSE "InsufficientData")
      BY <2>2, DecodeCases
    <3>2. Len(y) >= 4
      BY <3>1 DEF VbiError
    <3>. QED BY <1>1, <3>2
  <2>. QED BY <2>1, <2>2
<1>3. ASSUME NEW i \in 1..n PROVE x[i] = y[i]
  <2>1. i \in 1..4 /\ i <= Len(x) /\ i <= Len(y)
    BY <1>1, <1>2
  <2>. QED BY <2>1
<1>4. EndsAt(y, n)
  BY <1>2, <1>3 DEF EndsAt
<1>5. DigitsValue(x, n) = DigitsValue(y, n)
  <2>1. \A i \in 1..4 : DigitValue(x, n, i) = DigitValue(y, n, i)
    BY <1>3 DEF DigitValue
  <2>. QED BY <2>1 DEF DigitsValue
<1>6. \A z \in {x, y} :
         DecodeVbi(z) = IF n = EncodedLen(DigitsValue(z, n))
                        THEN [status |-> "Ok", value |-> DigitsValue(z, n), length |-> n]
                        ELSE VbiError("MalformedPacket")
  BY <1>4, DecodeCases
<1>. QED BY <1>5, <1>6

(***************************************************************************)
(* What decode answers to a prefix of a stream stays its answer when more  *)
(* of it is there, unless it asked for more.                               *)
(***************************************************************************)
LEMMA VbiStable ==
    ASSUME NEW a \in Seq(VbiBytes), NEW b \in Seq(VbiBytes),
           \A i \in 1..4 : i <= Len(a) /\ i <= Len(b) => a[i] = b[i],
           DecodeVbi(a).status # "InsufficientData",
           DecodeVbi(b).status # "InsufficientData"
    PROVE  DecodeVbi(a) = DecodeVbi(b)
<1>0. Len(a) \in Nat /\ Len(b) \in Nat
  OBVIOUS
<1>1. ASSUME NEW n \in 1..4, EndsAt(a, n) PROVE DecodeVbi(a) = DecodeVbi(b)
  BY <1>1, VbiStableOneWay
<1>5. ASSUME NEW n \in 1..4, EndsAt(b, n) PROVE DecodeVbi(a) = DecodeVbi(b)
  <2>1. \A i \in 1..4 : i <= Len(b) /\ i <= Len(a) => b[i] = a[i]
    OBVIOUS
  <2>2. DecodeVbi(b) = DecodeVbi(a)
    BY <1>5, <2>1, VbiStableOneWay
  <2>. QED BY <2>2
<1>2. CASE \E n \in 1..4 : EndsAt(a, n)
  BY <1>1, <1>2
<1>3. CASE \E n \in 1..4 : EndsAt(b, n)
  BY <1>5, <1>3
<1>4. CASE ~(\E n \in 1..4 : EndsAt(a, n)) /\ ~(\E n \in 1..4 : EndsAt(b, n))
  <2>1. DecodeVbi(a) = VbiError(IF Len(a) >= 4 THEN "MalformedPacket"
                                ELSE "InsufficientData")
    BY <1>4, DecodeCases
  <2>2. DecodeVbi(b) = VbiError(IF Len(b) >= 4 THEN "MalformedPacket"
                                ELSE "InsufficientData")
    BY <1>4, DecodeCases
  <2>. QED BY <2>1, <2>2 DEF VbiError
<1>. QED BY <1>2, <1>3, <1>4

(***************************************************************************)
(* The three answers of decode.                                            *)
(***************************************************************************)
LEMMA VbiStatus ==
    ASSUME NEW bytes \in Seq(VbiBytes)
    PROVE  DecodeVbi(bytes).status \in {"Ok", "MalformedPacket", "InsufficientData"}
<1>1. CASE \E n \in 1..4 : EndsAt(bytes, n)
  <2>1. PICK n \in 1..4 : EndsAt(bytes, n)
    BY <1>1
  <2>2. DecodeVbi(bytes) = IF n = EncodedLen(DigitsValue(bytes, n))
                           THEN [status |-> "Ok", value |-> DigitsValue(bytes, n),
                                 length |-> n]
                           ELSE VbiError("MalformedPacket")
    BY <2>1, DecodeCases
  <2>. QED BY <2>2 DEF VbiError
<1>2. CASE ~ \E n \in 1..4 : EndsAt(bytes, n)
  <2>1. DecodeVbi(bytes) = VbiError(IF Len(bytes) >= 4 THEN "MalformedPacket"
                                    ELSE "InsufficientData")
    BY <1>2, DecodeCases
  <2>. QED BY <2>1 DEF VbiError
<1>. QED BY <1>1, <1>2

(***************************************************************************)
(* An integer that is complete stays what it is when bytes follow.         *)
(***************************************************************************)
LEMMA VbiExtend ==
    ASSUME NEW a \in Seq(VbiBytes), NEW b \in Seq(VbiBytes), Len(a) <= Len(b),
           \A i \in 1..Len(a) : b[i] = a[i],
           DecodeVbi(a).status = "Ok"
    PROVE  /\ DecodeVbi(b).status = "Ok"
           /\ DecodeVbi(b).value = DecodeVbi(a).value
           /\ DecodeVbi(b).length = DecodeVbi(a).length
<1>. DEFINE n == DecodeVbi(a).length
            v == DecodeVbi(a).value
<1>1. n \in 1..4 /\ n <= Len(a) /\ v \in 0..VbiMax /\ SubSeq(a, 1, n) = Encode[v]
  BY VbiCanonical
<1>. HIDE DEF n, v
<1>2. Len(a) \in Nat /\ Len(b) \in Nat
  OBVIOUS
<1>3. Len(SubSeq(a, 1, n)) = n /\ \A i \in 1..n : SubSeq(a, 1, n)[i] = a[i]
  BY <1>1, <1>2
<1>4. Len(Encode[v]) = n /\ n <= Len(b) /\ \A i \in 1..n : b[i] = Encode[v][i]
  BY <1>1, <1>2, <1>3
<1>5. DecodeVbi(b) = [status |-> "Ok", value |-> v, length |-> n]
  BY <1>1, <1>4, VbiRoundTrip
<1>. QED BY <1>5 DEF n, v

-----------------------------------------------------------------------------
(***************************************************************************)
(* Memory                                                                  *)
(***************************************************************************)

\* The types the argument needs: bytes, an offset, the lengths of the phase
DecoderTypes ==
    /\ buf \in Seq(VbiBytes)
    /\ wire \in Seq(VbiBytes)
    /\ bufOffset \in Nat
    /\ maxPacketSize \in LimitChoices
    /\ phase.name = "Payload" =>
          phase.rlenLen \in Nat /\ phase.remainingLength \in Nat

MemoryInv == DecoderTypes /\ MemoryBounded

(***************************************************************************)
(* DecodeVbi, the decode of the remaining length, returns natural numbers. *)
(***************************************************************************)
LEMMA DecodeVbiType ==
    ASSUME NEW bytes \in Seq(VbiBytes)
    PROVE  DecodeVbi(bytes).value \in Nat /\ DecodeVbi(bytes).length \in Nat
<1>. DEFINE F == FinalPositions(bytes)
            least == CHOOSE i \in F : \A j \in F : i <= j
<1>1. CASE F = {}
  BY <1>1 DEF DecodeVbi, VbiError
<1>2. CASE F # {}
  <2>1. \E i \in F : \A j \in F : i <= j
    BY <1>2 DEF FinalPositions, VbiMaxLen
  <2>2. least \in F
    BY <2>1
  <2>3. least \in 1..4 /\ least <= Len(bytes)
    BY <2>2 DEF FinalPositions, VbiMaxLen
  <2>. HIDE DEF least, F
  <2>4. ASSUME NEW i \in 1..4
        PROVE  DigitValue(bytes, least, i) \in Nat
    <3>1. Multiplier[i] \in Nat
      BY VbiBaseAssumption DEF Multiplier
    <3>2. CASE i <= least
      <4>1. i \in 1..Len(bytes)
        BY <2>3, <3>2, Len(bytes) \in Nat
      <4>2. bytes[i] \in VbiBytes
        BY <4>1
      <4>3. bytes[i] % VbiBase \in Nat
        BY <4>2, VbiBaseAssumption DEF VbiBytes
      <4>. QED BY <3>1, <3>2, <4>3 DEF DigitValue
    <3>3. CASE ~(i <= least)
      BY <3>3 DEF DigitValue
    <3>. QED BY <3>2, <3>3
  <2>5. DigitsValue(bytes, least) \in Nat
    BY <2>4 DEF DigitsValue
  <2>6. DecodeVbi(bytes) = IF least = EncodedLen(DigitsValue(bytes, least))
                           THEN [status |-> "Ok", value |-> DigitsValue(bytes, least),
                                 length |-> least]
                           ELSE VbiError("MalformedPacket")
    BY <1>2, Zenon DEF DecodeVbi, least, F
  <2>. QED BY <2>3, <2>5, <2>6 DEF VbiError
<1>. QED BY <1>1, <1>2

(***************************************************************************)
(* The phase that the header of the next packet leads to has its types.    *)
(***************************************************************************)
LEMMA HeaderType ==
    ASSUME DecoderTypes, bufOffset <= Len(buf)
    PROVE  Header.phase.name = "Payload" =>
              Header.phase.rlenLen \in Nat /\ Header.phase.remainingLength \in Nat
<1>1. PendingFrom(2) \in Seq(VbiBytes)
  BY DEF PendingFrom, DecoderTypes
<1>. DEFINE vbi == DecodeVbi(PendingFrom(2))
<1>2. vbi.value \in Nat /\ vbi.length \in Nat
  BY <1>1, DecodeVbiType
<1>. HIDE DEF vbi
<1>3. CASE phase.name = "Payload"
  BY <1>3 DEF Header, DecoderTypes
<1>4. CASE phase.name # "Payload"
  <2>1. Header = HeaderOutcome
    BY <1>4 DEF Header
  <2>2. \/ HeaderOutcome.phase \in {phase, RemainingLength, FixedHeader}
        \/ HeaderOutcome.phase = [name |-> "Payload", rlenLen |-> vbi.length,
                                  remainingLength |-> vbi.value]
    BY DEF HeaderOutcome, vbi
  <2>. QED BY <1>2, <1>4, <2>1, <2>2 DEF RemainingLength, FixedHeader
<1>. QED BY <1>3, <1>4

(***************************************************************************)
(* At the beginning the buffer is empty.                                   *)
(***************************************************************************)
LEMMA MemoryInit == Init => MemoryInv
BY StreamAssumption
   DEF Init, DecoderInit, MemoryInv, DecoderTypes, MemoryBounded, PendingLen,
       FixedHeader, MaxPacketOverhead

(***************************************************************************)
(* Every step of the decoder and of its environment keeps the bound.       *)
(***************************************************************************)
LEMMA MemoryStep == MemoryInv /\ [Next]_vars => MemoryInv'
<1>. SUFFICES ASSUME MemoryInv, [Next]_vars PROVE MemoryInv'
  OBVIOUS
<1>. USE DEF MemoryInv, MemoryBounded, PendingLen, MaxPacketOverhead
<1>0. /\ bufOffset \in Nat /\ Len(buf) \in Nat /\ bufOffset <= Len(buf)
      /\ LimitChoices \subseteq Nat
  BY StreamAssumption DEF DecoderTypes
<1>1. ASSUME NEW frame \in Frames, Send(frame) PROVE MemoryInv'
  <2>1. frame \in Seq(VbiBytes)
    BY StreamAssumption
  <2>. QED BY <1>1, <2>1 DEF Send, decoderVars, DecoderTypes
<1>2. ASSUME NEW n \in 1..MaxChunk, Read(n) PROVE MemoryInv'
  <2>. DEFINE data == SubSeq(wire, 1, n)
  <2>1. n \in Nat /\ n <= Len(wire) /\ wire \in Seq(VbiBytes)
    BY <1>2, StreamAssumption DEF Read, DecoderTypes
  <2>2. data \in Seq(VbiBytes) /\ Len(data) = n
    BY <2>1
  <2>3. SubSeq(wire, n + 1, Len(wire)) \in Seq(VbiBytes)
    BY <2>1
  <2>. HIDE DEF data
  <2>4. /\ buf' = buf \o data
        /\ bufOffset' = bufOffset /\ phase' = phase
        /\ maxPacketSize' = maxPacketSize
        /\ Len(buf) - bufOffset + Len(data) <= maxPacketSize + (1 + 4)
        /\ wire' = SubSeq(wire, n + 1, Len(wire))
    BY <1>2 DEF Read, Feed, MayFeed, data
  <2>5. buf' \in Seq(VbiBytes) /\ Len(buf') = Len(buf) + n
    <3>1. buf \in Seq(VbiBytes)
      BY DEF DecoderTypes
    <3>2. buf \o data \in Seq(VbiBytes) /\ Len(buf \o data) = Len(buf) + n
      BY <2>2, <3>1
    <3>. QED BY <2>4, <3>2
  <2>6. DecoderTypes'
    BY <2>3, <2>4, <2>5 DEF DecoderTypes
  <2>7. maxPacketSize' \in LimitChoices /\ maxPacketSize \in Nat
    BY <1>0, <2>4 DEF DecoderTypes
  <2>8. bufOffset' <= Len(buf') - bufOffset'
    BY <1>0, <2>1, <2>4, <2>5
  <2>9. Len(buf') - bufOffset' <= maxPacketSize' + (1 + 4)
    BY <1>0, <2>1, <2>2, <2>4, <2>5, <2>7
  <2>. QED BY <2>6, <2>7, <2>8, <2>9
<1>3. CASE TakePacket
  <2>1. PICK header \in {Header} : DecodeFrame(header)
    BY <1>3 DEF TakePacket
  <2>. DEFINE end == bufOffset + PacketLen(header.phase)
  <2>2. header.phase.rlenLen \in Nat /\ header.phase.remainingLength \in Nat
    BY <2>1, <1>0, HeaderType DEF DecodeFrame, FrameComplete
  <2>3. end \in Nat /\ bufOffset <= end /\ end <= Len(buf)
    <3>1. PacketLen(header.phase) \in Nat
      BY <2>2 DEF PacketLen
    <3>2. Len(buf) - bufOffset >= PacketLen(header.phase)
      BY <2>1 DEF DecodeFrame, FrameComplete
    <3>. QED BY <1>0, <3>1, <3>2
  <2>4. AdvanceAndCompact(end) /\ phase' = FixedHeader
        /\ maxPacketSize' = maxPacketSize /\ wire' = wire
    BY <1>3, <2>1 DEF TakePacket, DecodeFrame
  <2>. HIDE DEF end
  <2>5. buf \in Seq(VbiBytes)
    BY DEF DecoderTypes
  <2>6. PICK limit \in LimitChoices : Len(buf) - bufOffset <= limit + (1 + 4)
    OBVIOUS
  <2>7. CASE end > Len(buf) \div 2
    <3>1. buf' = SubSeq(buf, end + 1, Len(buf)) /\ bufOffset' = 0
      BY <2>4, <2>7 DEF AdvanceAndCompact
    <3>2. buf' \in Seq(VbiBytes) /\ Len(buf') = Len(buf) - end
      BY <1>0, <2>3, <2>5, <3>1
    <3>3. DecoderTypes'
      BY <2>4, <3>1, <3>2 DEF DecoderTypes, FixedHeader
    <3>4. Len(buf') \in Nat /\ Len(buf') <= Len(buf) - bufOffset /\ limit \in Nat
      BY <1>0, <2>3, <3>2
    <3>5. Len(buf') - 0 <= limit + (1 + 4)
      <4>1. Len(buf) - bufOffset \in Int /\ limit + (1 + 4) \in Int
        BY <1>0, <3>4
      <4>. QED BY <2>6, <3>4, <4>1
    <3>6. 0 <= Len(buf') - 0
      BY <3>4
    <3>. QED BY <3>1, <3>3, <3>5, <3>6
  <2>8. CASE ~(end > Len(buf) \div 2)
    <3>1. buf' = buf /\ bufOffset' = end
      BY <2>4, <2>8 DEF AdvanceAndCompact
    <3>2. end <= Len(buf) - end
      BY <1>0, <2>3, <2>8
    <3>. QED BY <1>0, <2>3, <2>4, <2>6, <3>1, <3>2 DEF DecoderTypes, FixedHeader
  <2>. QED BY <2>7, <2>8
<1>4. CASE TakeHeaderError
  BY <1>0, <1>4 DEF TakeHeaderError, DecodeHeaderFails, DecoderTypes, FixedHeader
<1>5. CASE TakeNothing
  <2>1. PICK header \in {Header} : DecodeNone(header)
    BY <1>5 DEF TakeNothing
  <2>2. /\ UNCHANGED <<buf, bufOffset, maxPacketSize, wire>>
        /\ phase' = Header.phase
    BY <1>5, <2>1 DEF TakeNothing, DecodeNone, streamVars
  <2>. QED BY <1>0, <2>2, HeaderType DEF DecoderTypes
<1>6. ASSUME NEW limit \in LimitChoices, ChangeLimits(limit) PROVE MemoryInv'
  BY <1>6 DEF ChangeLimits, SetLimits, streamVars, DecoderTypes
<1>7. CASE UNCHANGED vars
  BY <1>7 DEF vars, decoderVars, streamVars, DecoderTypes
<1>. QED BY <1>1, <1>2, <1>3, <1>4, <1>5, <1>6, <1>7 DEF Next, ReadSome, Decode

(***************************************************************************)
(* The buffer of the decoder (feed, maybe_compact) never holds more unread *)
(* bytes than one packet with its header, nor more dead than unread bytes. *)
(***************************************************************************)
THEOREM DecoderMemoryBounded == Spec => []MemoryBounded
<1>1. Init => MemoryInv
  BY MemoryInit
<1>2. MemoryInv /\ [Next]_vars => MemoryInv'
  BY MemoryStep
<1>3. MemoryInv => MemoryBounded
  BY DEF MemoryInv
<1>. QED BY <1>1, <1>2, <1>3, PTL DEF Spec

-----------------------------------------------------------------------------
(***************************************************************************)
(* The stream: what the decoder has still to read is what was sent and not *)
(* reported.                                                               *)
(***************************************************************************)

(***************************************************************************)
(* The bytes a reader of the stream has still before it                    *)
(***************************************************************************)
Pending == SubSeq(buf, bufOffset + 1, Len(buf))
Unread == Pending \o wire

\* pos[i] is the number of bytes in the first i frames, and the bytes before
\* the reader are those of the frames that were not reported yet.
FramedBy(pos) ==
    /\ pos \in [0..Len(sent) -> Nat]
    /\ \A i, j \in 0..Len(sent) : i <= j => pos[i] <= pos[j]
    /\ \A i \in 1..Len(sent) : pos[i] = pos[i - 1] + Len(sent[i])
    /\ Len(out) <= Len(sent)
    /\ pos[Len(sent)] = pos[Len(out)] + Len(Unread)
    /\ \A i \in (Len(out) + 1)..Len(sent) : \A k \in 1..Len(sent[i]) :
          Unread[(pos[i - 1] - pos[Len(out)]) + k] = sent[i][k]

Framed == \E pos : FramedBy(pos)

\* What the phase says of the bytes before the reader
PhaseDecoded ==
    \/ phase \in {FixedHeader, RemainingLength}
    \/ /\ phase = [name |-> "Payload", rlenLen |-> DecodeVbi(PendingFrom(2)).length,
                   remainingLength |-> DecodeVbi(PendingFrom(2)).value]
       /\ DecodeVbi(PendingFrom(2)).status = "Ok"
       /\ PacketLen(phase) <= maxPacketSize

StreamTypes ==
    /\ buf \in Seq(VbiBytes)
    /\ bufOffset \in 0..Len(buf)
    /\ maxPacketSize \in LimitChoices
    /\ sent \in Seq(Frames)
    /\ wire \in Seq(VbiBytes)
    /\ out \in Seq([result : Results, frame : Seq(VbiBytes)])
    /\ closed \in BOOLEAN

StreamInv ==
    /\ StreamTypes
    /\ PhaseDecoded
    /\ FramesAsSent
    /\ ~closed => Framed

(***************************************************************************)
(* decode refuses a remaining length that does not end or is longer than   *)
(* need be: the quotient that the last digit stands for would be zero, but *)
(* encode goes on only while it is not.                                    *)
(***************************************************************************)
LEMMA BadLengthRefused ==
    ASSUME NEW frame \in Seq(VbiBytes), frame # << >>, BadLength(frame)
    PROVE  DecodeVbi(Tail(frame)).status = "MalformedPacket"
<1>. DEFINE t == Tail(frame)
<1>1. t \in Seq(VbiBytes) /\ Len(t) = Len(frame) - 1 /\ Len(t) \in Nat
      /\ \A k \in 1..Len(t) : t[k] = frame[1 + k]
  OBVIOUS
<1>2. PICK n \in 1..4 :
         /\ 1 + n <= Len(frame)
         /\ \A i \in 1..(n - 1) : frame[1 + i] >= VbiBase
         /\ \/ n = 4 /\ frame[1 + n] >= VbiBase
            \/ n > 1 /\ frame[1 + n] = 0
  BY DEF BadLength, VbiMaxLen
<1>. HIDE DEF t
<1>3. n <= Len(t) /\ t[n] = frame[1 + n] /\ \A i \in 1..(n - 1) : t[i] >= VbiBase
  BY <1>1, <1>2
<1>4. CASE n = 4 /\ frame[1 + n] >= VbiBase
  <2>1. \A i \in 1..4 : t[i] >= VbiBase
    BY <1>3, <1>4
  <2>2. ~ \E k \in 1..4 : EndsAt(t, k)
    <3>1. \A i \in 1..4 : t[i] \in VbiBytes
      BY <1>1, <1>3, <1>4
    <3>2. \A i \in 1..4 : t[i] \in Nat
      BY <3>1, VbiBaseAssumption DEF VbiBytes
    <3>. QED BY <2>1, <3>2, VbiBaseAssumption DEF EndsAt
  <2>3. DecodeVbi(t) = VbiError("MalformedPacket")
    BY <1>1, <1>3, <1>4, <2>2, DecodeCases
  <2>. QED BY <2>3 DEF VbiError, t
<1>5. CASE n > 1 /\ frame[1 + n] = 0
  <2>. DEFINE v == DigitsValue(t, n)
  <2>1. EndsAt(t, n)
    BY <1>1, <1>3, <1>5, VbiBaseAssumption DEF EndsAt
  <2>2. v \in 0..VbiMax /\ Rest(v)[n] % VbiBase = t[n] % VbiBase
    <3>1. v \in 0..VbiMax /\ \A i \in 1..4 : Rest(v)[i] % VbiBase = Digit(t, n, i)
      BY <1>1, <1>3, DigitsRest
    <3>. QED BY <3>1 DEF Digit
  <2>. HIDE DEF v
  <2>3. ASSUME n = EncodedLen(v) PROVE FALSE
    <3>1. Rest(v)[n] < VbiBase /\ Rest(v)[n - 1] >= VbiBase /\ n - 1 \in 1..3
      BY <1>5, <2>2, <2>3, LenIsRounds
    <3>2. /\ Rest(v)[n] \in Nat /\ Rest(v)[n - 1] \in Nat
          /\ Rest(v)[n - 1] = VbiBase * Rest(v)[n] + (Rest(v)[n - 1] % VbiBase)
      <4>1. v \in Nat
        BY <2>2
      <4>2. \A i \in 1..3 : Rest(v)[i] = VbiBase * Rest(v)[i + 1] + (Rest(v)[i] % VbiBase)
        BY <4>1, RestDigits
      <4>3. \A i \in 1..4 : Rest(v)[i] \in Nat
        BY <4>1, RestDigits
      <4>4. (n - 1) + 1 = n /\ n - 1 \in 1..4
        BY <3>1
      <4>. QED BY <3>1, <4>2, <4>3, <4>4
    <3>3. Rest(v)[n] \in VbiBytes /\ t[n] \in VbiBytes /\ t[n] = 0
      BY <1>3, <1>5, <3>1, <3>2, VbiBaseAssumption DEF VbiBytes
    <3>4. Rest(v)[n] = 0
      BY <2>2, <3>1, <3>3, ByteDigit, VbiBaseAssumption
    <3>. DEFINE x == Rest(v)[n - 1]
                e == x % VbiBase
    <3>5. x \in Nat /\ x >= VbiBase /\ x = VbiBase * 0 + e
      BY <3>1, <3>2, <3>4
    <3>6. e \in 0..(VbiBase - 1)
      BY <3>5, DivStep
    <3>. HIDE DEF x, e
    <3>. QED BY <3>5, <3>6, VbiBaseAssumption
  <2>4. DecodeVbi(t) = VbiError("MalformedPacket")
    BY <1>1, <2>1, <2>3, DecodeCases DEF v
  <2>. QED BY <2>4 DEF VbiError, t
<1>. QED BY <1>2, <1>4, <1>5

(***************************************************************************)
(* A frame by itself: decode finds its remaining length, or an error.      *)
(***************************************************************************)
LEMMA FrameHeader ==
    ASSUME NEW frame \in Frames
    PROVE  /\ frame \in Seq(VbiBytes) /\ Len(frame) >= 1
           /\ Tail(frame) \in Seq(VbiBytes) /\ Len(Tail(frame)) = Len(frame) - 1
           /\ \A k \in 1..(Len(frame) - 1) : Tail(frame)[k] = frame[k + 1]
           /\ \/ /\ WellFormed(frame)
                 /\ DecodeVbi(Tail(frame)).status = "Ok"
                 /\ Len(frame) = 1 + DecodeVbi(Tail(frame)).length
                                   + DecodeVbi(Tail(frame)).value
              \/ /\ ~WellFormed(frame)
                 /\ DecodeVbi(Tail(frame)).status = "MalformedPacket"
<1>1. frame \in Seq(VbiBytes) /\ frame # << >>
  BY StreamAssumption
<1>2. Len(frame) \in Nat /\ Len(frame) >= 1
  BY <1>1
<1>. DEFINE t == Tail(frame)
<1>3. t \in Seq(VbiBytes) /\ Len(t) = Len(frame) - 1
      /\ \A k \in 1..(Len(frame) - 1) : t[k] = frame[k + 1]
  BY <1>1, <1>2
<1>4. CASE WellFormed(frame)
  <2>1. PICK n \in 1..4 : /\ Len(frame) - 1 - n \in 0..VbiMax
                          /\ SubSeq(frame, 2, 1 + n) = Encode[Len(frame) - 1 - n]
    BY <1>4 DEF WellFormed, VbiMaxLen
  <2>. DEFINE v == Len(frame) - 1 - n
  <2>2. Len(SubSeq(frame, 2, 1 + n)) = n
        /\ \A i \in 1..n : SubSeq(frame, 2, 1 + n)[i] = frame[i + 1]
    BY <1>1, <1>2, <2>1
  <2>3. Len(Encode[v]) = n /\ \A i \in 1..n : Encode[v][i] = t[i]
    BY <1>2, <1>3, <2>1, <2>2
  <2>4. n <= Len(t)
    BY <1>2, <1>3, <2>1
  <2>. HIDE DEF v, t
  <2>5. DecodeVbi(t) = [status |-> "Ok", value |-> v, length |-> n]
    BY <1>3, <2>1, <2>3, <2>4, VbiRoundTrip DEF v
  <2>6. Len(frame) = 1 + n + v
    BY <1>2, <2>1 DEF v
  <2>. QED BY <1>1, <1>2, <1>3, <1>4, <2>5, <2>6 DEF t
<1>5. CASE ~WellFormed(frame)
  <2>1. DecodeVbi(t).status = "MalformedPacket"
    BY <1>1, <1>5, FramesAssumption, BadLengthRefused
  <2>. QED BY <1>1, <1>2, <1>3, <1>5, <2>1
<1>. QED BY <1>4, <1>5

(***************************************************************************)
(* A concatenation, position by position                                   *)
(***************************************************************************)
LEMMA Concatenation ==
    ASSUME NEW s \in Seq(VbiBytes), NEW t \in Seq(VbiBytes)
    PROVE  /\ s \o t \in Seq(VbiBytes)
           /\ Len(s) \in Nat /\ Len(t) \in Nat
           /\ Len(s \o t) = Len(s) + Len(t)
           /\ \A k \in 1..Len(s) : (s \o t)[k] = s[k]
           /\ \A k \in 1..Len(t) : (s \o t)[Len(s) + k] = t[k]
OBVIOUS

(***************************************************************************)
(* The reader has the bytes that were fed, then those on the wire.         *)
(***************************************************************************)
LEMMA UnreadBytes ==
    ASSUME StreamTypes
    PROVE  /\ PendingLen \in Nat
           /\ Pending \in Seq(VbiBytes) /\ Len(Pending) = PendingLen
           /\ \A k \in 1..PendingLen : Pending[k] = buf[bufOffset + k]
           /\ Unread \in Seq(VbiBytes) /\ Len(Unread) = PendingLen + Len(wire)
           /\ \A k \in 1..PendingLen : Unread[k] = Pending[k]
           /\ \A k \in 1..Len(wire) : Unread[PendingLen + k] = wire[k]
           /\ PendingFrom(2) \in Seq(VbiBytes)
           /\ PendingLen >= 1 => Len(PendingFrom(2)) = PendingLen - 1
           /\ \A k \in 1..(PendingLen - 1) : PendingFrom(2)[k] = Pending[k + 1]
<1>. USE DEF StreamTypes
<1>1. /\ buf \in Seq(VbiBytes) /\ Len(buf) \in Nat /\ bufOffset \in 0..Len(buf)
      /\ PendingLen = Len(buf) - bufOffset /\ PendingLen \in Nat
  BY DEF PendingLen
<1>2. Pending \in Seq(VbiBytes) /\ Len(Pending) = PendingLen
      /\ \A k \in 1..PendingLen : Pending[k] = buf[bufOffset + k]
  BY <1>1 DEF Pending
<1>3. Unread \in Seq(VbiBytes) /\ Len(Unread) = PendingLen + Len(wire)
      /\ (\A k \in 1..PendingLen : Unread[k] = Pending[k])
      /\ (\A k \in 1..Len(wire) : Unread[PendingLen + k] = wire[k])
  <2>1. wire \in Seq(VbiBytes)
    OBVIOUS
  <2>. HIDE DEF StreamTypes
  <2>2. /\ Pending \o wire \in Seq(VbiBytes)
        /\ Len(Pending \o wire) = Len(Pending) + Len(wire)
        /\ \A k \in 1..Len(Pending) : (Pending \o wire)[k] = Pending[k]
        /\ \A k \in 1..Len(wire) : (Pending \o wire)[Len(Pending) + k] = wire[k]
    BY <1>2, <2>1, Concatenation
  <2>. QED BY <1>2, <2>2, Zenon DEF Unread
<1>4. PendingFrom(2) \in Seq(VbiBytes)
      /\ (PendingLen >= 1 => Len(PendingFrom(2)) = PendingLen - 1)
      /\ (\A k \in 1..(PendingLen - 1) : PendingFrom(2)[k] = buf[bufOffset + (k + 1)])
  BY <1>1 DEF PendingFrom
<1>5. \A k \in 1..(PendingLen - 1) : PendingFrom(2)[k] = Pending[k + 1]
  BY <1>1, <1>2, <1>4
<1>. QED BY <1>1, <1>2, <1>3, <1>4, <1>5

(***************************************************************************)
(* As long as there are bytes, they begin with the next frame.             *)
(***************************************************************************)
LEMMA NextFrame ==
    ASSUME StreamTypes, NEW pos, FramedBy(pos), Len(Unread) >= 1
    PROVE  /\ Len(out) + 1 \in 1..Len(sent)
           /\ sent[Len(out) + 1] \in Frames
           /\ Len(sent[Len(out) + 1]) <= Len(Unread)
           /\ pos[Len(out) + 1] = pos[Len(out)] + Len(sent[Len(out) + 1])
           /\ \A k \in 1..Len(sent[Len(out) + 1]) : Unread[k] = sent[Len(out) + 1][k]
<1>1. Len(out) \in Nat /\ Len(sent) \in Nat /\ Len(Unread) \in Nat
  BY UnreadBytes DEF StreamTypes
<1>2. pos \in [0..Len(sent) -> Nat] /\ Len(out) <= Len(sent)
      /\ pos[Len(sent)] = pos[Len(out)] + Len(Unread)
  BY DEF FramedBy
<1>3. pos[Len(out)] \in Nat /\ Len(out) # Len(sent)
  BY <1>1, <1>2
<1>. DEFINE m == Len(out) + 1
<1>4. m \in 1..Len(sent) /\ m - 1 = Len(out) /\ m \in 0..Len(sent)
  BY <1>1, <1>2, <1>3
<1>5. sent[m] \in Frames
  BY <1>4 DEF StreamTypes
<1>6. Len(sent[m]) \in Nat
  BY <1>5, FrameHeader
<1>. HIDE DEF m
<1>7. pos[m] = pos[m - 1] + Len(sent[m])
  BY <1>4 DEF FramedBy
<1>8. pos[m] <= pos[Len(sent)]
  BY <1>1, <1>4 DEF FramedBy
<1>9. Len(sent[m]) <= Len(Unread)
  BY <1>1, <1>2, <1>3, <1>4, <1>6, <1>7, <1>8
<1>10. ASSUME NEW k \in 1..Len(sent[m]) PROVE Unread[k] = sent[m][k]
  <2>1. m \in (Len(out) + 1)..Len(sent)
    BY <1>1, <1>4 DEF m
  <2>2. Unread[(pos[m - 1] - pos[Len(out)]) + k] = sent[m][k]
    BY <2>1 DEF FramedBy
  <2>3. (pos[m - 1] - pos[Len(out)]) + k = k
    BY <1>3, <1>4, <1>6
  <2>. QED BY <2>2, <2>3
<1>. QED BY <1>4, <1>5, <1>7, <1>9, <1>10 DEF m

(***************************************************************************)
(* What decode reads as the remaining length is that of the next frame.    *)
(***************************************************************************)
LEMMA NextHeader ==
    ASSUME StreamTypes, NEW pos, FramedBy(pos), PendingLen >= 1,
           DecodeVbi(PendingFrom(2)).status # "InsufficientData"
    PROVE  DecodeVbi(PendingFrom(2)) = DecodeVbi(Tail(sent[Len(out) + 1]))
<1>. DEFINE f == sent[Len(out) + 1]
            p == PendingFrom(2)
<1>1. /\ PendingLen \in Nat /\ Len(Unread) >= 1
      /\ p \in Seq(VbiBytes) /\ Len(p) = PendingLen - 1
      /\ \A k \in 1..(PendingLen - 1) : p[k] = Unread[k + 1]
  <2>1. PendingLen \in Nat /\ Len(Unread) = PendingLen + Len(wire) /\ Len(wire) \in Nat
    BY UnreadBytes DEF StreamTypes
  <2>2. p \in Seq(VbiBytes) /\ Len(p) = PendingLen - 1
        /\ \A k \in 1..(PendingLen - 1) : p[k] = Pending[k + 1]
    BY UnreadBytes
  <2>3. \A k \in 1..PendingLen : Unread[k] = Pending[k]
    BY UnreadBytes
  <2>4. ASSUME NEW k \in 1..(PendingLen - 1) PROVE p[k] = Unread[k + 1]
    <3>1. k + 1 \in 1..PendingLen
      BY <2>1
    <3>. QED BY <2>2, <2>3, <3>1
  <2>. QED BY <2>1, <2>2, <2>4
<1>2. f \in Frames /\ \A k \in 1..Len(f) : Unread[k] = f[k]
  BY <1>1, NextFrame
<1>. HIDE DEF f, p
<1>3. /\ Tail(f) \in Seq(VbiBytes) /\ Len(Tail(f)) = Len(f) - 1 /\ Len(f) \in Nat
      /\ \A k \in 1..(Len(f) - 1) : Tail(f)[k] = f[k + 1]
      /\ DecodeVbi(Tail(f)).status # "InsufficientData"
  BY <1>2, FrameHeader
<1>4. ASSUME NEW i \in 1..4, i <= Len(p), i <= Len(Tail(f)) PROVE p[i] = Tail(f)[i]
  <2>1. i \in 1..(PendingLen - 1) /\ i \in 1..(Len(f) - 1) /\ i + 1 \in 1..Len(f)
    BY <1>1, <1>3, <1>4
  <2>. QED BY <1>1, <1>2, <1>3, <2>1
<1>5. DecodeVbi(p).status # "InsufficientData"
  BY DEF p
<1>6. DecodeVbi(p) = DecodeVbi(Tail(f))
  BY <1>1, <1>3, <1>4, <1>5, VbiStable
<1>. QED BY <1>6 DEF f, p

(***************************************************************************)
(* A header that was read to its end: the Payload phase remembers what     *)
(* decode read, within the limit.                                          *)
(***************************************************************************)
LEMMA HeaderPayload ==
    ASSUME StreamTypes, PhaseDecoded, Header.error = "None", Header.phase.name = "Payload"
    PROVE  /\ DecodeVbi(PendingFrom(2)).status = "Ok"
           /\ Header.phase = [name |-> "Payload",
                              rlenLen |-> DecodeVbi(PendingFrom(2)).length,
                              remainingLength |-> DecodeVbi(PendingFrom(2)).value]
           /\ PacketLen(Header.phase) <= maxPacketSize
           /\ PacketLen(Header.phase) \in Nat
           /\ PendingLen >= 1
<1>. DEFINE vbi == DecodeVbi(PendingFrom(2))
<1>1. PendingFrom(2) \in Seq(VbiBytes) /\ PendingLen \in Nat
  BY UnreadBytes
<1>2. vbi.status \in {"Ok", "MalformedPacket", "InsufficientData"}
  BY <1>1, VbiStatus
<1>3. maxPacketSize \in Nat
  BY StreamAssumption DEF StreamTypes
<1>. HIDE DEF vbi
<1>4. /\ vbi.status = "Ok"
      /\ Header.phase = [name |-> "Payload", rlenLen |-> vbi.length,
                         remainingLength |-> vbi.value]
      /\ \/ ~(PacketLen(Header.phase) > maxPacketSize)
         \/ PacketLen(Header.phase) <= maxPacketSize
  <2>1. CASE phase.name = "Payload"
    BY <2>1 DEF Header, PhaseDecoded, FixedHeader, RemainingLength, vbi
  <2>2. CASE phase.name # "Payload"
    <3>1. Header = HeaderOutcome
      BY <2>2 DEF Header
    <3>2. PendingLen # 0 /\ ~(PendingLen = 1 \/ vbi.status = "InsufficientData")
      BY <2>2, <3>1 DEF HeaderOutcome, RemainingLength, vbi
    <3>3. ~(vbi.status = "MalformedPacket" \/ 1 + vbi.length + vbi.value > maxPacketSize)
      BY <3>1, <3>2 DEF HeaderOutcome, FixedHeader, vbi
    <3>4. HeaderOutcome = [error |-> "None",
                           phase |-> [name |-> "Payload", rlenLen |-> vbi.length,
                                      remainingLength |-> vbi.value]]
      BY <3>2, <3>3 DEF HeaderOutcome, vbi
    <3>. QED BY <1>2, <3>1, <3>2, <3>3, <3>4 DEF PacketLen
  <2>. QED BY <2>1, <2>2
<1>5. vbi.length \in 1..4 /\ vbi.value \in 0..VbiMax /\ vbi.length <= Len(PendingFrom(2))
  BY <1>1, <1>4, VbiCanonical DEF vbi
<1>6. PacketLen(Header.phase) \in Nat
  BY <1>4, <1>5 DEF PacketLen
<1>7. PendingLen >= 1
  <2>1. CASE PendingLen = 0
    <3>1. Len(PendingFrom(2)) = 0
      BY <2>1 DEF PendingFrom, PendingLen, StreamTypes
    <3>. QED BY <1>5, <3>1
  <2>. QED BY <1>1, <2>1
<1>. QED BY <1>3, <1>4, <1>6, <1>7 DEF vbi

(***************************************************************************)
(* A header that is wrong: decode saw its error, or a packet above the     *)
(* limit.                                                                  *)
(***************************************************************************)
LEMMA HeaderWrong ==
    ASSUME StreamTypes, PhaseDecoded, Header.error # "None"
    PROVE  /\ PendingLen >= 1
           /\ \/ /\ DecodeVbi(PendingFrom(2)).status = "MalformedPacket"
                 /\ Header.error = "MalformedPacket"
              \/ /\ DecodeVbi(PendingFrom(2)).status = "Ok"
                 /\ Header.error = "PacketTooLarge"
                 /\ 1 + DecodeVbi(PendingFrom(2)).length + DecodeVbi(PendingFrom(2)).value
                      > maxPacketSize
<1>. DEFINE vbi == DecodeVbi(PendingFrom(2))
<1>1. PendingFrom(2) \in Seq(VbiBytes) /\ PendingLen \in Nat
  BY UnreadBytes
<1>2. vbi.status \in {"Ok", "MalformedPacket", "InsufficientData"}
  BY <1>1, VbiStatus
<1>. HIDE DEF vbi
<1>3. Header = HeaderOutcome
  BY DEF Header
<1>4. PendingLen # 0 /\ ~(PendingLen = 1 \/ vbi.status = "InsufficientData")
  BY <1>3 DEF HeaderOutcome, vbi
<1>5. vbi.status = "MalformedPacket" \/ 1 + vbi.length + vbi.value > maxPacketSize
  BY <1>3, <1>4 DEF HeaderOutcome, vbi
<1>6. Header.error = IF vbi.status = "Ok" THEN "PacketTooLarge" ELSE vbi.status
  BY <1>3, <1>4, <1>5 DEF HeaderOutcome, vbi
<1>. QED BY <1>1, <1>2, <1>4, <1>5, <1>6 DEF vbi

(***************************************************************************)
(* At the beginning nothing was sent and nothing read.                     *)
(***************************************************************************)
LEMMA StreamStart == Init => StreamInv
<1>. SUFFICES ASSUME Init PROVE StreamInv
  OBVIOUS
<1>1. /\ buf = << >> /\ bufOffset = 0 /\ phase = FixedHeader /\ maxPacketSize \in LimitChoices
      /\ sent = << >> /\ wire = << >> /\ out = << >> /\ closed = FALSE
  BY DEF Init, DecoderInit
<1>2. StreamTypes
  <2>1. buf \in Seq(VbiBytes) /\ bufOffset \in 0..Len(buf) /\ wire \in Seq(VbiBytes)
    BY <1>1
  <2>2. sent \in Seq(Frames)
    BY <1>1
  <2>4. closed \in BOOLEAN
    BY <1>1
  <2>3. out \in Seq([result : Results, frame : Seq(VbiBytes)])
    BY <1>1
  <2>. QED BY <1>1, <2>1, <2>2, <2>3, <2>4 DEF StreamTypes
<1>3. PhaseDecoded
  BY <1>1 DEF PhaseDecoded
<1>4. FramesAsSent
  BY <1>1 DEF FramesAsSent
<1>5. Framed
  <2>. DEFINE pos == [i \in 0..0 |-> 0]
  <2>1. Len(Unread) = 0
    BY <1>1, <1>2, UnreadBytes DEF PendingLen
  <2>2. FramedBy(pos)
    BY <1>1, <2>1 DEF FramedBy
  <2>. QED BY <2>2 DEF Framed
<1>. QED BY <1>2, <1>3, <1>4, <1>5 DEF StreamInv

(***************************************************************************)
(* Sequences of bytes are equal when they agree at every position.         *)
(***************************************************************************)
LEMMA SameBytes ==
    ASSUME NEW a \in Seq(VbiBytes), NEW b \in Seq(VbiBytes), Len(a) = Len(b),
           \A k \in 1..Len(a) : a[k] = b[k]
    PROVE  a = b
OBVIOUS

(***************************************************************************)
(* Concatenation is associative.                                           *)
(***************************************************************************)
LEMMA ConcatAssoc ==
    ASSUME NEW a \in Seq(VbiBytes), NEW b \in Seq(VbiBytes), NEW c \in Seq(VbiBytes)
    PROVE  (a \o b) \o c = a \o (b \o c)
OBVIOUS

(***************************************************************************)
(* A sequence cut in two: the parts, and that they make the whole.         *)
(***************************************************************************)
LEMMA SplitAt ==
    ASSUME NEW s \in Seq(VbiBytes), NEW n \in 0..Len(s)
    PROVE  /\ SubSeq(s, 1, n) \in Seq(VbiBytes) /\ Len(SubSeq(s, 1, n)) = n
           /\ SubSeq(s, n + 1, Len(s)) \in Seq(VbiBytes)
           /\ Len(SubSeq(s, n + 1, Len(s))) = Len(s) - n
           /\ \A k \in 1..(Len(s) - n) : SubSeq(s, n + 1, Len(s))[k] = s[n + k]
           /\ SubSeq(s, 1, n) \o SubSeq(s, n + 1, Len(s)) = s
<1>1. Len(s) \in Nat
  OBVIOUS
<1>2. /\ SubSeq(s, 1, n) \in Seq(VbiBytes) /\ Len(SubSeq(s, 1, n)) = n
      /\ \A k \in 1..n : SubSeq(s, 1, n)[k] = s[k]
  BY <1>1
<1>3. /\ SubSeq(s, n + 1, Len(s)) \in Seq(VbiBytes)
      /\ Len(SubSeq(s, n + 1, Len(s))) = Len(s) - n
      /\ \A k \in 1..(Len(s) - n) : SubSeq(s, n + 1, Len(s))[k] = s[n + k]
  BY <1>1
<1>. DEFINE a == SubSeq(s, 1, n)
            b == SubSeq(s, n + 1, Len(s))
<1>4. a \in Seq(VbiBytes) /\ b \in Seq(VbiBytes) /\ Len(a) = n /\ Len(b) = Len(s) - n
  BY <1>2, <1>3
<1>5. /\ \A k \in 1..n : a[k] = s[k]
      /\ \A k \in 1..(Len(s) - n) : b[k] = s[n + k]
  BY <1>2, <1>3
<1>. HIDE DEF a, b
<1>6. Len(a \o b) = Len(s) /\ a \o b \in Seq(VbiBytes)
  BY <1>1, <1>4
<1>7. ASSUME NEW k \in 1..Len(s) PROVE (a \o b)[k] = s[k]
  <2>1. CASE k <= n
    BY <1>1, <1>4, <1>5, <2>1
  <2>2. CASE ~(k <= n)
    <3>1. k - n \in 1..(Len(s) - n) /\ k = n + (k - n)
      BY <1>1, <2>2
    <3>2. (a \o b)[n + (k - n)] = b[k - n]
      BY <1>1, <1>4, <3>1, Concatenation
    <3>3. b[k - n] = s[n + (k - n)]
      BY <1>5, <3>1
    <3>. QED BY <3>1, <3>2, <3>3
  <2>. QED BY <2>1, <2>2
<1>8. a \o b = s
  <2>. DEFINE c == a \o b
  <2>1. c \in Seq(VbiBytes) /\ Len(c) = Len(s) /\ \A k \in 1..Len(c) : c[k] = s[k]
    BY <1>6, <1>7
  <2>. HIDE DEF c
  <2>2. c = s
    BY <2>1, SameBytes
  <2>. QED BY <2>2 DEF c
<1>. QED BY <1>2, <1>3, <1>8 DEF a, b

(***************************************************************************)
(* What follows a position of a concatenation.                             *)
(***************************************************************************)
LEMMA ConcatTail ==
    ASSUME NEW s \in Seq(VbiBytes), NEW t \in Seq(VbiBytes), NEW n \in 0..Len(s)
    PROVE  SubSeq(s \o t, n + 1, Len(s \o t)) = SubSeq(s, n + 1, Len(s)) \o t
<1>. DEFINE a == SubSeq(s \o t, n + 1, Len(s \o t))
            h == SubSeq(s, n + 1, Len(s))
            b == h \o t
<1>1. /\ Len(s) \in Nat /\ Len(t) \in Nat /\ s \o t \in Seq(VbiBytes)
      /\ Len(s \o t) = Len(s) + Len(t) /\ n \in 0..Len(s \o t)
  BY Concatenation
<1>2. h \in Seq(VbiBytes) /\ Len(h) = Len(s) - n
      /\ \A k \in 1..(Len(s) - n) : h[k] = s[n + k]
  BY SplitAt
<1>3. a \in Seq(VbiBytes) /\ Len(a) = (Len(s) + Len(t)) - n
      /\ \A k \in 1..((Len(s) + Len(t)) - n) : a[k] = (s \o t)[n + k]
  <2>1. a \in Seq(VbiBytes) /\ Len(a) = Len(s \o t) - n
      /\ \A k \in 1..(Len(s \o t) - n) : a[k] = (s \o t)[n + k]
    BY <1>1, SplitAt
  <2>. QED BY <1>1, <2>1
<1>. HIDE DEF h, a
<1>4. b \in Seq(VbiBytes) /\ Len(b) = (Len(s) + Len(t)) - n
  <2>1. b \in Seq(VbiBytes) /\ Len(b) = Len(h) + Len(t)
    BY <1>2, Concatenation
  <2>. QED BY <1>1, <1>2, <2>1
<1>5. ASSUME NEW k \in 1..((Len(s) + Len(t)) - n) PROVE a[k] = b[k]
  <2>1. CASE k <= Len(s) - n
    <3>1. k \in 1..Len(h) /\ n + k \in 1..Len(s) /\ k \in 1..(Len(s) - n)
      BY <1>1, <1>2, <2>1
    <3>2. b[k] = h[k] /\ (s \o t)[n + k] = s[n + k]
      BY <1>2, <3>1, Concatenation
    <3>. QED BY <1>2, <1>3, <3>1, <3>2
  <2>2. CASE ~(k <= Len(s) - n)
    <3>. DEFINE j == k - (Len(s) - n)
    <3>1. j \in 1..Len(t) /\ k = Len(h) + j /\ n + k = Len(s) + j
      BY <1>1, <1>2, <2>2
    <3>. HIDE DEF j
    <3>2. b[Len(h) + j] = t[j] /\ (s \o t)[Len(s) + j] = t[j]
      BY <1>2, <3>1, Concatenation
    <3>. QED BY <1>3, <3>1, <3>2
  <2>. QED BY <2>1, <2>2
<1>. HIDE DEF b
<1>6. a = b
  BY <1>3, <1>4, <1>5, SameBytes
<1>. QED BY <1>6 DEF a, b, h

(***************************************************************************)
(* The decoder's part of the state stands still.                           *)
(***************************************************************************)
LEMMA PhaseStands ==
    ASSUME PhaseDecoded, UNCHANGED decoderVars
    PROVE  PhaseDecoded' /\ Pending' = Pending /\ PendingLen' = PendingLen
BY DEF PhaseDecoded, decoderVars, PendingFrom, Pending, PendingLen

(***************************************************************************)
(* A frame that is sent is appended to what the reader has before it.      *)
(***************************************************************************)
LEMMA SendStep ==
    ASSUME StreamInv, NEW frame \in Frames, Send(frame)
    PROVE  StreamInv'
<1>1. /\ sent' = Append(sent, frame) /\ wire' = wire \o frame
      /\ UNCHANGED <<buf, bufOffset, phase, maxPacketSize, out, closed>>
  BY DEF Send, decoderVars
<1>2. frame \in Seq(VbiBytes) /\ Len(frame) \in Nat
  BY FrameHeader
<1>3. StreamTypes
  BY DEF StreamInv
<1>4. wire \in Seq(VbiBytes) /\ sent \in Seq(Frames) /\ Len(sent) \in Nat
      /\ out \in Seq([result : Results, frame : Seq(VbiBytes)]) /\ Len(out) \in Nat
  BY <1>3 DEF StreamTypes
<1>5. wire' \in Seq(VbiBytes)
  BY <1>1, <1>2, <1>4, Concatenation
<1>6. sent' \in Seq(Frames) /\ Len(sent') = Len(sent) + 1
      /\ (\A i \in 1..Len(sent) : sent'[i] = sent[i]) /\ sent'[Len(sent) + 1] = frame
  BY <1>1, <1>4
<1>7. StreamTypes'
  BY <1>1, <1>3, <1>5, <1>6 DEF StreamTypes
<1>8. PhaseDecoded' /\ Pending' = Pending
  BY <1>1, PhaseStands DEF StreamInv, decoderVars
<1>9. FramesAsSent'
  <2>1. DOMAIN sent = 1..Len(sent) /\ DOMAIN sent' = 1..(Len(sent) + 1)
    BY <1>4, <1>6
  <2>2. \A i \in DOMAIN out : i \in DOMAIN sent' /\ sent'[i] = sent[i]
    BY <1>4, <1>6, <2>1 DEF StreamInv, FramesAsSent
  <2>. QED BY <1>1, <2>2 DEF StreamInv, FramesAsSent
<1>10. ASSUME ~closed' PROVE Framed'
  <2>1. PICK pos : FramedBy(pos)
    BY <1>1, <1>10 DEF StreamInv, Framed
  <2>. DEFINE N == Len(sent)
              u == Unread
              next == [i \in 0..(N + 1) |-> IF i <= N THEN pos[i] ELSE pos[N] + Len(frame)]
  <2>2. Unread' = u \o frame
    <3>1. Pending \in Seq(VbiBytes)
      BY <1>3, UnreadBytes
    <3>2. Pending \o (wire \o frame) = (Pending \o wire) \o frame
      BY <1>2, <1>4, <3>1, ConcatAssoc
    <3>. QED BY <1>1, <1>8, <3>2 DEF Unread
  <2>3. u \in Seq(VbiBytes) /\ Len(u) \in Nat
    BY <1>3, UnreadBytes
  <2>4. /\ Len(u \o frame) = Len(u) + Len(frame)
        /\ (\A k \in 1..Len(u) : (u \o frame)[k] = u[k])
        /\ (\A k \in 1..Len(frame) : (u \o frame)[Len(u) + k] = frame[k])
    BY <1>2, <2>3, Concatenation
  <2>5. /\ pos \in [0..N -> Nat]
        /\ Len(out) \in 0..N /\ N \in 0..N
        /\ pos[N] = pos[Len(out)] + Len(u)
    BY <1>4, <2>1 DEF FramedBy
  <2>a. \A i, j \in 0..N : i <= j => pos[i] <= pos[j]
    BY <2>1 DEF FramedBy
  <2>b. \A i \in 1..N : pos[i] = pos[i - 1] + Len(sent[i])
    BY <2>1 DEF FramedBy
  <2>6. \A i \in (Len(out) + 1)..N : \A k \in 1..Len(sent[i]) :
           u[(pos[i - 1] - pos[Len(out)]) + k] = sent[i][k]
    BY <2>1 DEF FramedBy
  <2>7. \A i \in 0..N : pos[i] \in Nat
    BY <2>5
  <2>. HIDE DEF u
  <2>8. next \in [0..(N + 1) -> Nat]
    BY <1>2, <1>4, <2>7
  <2>9. /\ \A i \in 0..N : next[i] = pos[i]
        /\ next[N + 1] = pos[N] + Len(frame)
    BY <1>4
  <2>. HIDE DEF next
  <2>10. \A i, j \in 0..(N + 1) : i <= j => next[i] <= next[j]
    <3>. SUFFICES ASSUME NEW i \in 0..(N + 1), NEW j \in 0..(N + 1), i <= j
                  PROVE  next[i] <= next[j]
      OBVIOUS
    <3>1. CASE j \in 0..N
      <4>1. i \in 0..N
        BY <1>4, <3>1
      <4>. QED BY <2>a, <2>9, <3>1, <4>1
    <3>2. CASE j = N + 1 /\ i \in 0..N
      <4>1. pos[i] <= pos[N]
        BY <1>4, <2>5, <2>a, <3>2
      <4>2. pos[i] \in Nat /\ pos[N] \in Nat
        BY <2>5, <2>7, <3>2
      <4>. QED BY <1>2, <2>9, <3>2, <4>1, <4>2
    <3>3. CASE j = N + 1 /\ i = N + 1
      <4>1. pos[N] \in Nat
        BY <2>5, <2>7
      <4>. QED BY <1>2, <2>9, <3>3, <4>1
    <3>. QED BY <1>4, <3>1, <3>2, <3>3
  <2>11. \A i \in 1..(N + 1) : next[i] = next[i - 1] + Len(sent'[i])
    <3>. SUFFICES ASSUME NEW i \in 1..(N + 1) PROVE next[i] = next[i - 1] + Len(sent'[i])
      OBVIOUS
    <3>1. CASE i \in 1..N
      <4>1. i \in 0..N /\ i - 1 \in 0..N
        BY <1>4, <3>1
      <4>2. next[i] = pos[i] /\ next[i - 1] = pos[i - 1] /\ sent'[i] = sent[i]
        BY <1>6, <2>9, <3>1, <4>1
      <4>. QED BY <2>b, <3>1, <4>2
    <3>2. CASE i = N + 1
      BY <1>4, <1>6, <2>9, <3>2
    <3>. QED BY <1>4, <3>1, <3>2
  <2>12. next[N + 1] = next[Len(out)] + Len(Unread')
    <3>1. next[Len(out)] = pos[Len(out)] /\ pos[Len(out)] \in Nat
      BY <2>5, <2>7, <2>9
    <3>. QED BY <1>2, <2>2, <2>3, <2>4, <2>5, <2>9, <3>1
  <2>13. ASSUME NEW i \in (Len(out) + 1)..(N + 1), NEW k \in 1..Len(sent'[i])
         PROVE  Unread'[(next[i - 1] - next[Len(out)]) + k] = sent'[i][k]
    <3>1. next[Len(out)] = pos[Len(out)] /\ i - 1 \in 0..N /\ next[i - 1] = pos[i - 1]
      BY <1>4, <2>5, <2>9
    <3>2. /\ pos[Len(out)] <= pos[i - 1]
          /\ pos[i - 1] \in Nat /\ pos[Len(out)] \in Nat /\ pos[N] \in Nat
      <4>1. Len(out) <= i - 1
        BY <1>4
      <4>. QED BY <2>5, <2>7, <2>a, <3>1, <4>1
    <3>3. CASE i \in 1..N
      <4>1. sent'[i] = sent[i] /\ sent[i] \in Frames /\ Len(sent[i]) \in Nat
        BY <1>4, <1>6, <3>3, FrameHeader
      <4>2. u[(pos[i - 1] - pos[Len(out)]) + k] = sent[i][k]
        BY <2>6, <3>3, <4>1
      <4>3. pos[i] = pos[i - 1] + Len(sent[i]) /\ pos[i] <= pos[N]
        <5>1. i \in 0..N /\ i <= N
          BY <1>4, <3>3
        <5>. QED BY <2>5, <2>a, <2>b, <3>3, <5>1
      <4>4. (pos[i - 1] - pos[Len(out)]) + k \in 1..Len(u)
        <5>1. pos[N] = pos[Len(out)] + Len(u) /\ k \in 1..Len(sent[i])
          BY <2>5, <4>1
        <5>2. \A a, b, l, m \in Nat : \A j \in 1..l :
                 b <= a /\ a + l <= b + m => (a - b) + j \in 1..m
          OBVIOUS
        <5>3. pos[i - 1] + Len(sent[i]) <= pos[Len(out)] + Len(u)
          BY <4>3, <5>1
        <5>. QED BY <2>3, <3>2, <4>1, <5>1, <5>2, <5>3
      <4>. QED BY <2>2, <2>4, <3>1, <4>1, <4>2, <4>4
    <3>4. CASE i = N + 1
      <4>1. sent'[i] = frame /\ i - 1 = N
        BY <1>4, <1>6, <3>4
      <4>2. (pos[i - 1] - pos[Len(out)]) + k = Len(u) + k
        BY <1>2, <2>3, <2>5, <3>2, <4>1
      <4>. QED BY <2>2, <2>4, <3>1, <4>1, <4>2
    <3>. QED BY <1>4, <3>3, <3>4
  <2>14. PICK q : q = next
    OBVIOUS
  <2>15. out' = out /\ Len(sent') = N + 1 /\ Len(out) <= N + 1
    BY <1>1, <1>4, <1>6, <2>5
  <2>16. FramedBy(q)'
    BY <2>8, <2>10, <2>11, <2>12, <2>13, <2>14, <2>15 DEF FramedBy
  <2>. QED BY <2>16 DEF Framed
<1>. QED BY <1>7, <1>8, <1>9, <1>10 DEF StreamInv

(***************************************************************************)
(* Reading and feeding moves bytes from the wire into the buffer: what is  *)
(* before the reader stays the same, however long the chunk.               *)
(***************************************************************************)
LEMMA ReadStep ==
    ASSUME StreamInv, NEW n \in 1..MaxChunk, Read(n)
    PROVE  StreamInv'
<1>. DEFINE data == SubSeq(wire, 1, n)
            rest == SubSeq(wire, n + 1, Len(wire))
<1>1. /\ n <= Len(wire) /\ buf' = buf \o data /\ wire' = rest
      /\ UNCHANGED <<bufOffset, phase, maxPacketSize, sent, out, closed>>
  BY DEF Read, Feed
<1>2. StreamTypes /\ PhaseDecoded /\ FramesAsSent
  BY DEF StreamInv
<1>3. /\ buf \in Seq(VbiBytes) /\ Len(buf) \in Nat /\ bufOffset \in 0..Len(buf)
      /\ wire \in Seq(VbiBytes) /\ Len(wire) \in Nat
  BY <1>2 DEF StreamTypes
<1>4. n \in 0..Len(wire) /\ n \in Nat
  BY <1>1, <1>3, StreamAssumption
<1>5. /\ data \in Seq(VbiBytes) /\ Len(data) = n /\ rest \in Seq(VbiBytes)
      /\ data \o rest = wire
  BY <1>3, <1>4, SplitAt
<1>. HIDE DEF data, rest
<1>6. buf' \in Seq(VbiBytes) /\ Len(buf') = Len(buf) + n
  BY <1>1, <1>3, <1>5, Concatenation
<1>7. StreamTypes'
  <2>1. bufOffset' \in 0..Len(buf')
    BY <1>1, <1>3, <1>4, <1>6
  <2>. QED BY <1>1, <1>2, <1>5, <1>6, <2>1 DEF StreamTypes
<1>8. Pending' = Pending \o data
  BY <1>1, <1>3, <1>5, ConcatTail DEF Pending
<1>9. Unread' = Unread
  <2>1. Pending \in Seq(VbiBytes)
    BY <1>2, UnreadBytes
  <2>2. (Pending \o data) \o rest = Pending \o (data \o rest)
    BY <1>5, <2>1, ConcatAssoc
  <2>. QED BY <1>1, <1>5, <1>8, <2>2 DEF Unread
<1>10. PhaseDecoded'
  <2>1. CASE phase \in {FixedHeader, RemainingLength}
    BY <1>1, <2>1 DEF PhaseDecoded, FixedHeader, RemainingLength
  <2>2. CASE phase \notin {FixedHeader, RemainingLength}
    <3>. DEFINE p == PendingFrom(2)
                q == p \o data
    <3>1. /\ phase = [name |-> "Payload", rlenLen |-> DecodeVbi(p).length,
                      remainingLength |-> DecodeVbi(p).value]
          /\ DecodeVbi(p).status = "Ok"
          /\ PacketLen(phase) <= maxPacketSize
      BY <1>2, <2>2 DEF PhaseDecoded
    <3>2. p \in Seq(VbiBytes)
      BY <1>2, UnreadBytes
    <3>3. PendingLen >= 1
      <4>1. Header.error = "None" /\ Header.phase.name = "Payload"
        BY <3>1 DEF Header
      <4>. QED BY <1>2, <4>1, HeaderPayload
    <3>4. PendingFrom(2)' = q
      <4>1. bufOffset + 1 \in 0..Len(buf)
        BY <1>3, <3>3 DEF PendingLen
      <4>2. SubSeq(buf \o data, (bufOffset + 1) + 1, Len(buf \o data))
              = SubSeq(buf, (bufOffset + 1) + 1, Len(buf)) \o data
        BY <1>3, <1>5, <4>1, ConcatTail
      <4>3. (bufOffset + 1) + 1 = bufOffset + 2
        BY <1>3
      <4>. QED BY <1>1, <4>2, <4>3 DEF PendingFrom
    <3>. HIDE DEF p
    <3>5. /\ q \in Seq(VbiBytes) /\ Len(p) <= Len(q)
          /\ \A i \in 1..Len(p) : q[i] = p[i]
      BY <1>4, <1>5, <3>2, Concatenation
    <3>. HIDE DEF q
    <3>6. /\ DecodeVbi(q).status = "Ok" /\ DecodeVbi(q).value = DecodeVbi(p).value
          /\ DecodeVbi(q).length = DecodeVbi(p).length
      BY <3>1, <3>2, <3>5, VbiExtend
    <3>7. PacketLen(phase)' = PacketLen(phase)
      BY <1>1 DEF PacketLen
    <3>. QED BY <1>1, <3>1, <3>4, <3>6, <3>7 DEF PhaseDecoded
  <2>. QED BY <2>1, <2>2
<1>11. FramesAsSent'
  BY <1>1, <1>2 DEF FramesAsSent
<1>12. ASSUME ~closed' PROVE Framed'
  <2>1. PICK pos : FramedBy(pos)
    BY <1>1, <1>12 DEF StreamInv, Framed
  <2>2. FramedBy(pos)'
    BY <1>1, <1>9, <2>1 DEF FramedBy
  <2>. QED BY <2>2 DEF Framed
<1>. QED BY <1>7, <1>10, <1>11, <1>12 DEF StreamInv

(***************************************************************************)
(* New limits while no packet is incomplete touch neither bytes nor phase. *)
(***************************************************************************)
LEMMA LimitStep ==
    ASSUME StreamInv, NEW limit \in LimitChoices, ChangeLimits(limit)
    PROVE  StreamInv'
<1>1. /\ maxPacketSize' = limit /\ phase.name # "Payload"
      /\ UNCHANGED <<buf, bufOffset, phase, sent, wire, out, closed>>
  BY DEF ChangeLimits, SetLimits, streamVars
<1>2. StreamTypes'
  BY <1>1 DEF StreamInv, StreamTypes
<1>3. PhaseDecoded'
  BY <1>1 DEF StreamInv, PhaseDecoded, FixedHeader, RemainingLength
<1>4. FramesAsSent'
  BY <1>1 DEF StreamInv, FramesAsSent
<1>5. Unread' = Unread
  BY <1>1 DEF Unread, Pending
<1>6. ASSUME ~closed' PROVE Framed'
  <2>1. PICK pos : FramedBy(pos)
    BY <1>1, <1>6 DEF StreamInv, Framed
  <2>2. FramedBy(pos)'
    BY <1>1, <1>5, <2>1 DEF FramedBy
  <2>. QED BY <2>2 DEF Framed
<1>. QED BY <1>2, <1>3, <1>4, <1>6 DEF StreamInv

(***************************************************************************)
(* decode returns Ok(None): it remembers no more than it has read.         *)
(***************************************************************************)
LEMMA NothingStep ==
    ASSUME StreamInv, TakeNothing
    PROVE  StreamInv'
<1>1. PICK header \in {Header} : DecodeNone(header)
  BY DEF TakeNothing
<1>2. /\ Header.error = "None" /\ phase' = Header.phase
      /\ UNCHANGED <<buf, bufOffset, maxPacketSize, sent, wire, out, closed>>
  BY <1>1 DEF DecodeNone, TakeNothing, streamVars
<1>3. StreamTypes'
  BY <1>2 DEF StreamInv, StreamTypes
<1>4. PhaseDecoded'
  <2>1. CASE Header.phase.name = "Payload"
    <3>1. /\ DecodeVbi(PendingFrom(2)).status = "Ok"
          /\ Header.phase = [name |-> "Payload",
                             rlenLen |-> DecodeVbi(PendingFrom(2)).length,
                             remainingLength |-> DecodeVbi(PendingFrom(2)).value]
          /\ PacketLen(Header.phase) <= maxPacketSize
      BY <1>2, <2>1, HeaderPayload DEF StreamInv
    <3>2. PendingFrom(2)' = PendingFrom(2)
      BY <1>2 DEF PendingFrom
    <3>3. PacketLen(phase)' = PacketLen(Header.phase)
      BY <1>2 DEF PacketLen
    <3>. QED BY <1>2, <3>1, <3>2, <3>3 DEF PhaseDecoded
  <2>2. CASE Header.phase.name # "Payload"
    <3>1. Header = HeaderOutcome /\ phase.name # "Payload"
      BY <2>2 DEF Header
    <3>2. phase \in {FixedHeader, RemainingLength}
      BY <3>1 DEF StreamInv, PhaseDecoded
    <3>3. HeaderOutcome.phase \in {phase, RemainingLength, FixedHeader}
      BY <2>2, <3>1 DEF HeaderOutcome
    <3>4. phase' \in {FixedHeader, RemainingLength}
      BY <1>2, <3>1, <3>2, <3>3
    <3>. QED BY <3>4 DEF PhaseDecoded, FixedHeader, RemainingLength
  <2>. QED BY <2>1, <2>2
<1>5. FramesAsSent'
  BY <1>2 DEF StreamInv, FramesAsSent
<1>6. Unread' = Unread
  BY <1>2 DEF Unread, Pending
<1>7. ASSUME ~closed' PROVE Framed'
  <2>1. PICK pos : FramedBy(pos)
    BY <1>2, <1>7 DEF StreamInv, Framed
  <2>2. FramedBy(pos)'
    BY <1>2, <1>6, <2>1 DEF FramedBy
  <2>. QED BY <2>2 DEF Framed
<1>. QED BY <1>3, <1>4, <1>5, <1>7 DEF StreamInv

(***************************************************************************)
(* One more report, of the next frame                                      *)
(***************************************************************************)
LEMMA ReportNext ==
    ASSUME StreamTypes, FramesAsSent, NEW r \in Results, NEW f \in Seq(VbiBytes),
           Report(r, f), sent' = sent, Len(out) + 1 \in 1..Len(sent),
           LET s == sent[Len(out) + 1] IN
              \/ /\ WellFormed(s) /\ r = DecodePacket(s) /\ f = s
                 /\ \E limit \in LimitChoices : Len(s) <= limit
              \/ /\ WellFormed(s) /\ r = "PacketTooLarge" /\ f = << >>
                 /\ \E limit \in LimitChoices : Len(s) > limit
              \/ ~WellFormed(s) /\ r = "MalformedPacket" /\ f = << >>
    PROVE  /\ out' \in Seq([result : Results, frame : Seq(VbiBytes)])
           /\ Len(out') = Len(out) + 1
           /\ FramesAsSent'
<1>. DEFINE o == [result |-> r, frame |-> f]
            m == Len(out) + 1
<1>1. out \in Seq([result : Results, frame : Seq(VbiBytes)]) /\ Len(out) \in Nat
      /\ sent \in Seq(Frames)
  BY DEF StreamTypes
<1>2. o \in [result : Results, frame : Seq(VbiBytes)]
  OBVIOUS
<1>3. out' = Append(out, o)
  BY DEF Report
<1>4. /\ out' \in Seq([result : Results, frame : Seq(VbiBytes)])
      /\ Len(out') = m /\ DOMAIN out' = 1..m
      /\ (\A i \in 1..Len(out) : out'[i] = out[i]) /\ out'[m] = o
  BY <1>1, <1>2, <1>3
<1>5. DOMAIN out = 1..Len(out) /\ DOMAIN sent = 1..Len(sent)
  BY <1>1
<1>6. ASSUME NEW i \in DOMAIN out'
      PROVE  /\ i \in DOMAIN sent
             /\ \/ /\ WellFormed(sent[i])
                   /\ out'[i] = [result |-> DecodePacket(sent[i]), frame |-> sent[i]]
                   /\ \E limit \in LimitChoices : Len(sent[i]) <= limit
                \/ /\ WellFormed(sent[i])
                   /\ out'[i] = [result |-> "PacketTooLarge", frame |-> << >>]
                   /\ \E limit \in LimitChoices : Len(sent[i]) > limit
                \/ /\ ~WellFormed(sent[i])
                   /\ out'[i] = [result |-> "MalformedPacket", frame |-> << >>]
  <2>1. CASE i \in 1..Len(out)
    BY <1>4, <1>5, <2>1 DEF FramesAsSent
  <2>2. CASE i = m
    BY <1>4, <1>5, <2>2
  <2>3. i \in 1..Len(out) \/ i = m
    BY <1>1, <1>4
  <2>. QED BY <2>1, <2>2, <2>3, Zenon
<1>7. FramesAsSent'
  BY <1>6 DEF FramesAsSent
<1>. QED BY <1>4, <1>7

(***************************************************************************)
(* decode returns a packet: it is the next frame that was sent.            *)
(***************************************************************************)
LEMMA PacketStep ==
    ASSUME StreamInv, TakePacket
    PROVE  StreamInv'
<1>1. PICK header \in {Header} : /\ DecodeFrame(header)
                                 /\ Report(DecodePacket(Frame(header)), Frame(header))
  BY DEF TakePacket
<1>2. StreamTypes /\ PhaseDecoded /\ FramesAsSent /\ header = Header
  BY <1>1 DEF StreamInv
<1>3. /\ ~closed /\ closed' = closed /\ sent' = sent /\ wire' = wire
      /\ maxPacketSize' = maxPacketSize /\ phase' = FixedHeader
  BY <1>1 DEF TakePacket, DecodeFrame
<1>. DEFINE L == PacketLen(Header.phase)
            end == bufOffset + L
            s == sent[Len(out) + 1]
            vbi == DecodeVbi(PendingFrom(2))
<1>4. Header.error = "None" /\ Header.phase.name = "Payload" /\ PendingLen >= L
  BY <1>1, <1>2 DEF DecodeFrame, FrameComplete
<1>5. AdvanceAndCompact(end) /\ Report(DecodePacket(Frame(Header)), Frame(Header))
  BY <1>1, <1>2 DEF DecodeFrame
<1>6. PICK pos : FramedBy(pos)
  BY <1>3 DEF StreamInv, Framed
<1>7. /\ vbi.status = "Ok"
      /\ Header.phase = [name |-> "Payload", rlenLen |-> vbi.length,
                         remainingLength |-> vbi.value]
      /\ L <= maxPacketSize /\ L \in Nat /\ PendingLen >= 1
  BY <1>2, <1>4, HeaderPayload
<1>8. /\ buf \in Seq(VbiBytes) /\ Len(buf) \in Nat /\ bufOffset \in 0..Len(buf)
      /\ PendingLen = Len(buf) - bufOffset /\ maxPacketSize \in LimitChoices
      /\ Len(out) \in Nat /\ Len(sent) \in Nat /\ wire \in Seq(VbiBytes)
      /\ sent \in Seq(Frames)
  BY <1>2 DEF StreamTypes, PendingLen
<1>9. /\ PendingLen \in Nat /\ Unread \in Seq(VbiBytes) /\ Len(Unread) >= 1
      /\ Len(Unread) = PendingLen + Len(wire) /\ Len(wire) \in Nat
      /\ Pending \in Seq(VbiBytes) /\ Len(Pending) = PendingLen
      /\ \A k \in 1..PendingLen : Pending[k] = buf[bufOffset + k]
      /\ \A k \in 1..PendingLen : Unread[k] = Pending[k]
  <2>1. /\ PendingLen \in Nat /\ Unread \in Seq(VbiBytes)
        /\ Len(Unread) = PendingLen + Len(wire)
        /\ Pending \in Seq(VbiBytes) /\ Len(Pending) = PendingLen
        /\ \A k \in 1..PendingLen : Pending[k] = buf[bufOffset + k]
        /\ \A k \in 1..PendingLen : Unread[k] = Pending[k]
    BY <1>2, UnreadBytes
  <2>2. Len(wire) \in Nat
    BY <1>8
  <2>. QED BY <1>7, <2>1, <2>2
<1>10. /\ Len(out) + 1 \in 1..Len(sent) /\ s \in Frames
       /\ Len(s) <= Len(Unread)
       /\ pos[Len(out) + 1] = pos[Len(out)] + Len(s)
       /\ \A k \in 1..Len(s) : Unread[k] = s[k]
  BY <1>2, <1>6, <1>9, NextFrame
<1>11. vbi = DecodeVbi(Tail(s))
  BY <1>2, <1>6, <1>7, NextHeader
<1>12. WellFormed(s) /\ Len(s) = L /\ s \in Seq(VbiBytes)
  <2>1. WellFormed(s) /\ Len(s) = 1 + vbi.length + vbi.value /\ s \in Seq(VbiBytes)
    BY <1>7, <1>10, <1>11, FrameHeader
  <2>. QED BY <1>7, <2>1 DEF PacketLen
<1>. HIDE DEF L, s, vbi
<1>13. end \in 0..Len(buf)
  BY <1>4, <1>7, <1>8
<1>14. Frame(Header) = s
  <2>1. Frame(Header) = SubSeq(buf, bufOffset + 1, bufOffset + L)
    BY DEF Frame, L
  <2>. DEFINE g == SubSeq(buf, bufOffset + 1, bufOffset + L)
  <2>2. g \in Seq(VbiBytes) /\ Len(g) = L
        /\ \A k \in 1..L : g[k] = buf[bufOffset + k]
    BY <1>4, <1>7, <1>8, <1>13
  <2>. HIDE DEF g
  <2>3. ASSUME NEW k \in 1..L PROVE g[k] = s[k]
    <3>1. k \in 1..PendingLen /\ k \in 1..Len(s)
      BY <1>4, <1>7, <1>9, <1>12
    <3>. QED BY <1>9, <1>10, <2>2, <3>1
  <2>4. g = s
    BY <1>12, <2>2, <2>3, SameBytes
  <2>. QED BY <2>1, <2>4 DEF g
<1>15. DecodePacket(s) \in Results
  BY <1>10, VerdictAssumption DEF DecodePacket, Results
<1>16. /\ out' \in Seq([result : Results, frame : Seq(VbiBytes)])
       /\ Len(out') = Len(out) + 1 /\ FramesAsSent'
  <2>1. Report(DecodePacket(s), s)
    BY <1>5, <1>14
  <2>2. \E limit \in LimitChoices : Len(s) <= limit
    BY <1>7, <1>8, <1>12
  <2>. QED BY <1>2, <1>3, <1>10, <1>12, <1>15, <2>1, <2>2, ReportNext DEF s
<1>17. /\ buf' \in Seq(VbiBytes) /\ bufOffset' \in 0..Len(buf')
       /\ Pending' = SubSeq(buf, end + 1, Len(buf))
  <2>1. CASE end > Len(buf) \div 2
    <3>. DEFINE b == SubSeq(buf, end + 1, Len(buf))
    <3>1. buf' = b /\ bufOffset' = 0
      BY <1>5, <2>1 DEF AdvanceAndCompact
    <3>2. b \in Seq(VbiBytes) /\ Len(b) \in Nat
      BY <1>8, <1>13, SplitAt
    <3>3. SubSeq(b, 0 + 1, Len(b)) = b
      BY <3>2
    <3>. HIDE DEF b
    <3>4. Pending' = b
      BY <3>1, <3>3 DEF Pending
    <3>5. bufOffset' \in 0..Len(buf')
      BY <3>1, <3>2
    <3>. QED BY <3>1, <3>2, <3>4, <3>5 DEF b
  <2>2. CASE ~(end > Len(buf) \div 2)
    <3>1. buf' = buf /\ bufOffset' = end
      BY <1>5, <2>2 DEF AdvanceAndCompact
    <3>. QED BY <1>8, <1>13, <3>1 DEF Pending
  <2>. QED BY <2>1, <2>2
<1>18. StreamTypes'
  BY <1>2, <1>3, <1>8, <1>16, <1>17 DEF StreamTypes
<1>19. PhaseDecoded'
  BY <1>3 DEF PhaseDecoded, FixedHeader
<1>20. /\ Len(Unread') = Len(Unread) - L
       /\ \A k \in 1..(Len(Unread) - L) : Unread'[k] = Unread[L + k]
  <2>. DEFINE t == SubSeq(Pending, L + 1, Len(Pending))
  <2>1. L \in 0..Len(Pending)
    BY <1>4, <1>7, <1>9
  <2>2. SubSeq(Unread, L + 1, Len(Unread)) = t \o wire
    BY <1>8, <1>9, <2>1, ConcatTail DEF Unread
  <2>3. Pending' = t
    <3>. DEFINE e == SubSeq(buf, end + 1, Len(buf))
    <3>1. /\ e \in Seq(VbiBytes) /\ Len(e) = Len(buf) - end
          /\ \A k \in 1..(Len(buf) - end) : e[k] = buf[end + k]
      BY <1>8, <1>13, SplitAt
    <3>2. /\ t \in Seq(VbiBytes) /\ Len(t) = PendingLen - L
          /\ \A k \in 1..(PendingLen - L) : t[k] = Pending[L + k]
      <4>1. /\ t \in Seq(VbiBytes) /\ Len(t) = Len(Pending) - L
            /\ \A k \in 1..(Len(Pending) - L) : t[k] = Pending[L + k]
        BY <1>9, <2>1, SplitAt
      <4>. QED BY <1>9, <4>1
    <3>. HIDE DEF e, t
    <3>3. Len(e) = Len(t)
      BY <1>7, <1>8, <3>1, <3>2
    <3>4. ASSUME NEW k \in 1..Len(e) PROVE e[k] = t[k]
      <4>1. /\ k \in 1..(Len(buf) - end) /\ k \in 1..(PendingLen - L)
            /\ L + k \in 1..PendingLen /\ end + k = bufOffset + (L + k)
        BY <1>7, <1>8, <1>9, <3>1, <3>2, <3>3
      <4>. QED BY <1>9, <3>1, <3>2, <4>1
    <3>5. e = t
      BY <3>1, <3>2, <3>3, <3>4, SameBytes
    <3>. QED BY <1>17, <3>5 DEF e
  <2>4. Unread' = SubSeq(Unread, L + 1, Len(Unread))
    BY <1>3, <2>2, <2>3 DEF Unread
  <2>5. L \in 0..Len(Unread)
    BY <1>9, <2>1
  <2>. QED BY <1>9, <2>4, <2>5, SplitAt
<1>21. Framed'
  <2>1. /\ pos \in [0..Len(sent) -> Nat]
        /\ pos[Len(sent)] = pos[Len(out)] + Len(Unread)
    BY <1>6 DEF FramedBy
  <2>2. \A i, j \in 0..Len(sent) : i <= j => pos[i] <= pos[j]
    BY <1>6 DEF FramedBy
  <2>3. \A i \in 1..Len(sent) : pos[i] = pos[i - 1] + Len(sent[i])
    BY <1>6 DEF FramedBy
  <2>4. \A i \in (Len(out) + 1)..Len(sent) : \A k \in 1..Len(sent[i]) :
           Unread[(pos[i - 1] - pos[Len(out)]) + k] = sent[i][k]
    BY <1>6 DEF FramedBy
  <2>. DEFINE m == Len(out) + 1
  <2>5. /\ m \in 0..Len(sent) /\ m <= Len(sent) /\ Len(out) \in 0..Len(sent)
        /\ Len(sent) \in 0..Len(sent)
    BY <1>8, <1>10
  <2>6. pos[m] = pos[Len(out)] + L /\ pos[m] \in Nat /\ pos[Len(out)] \in Nat
        /\ pos[Len(sent)] \in Nat
    BY <1>10, <1>12, <2>1, <2>5
  <2>7. pos[Len(sent)] = pos[m] + Len(Unread')
    BY <1>7, <1>9, <1>20, <2>1, <2>6
  <2>8. ASSUME NEW i \in (m + 1)..Len(sent), NEW k \in 1..Len(sent[i])
        PROVE  Unread'[(pos[i - 1] - pos[m]) + k] = sent[i][k]
    <3>1. /\ i \in m..Len(sent) /\ i - 1 \in 0..Len(sent) /\ i \in 0..Len(sent)
          /\ m <= i - 1 /\ i <= Len(sent) /\ i \in 1..Len(sent)
      BY <1>8
    <3>2. pos[m] <= pos[i - 1] /\ pos[i] <= pos[Len(sent)]
      BY <2>2, <2>5, <3>1
    <3>3. pos[i - 1] \in Nat /\ pos[i] \in Nat
      BY <2>1, <3>1
    <3>4. pos[i] = pos[i - 1] + Len(sent[i])
      BY <2>3, <3>1
    <3>5. Len(sent[i]) \in Nat
      <4>1. sent[i] \in Frames
        BY <1>8, <3>1
      <4>. QED BY <4>1, FrameHeader
    <3>. DEFINE x == (pos[i - 1] - pos[m]) + k
    <3>6. x \in 1..(Len(Unread) - L)
      <4>1. \A a, b, l, n \in Nat : \A j \in 1..l :
               b <= a /\ a + l <= b + n => (a - b) + j \in 1..n
        OBVIOUS
      <4>2. Len(Unread') = Len(Unread) - L /\ Len(Unread) - L \in Nat
        BY <1>4, <1>7, <1>9, <1>20
      <4>3. pos[i - 1] + Len(sent[i]) <= pos[m] + (Len(Unread) - L)
        BY <2>7, <3>2, <3>4, <4>2
      <4>. QED BY <2>6, <3>2, <3>3, <3>5, <4>1, <4>2, <4>3
    <3>7. L + x = (pos[i - 1] - pos[Len(out)]) + k
      <4>. DEFINE a == pos[i - 1]
                  b == pos[Len(out)]
      <4>1. a \in Nat /\ b \in Nat /\ L \in Nat /\ k \in Int
        BY <1>7, <2>6, <3>3, <3>5
      <4>2. x = (a - (b + L)) + k
        BY <2>6
      <4>. HIDE DEF a, b, x
      <4>3. L + ((a - (b + L)) + k) = (a - b) + k
        BY <4>1
      <4>4. L + x = (a - b) + k
        BY <4>2, <4>3, Zenon
      <4>. QED BY <4>4, Zenon DEF a, b
    <3>8. Unread[(pos[i - 1] - pos[Len(out)]) + k] = sent[i][k]
      BY <2>4, <3>1
    <3>. HIDE DEF x
    <3>9. Unread'[x] = Unread[L + x]
      BY <1>20, <3>6
    <3>. QED BY <3>7, <3>8, <3>9 DEF x
  <2>9. FramedBy(pos)'
    <3>1. Len(out') = m /\ sent' = sent
      BY <1>3, <1>16
    <3>. HIDE DEF m
    <3>. QED BY <2>1, <2>2, <2>3, <2>5, <2>7, <2>8, <3>1 DEF FramedBy
  <2>. QED BY <2>9 DEF Framed
<1>. QED BY <1>16, <1>18, <1>19, <1>21 DEF StreamInv

(***************************************************************************)
(* decode returns the error of a header: it is that of the next frame.     *)
(***************************************************************************)
LEMMA HeaderErrorStep ==
    ASSUME StreamInv, TakeHeaderError
    PROVE  StreamInv'
<1>1. PICK header \in {Header} : DecodeHeaderFails(header) /\ Report(header.error, << >>)
  BY DEF TakeHeaderError
<1>2. StreamTypes /\ PhaseDecoded /\ FramesAsSent
  BY DEF StreamInv
<1>3. /\ ~closed /\ sent' = sent /\ wire' = wire
      /\ maxPacketSize' = maxPacketSize /\ phase' = FixedHeader
      /\ buf' = << >> /\ bufOffset' = 0
      /\ Header.error # "None" /\ Report(Header.error, << >>)
  BY <1>1 DEF TakeHeaderError, DecodeHeaderFails
<1>a. closed' = TRUE
  BY DEF TakeHeaderError
<1>. DEFINE s == sent[Len(out) + 1]
            vbi == DecodeVbi(PendingFrom(2))
<1>4. PICK pos : FramedBy(pos)
  BY <1>3 DEF StreamInv, Framed
<1>5. /\ PendingLen >= 1
      /\ \/ vbi.status = "MalformedPacket" /\ Header.error = "MalformedPacket"
         \/ /\ vbi.status = "Ok" /\ Header.error = "PacketTooLarge"
            /\ 1 + vbi.length + vbi.value > maxPacketSize
  BY <1>2, <1>3, HeaderWrong
<1>6. Len(Unread) >= 1
  <2>1. PendingLen \in Nat /\ Len(Unread) = PendingLen + Len(wire) /\ Len(wire) \in Nat
    BY <1>2, UnreadBytes DEF StreamTypes
  <2>. QED BY <1>5, <2>1
<1>7. Len(out) + 1 \in 1..Len(sent) /\ s \in Frames
  BY <1>2, <1>4, <1>6, NextFrame
<1>8. vbi = DecodeVbi(Tail(s))
  <2>1. vbi.status # "InsufficientData"
    BY <1>5
  <2>. QED BY <1>2, <1>4, <1>5, <2>1, NextHeader
<1>. HIDE DEF vbi, s
<1>9. \/ WellFormed(s) /\ vbi.status = "Ok" /\ Len(s) = 1 + vbi.length + vbi.value
      \/ ~WellFormed(s) /\ vbi.status = "MalformedPacket"
  BY <1>7, <1>8, FrameHeader
<1>10. \/ /\ WellFormed(s) /\ Header.error = "PacketTooLarge"
          /\ \E limit \in LimitChoices : Len(s) > limit
       \/ ~WellFormed(s) /\ Header.error = "MalformedPacket"
  <2>1. maxPacketSize \in LimitChoices
    BY <1>2 DEF StreamTypes
  <2>. QED BY <1>5, <1>9, <2>1
<1>11. Header.error \in Results /\ << >> \in Seq(VbiBytes)
  BY <1>10 DEF Results
<1>12. /\ out' \in Seq([result : Results, frame : Seq(VbiBytes)])
       /\ FramesAsSent'
  BY <1>2, <1>3, <1>7, <1>10, <1>11, ReportNext DEF s
<1>13. StreamTypes'
  <2>1. buf' \in Seq(VbiBytes) /\ bufOffset' \in 0..Len(buf')
    BY <1>3
  <2>2. closed' \in BOOLEAN
    BY <1>a
  <2>. QED BY <1>2, <1>3, <1>12, <2>1, <2>2 DEF StreamTypes
<1>14. PhaseDecoded'
  BY <1>3 DEF PhaseDecoded, FixedHeader
<1>. QED BY <1>a, <1>12, <1>13, <1>14 DEF StreamInv

(***************************************************************************)
(* Every step of the decoder and of its environment keeps the frames in    *)
(* place.                                                                  *)
(***************************************************************************)
LEMMA StreamStep == StreamInv /\ [Next]_vars => StreamInv'
<1>. SUFFICES ASSUME StreamInv, [Next]_vars PROVE StreamInv'
  OBVIOUS
<1>1. ASSUME NEW frame \in Frames, Send(frame) PROVE StreamInv'
  BY <1>1, SendStep
<1>2. ASSUME NEW n \in 1..MaxChunk, Read(n) PROVE StreamInv'
  BY <1>2, ReadStep
<1>3. CASE TakePacket
  BY <1>3, PacketStep
<1>4. CASE TakeHeaderError
  BY <1>4, HeaderErrorStep
<1>5. CASE TakeNothing
  BY <1>5, NothingStep
<1>6. ASSUME NEW limit \in LimitChoices, ChangeLimits(limit) PROVE StreamInv'
  BY <1>6, LimitStep
<1>7. CASE UNCHANGED vars
  <2>1. UNCHANGED <<buf, bufOffset, phase, maxPacketSize, sent, wire, out, closed>>
    BY <1>7 DEF vars, decoderVars, streamVars
  <2>2. StreamTypes' /\ FramesAsSent'
    BY <2>1 DEF StreamInv, StreamTypes, FramesAsSent
  <2>3. PhaseDecoded' /\ Unread' = Unread
    BY <2>1, PhaseStands DEF StreamInv, decoderVars, Unread
  <2>4. ASSUME ~closed' PROVE Framed'
    <3>1. PICK pos : FramedBy(pos)
      BY <2>1, <2>4 DEF StreamInv, Framed
    <3>2. FramedBy(pos)'
      BY <2>1, <2>3, <3>1 DEF FramedBy
    <3>. QED BY <3>2 DEF Framed
  <2>. QED BY <2>2, <2>3, <2>4 DEF StreamInv
<1>. QED BY <1>1, <1>2, <1>3, <1>4, <1>5, <1>6, <1>7 DEF Next, ReadSome, Decode

(***************************************************************************)
(* The phase is well-typed, and belongs to the bytes at the offset.        *)
(***************************************************************************)
LEMMA StreamPhase == StreamInv => phase \in Phases /\ PhaseMatchesBuffer
<1>. SUFFICES ASSUME StreamInv PROVE phase \in Phases /\ PhaseMatchesBuffer
  OBVIOUS
<1>1. StreamTypes /\ PhaseDecoded
  BY DEF StreamInv
<1>2. CASE phase \in {FixedHeader, RemainingLength}
  BY <1>2 DEF Phases, PhaseMatchesBuffer, FixedHeader, RemainingLength
<1>3. CASE phase \notin {FixedHeader, RemainingLength}
  <2>. DEFINE p == PendingFrom(2)
              n == DecodeVbi(p).length
              v == DecodeVbi(p).value
  <2>1. /\ phase = [name |-> "Payload", rlenLen |-> n, remainingLength |-> v]
        /\ DecodeVbi(p).status = "Ok"
    BY <1>1, <1>3 DEF PhaseDecoded
  <2>2. /\ PendingLen \in Nat /\ p \in Seq(VbiBytes)
        /\ PendingLen >= 1 => Len(p) = PendingLen - 1
    BY <1>1, UnreadBytes
  <2>3. n \in 1..4 /\ n <= Len(p) /\ v \in 0..VbiMax /\ SubSeq(p, 1, n) = Encode[v]
    BY <2>1, <2>2, VbiCanonical
  <2>4. PendingLen >= 1
    <3>1. Header.error = "None" /\ Header.phase.name = "Payload"
      BY <2>1 DEF Header
    <3>. QED BY <1>1, <3>1, HeaderPayload
  <2>. HIDE DEF n, v
  <2>5. SubSeq(buf, bufOffset + 2, bufOffset + 1 + n) = SubSeq(p, 1, n)
    <3>. DEFINE a == SubSeq(buf, bufOffset + 2, bufOffset + 1 + n)
                b == SubSeq(p, 1, n)
    <3>1. /\ buf \in Seq(VbiBytes) /\ Len(buf) \in Nat /\ bufOffset \in 0..Len(buf)
          /\ bufOffset + 1 + n <= Len(buf) /\ n \in Nat
      BY <1>1, <2>2, <2>3, <2>4 DEF StreamTypes, PendingLen
    <3>2. /\ a \in Seq(VbiBytes) /\ Len(a) = n
          /\ \A k \in 1..n : a[k] = buf[(bufOffset + 1) + k]
      BY <3>1
    <3>3. \A k \in 1..Len(p) : p[k] = buf[(bufOffset + 1) + k]
      BY <2>2, <3>1 DEF PendingFrom
    <3>4. /\ b \in Seq(VbiBytes) /\ Len(b) = n
          /\ \A k \in 1..n : b[k] = p[k]
      BY <2>2, <2>3
    <3>. HIDE DEF a, b, p
    <3>5. \A k \in 1..n : a[k] = b[k]
      BY <2>2, <2>3, <3>2, <3>3, <3>4
    <3>6. a = b
      BY <3>2, <3>4, <3>5, SameBytes
    <3>. QED BY <3>6 DEF a, b
  <2>6. phase \in Phases
    BY <2>1, <2>3 DEF Phases, VbiMaxLen
  <2>7. n < PendingLen
    BY <2>2, <2>3, <2>4
  <2>. QED BY <2>1, <2>3, <2>5, <2>6, <2>7 DEF PhaseMatchesBuffer
<1>. QED BY <1>2, <1>3

(***************************************************************************)
(* The decoder (buf, buf_offset, phase) keeps its types: the offset stays  *)
(* within the buffer, the remaining length within MAX, and decode reports  *)
(* nothing but the results of DecodeError.                                 *)
(***************************************************************************)
THEOREM DecoderTypeCorrect == Spec => []TypeOK
<1>1. StreamInv => TypeOK
  BY StreamPhase DEF StreamInv, StreamTypes, TypeOK
<1>. QED BY <1>1, StreamStart, StreamStep, PTL DEF Spec

(***************************************************************************)
(* decode reports the frames that were sent, one for one and in order,     *)
(* whatever the chunks that feed got, the limits and the errors of earlier *)
(* packets: framing does not depend on chunking.                           *)
(***************************************************************************)
THEOREM FramesReportedAsSent == Spec => []FramesAsSent
<1>1. StreamInv => FramesAsSent
  BY DEF StreamInv
<1>. QED BY <1>1, StreamStart, StreamStep, PTL DEF Spec

(***************************************************************************)
(* What DecodePhase::Payload remembers belongs to the bytes at buf_offset, *)
(* across feed and maybe_compact, and is the encoding that encode          *)
(* produces.                                                               *)
(***************************************************************************)
THEOREM PhaseIsOfBuffer == Spec => []PhaseMatchesBuffer
<1>1. StreamInv => PhaseMatchesBuffer
  BY StreamPhase
<1>. QED BY <1>1, StreamStart, StreamStep, PTL DEF Spec

=============================================================================
