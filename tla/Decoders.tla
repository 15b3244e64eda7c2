------------------------------ MODULE Decoders ------------------------------
(***************************************************************************)
(* The decoders of metrics, which the configuration chooses: from the      *)
(* registers of a task to a value.                                         *)
(*                                                                         *)
(* A decoded value is a sequence of numbers: an integer of itself,         *)
(* mantissa and exponent, the bytes which are converted to a float, or     *)
(* nothing when the decoder throws.                                        *)
(***************************************************************************)
EXTENDS Integers, SequencesExt

CONSTANTS
  ByteBase,        \* how many values a byte has; a register has two bytes
  WordRegisters    \* how many registers an int64_t has

\* Bytes have a highest bit
ASSUME DecodingType ==
  /\ ByteBase \in Nat \ {0} /\ ByteBase % 2 = 0
  /\ WordRegisters \in Nat \ {0}

RegisterBase == ByteBase * ByteBase
RegisterValues == 0 .. RegisterBase - 1

\* What shifting by 0, 1, ... registers multiplies by
place[i \in 0 .. WordRegisters] == IF i = 0 THEN 1 ELSE place[i - 1] * RegisterBase

Word == place[WordRegisters]

\* One iteration of the loops of decodeUnsigned and decodeSigned, with the place that
\* the shift has arrived at
AddRegister(sum, register) ==
  [value |-> sum.value + register * sum.place, place |-> sum.place * RegisterBase]

\* The values are those of the registers begin .. end, little endian
decodeUnsigned(values) ==
  FoldLeft(AddRegister, [value |-> 0, place |-> 1], values).value

ToSigned(n) == ((n + Word \div 2) % Word) - Word \div 2

\* mutated: the sign is not promoted
decodeSignedUnpromoted(values) == ToSigned(decodeUnsigned(values))

\* The sign is promoted as if more registers followed, with all bits set
decodeSigned(values) ==
  LET negative == values # <<>> /\ Last(values) >= RegisterBase \div 2
      unread == IF negative
                THEN [i \in 1 .. WordRegisters - Len(values) |-> RegisterBase - 1]
                ELSE <<>>
  IN ToSigned(decodeUnsigned(values \o unread))

decodeInteger(signed, values) ==
  IF signed THEN decodeSigned(values) ELSE decodeUnsigned(values)

\* Lower byte first
float_decoder(values) ==
  IF Len(values) \in {2, 4}
  THEN FlattenSeq([i \in DOMAIN values |->
         <<values[i] % ByteBase, values[i] \div ByteBase>>])
  ELSE <<>>

\* At most WordRegisters registers are decoded: with more of them, the code shifts
\* by 64 bits or more.  Numbers are exact here: the code converts them to double, which
\* rounds those of more than 53 bits.
Decode(decoder, values) ==
  CASE decoder.type = "linear" ->
         <<decodeInteger(decoder.signed, values) * decoder.factor + decoder.offset>>
    [] decoder.type = "float" -> float_decoder(values)
    [] decoder.type = "mantissa/exponent" ->
         IF values = <<>> THEN <<>>
         ELSE <<decodeInteger(decoder.signed, Tail(values)),
                decodeSigned(<<Head(values)>>)>>

=============================================================================
