------------------------------- MODULE Base58 -------------------------------
(***************************************************************************)
(* base58check_encode() and base58check_decode() (encoding.py), with a     *)
(* smaller radix, smaller bytes and a shorter checksum.                    *)
(*                                                                         *)
(* A text is a sequence of digits, its first digit '1' being 0; a payload  *)
(* a sequence of bytes.  Either side of the channel may write any payload  *)
(* and any text may reach the decoder.                                     *)
(***************************************************************************)
EXTENDS Integers, Sequences, SequencesExt

CONSTANTS
  Radix,              \* 58
  Byte,               \* 256
  CheckLen,           \* 4
  Hash(_),            \* hash256(), at least CheckLen bytes
  MostBytes, MostChars   \* bounds: longest payload and longest text

VARIABLES
  payload,            \* what was encoded, or what is typed was not
  text

vars == <<payload, text>>

Digits(n, radix) ==
  LET digits[k \in 0 .. n] ==
        IF k = 0 THEN <<>> ELSE Append(digits[k \div radix], k % radix)
  IN  digits[n]
Value(digits, radix) == FoldLeft(LAMBDA n, d : n * radix + d, 0, digits)

LeadingZeros(digits) ==
  CHOOSE z \in 0 .. Len(digits) :
    /\ \A i \in 1 .. z : digits[i] = 0
    /\ z < Len(digits) => digits[z + 1] # 0
Zeros(z) == [i \in 1 .. z |-> 0]

Checksum(bytes) == SubSeq(Hash(bytes), 1, CheckLen)

(* base58check_encode()                                                    *)
NoZeros(data)       == <<>>                                       \* mutant
KeptZeros(data)     == Zeros(LeadingZeros(data))
Encode(bytes) ==
  LET data == bytes \o Checksum(bytes)
  IN  KeptZeros(data) \o Digits(Value(data, Byte), Radix)

(* base58check_decode().  An unknown character is the digit Radix.         *)
Decoded(digits) ==
  Zeros(LeadingZeros(digits)) \o Digits(Value(digits, Radix), Byte)
PayloadOf(data) == SubSeq(data, 1, Len(data) - CheckLen)
Checked(data) ==
  /\ Len(data) >= CheckLen
  /\ SubSeq(data, Len(data) - CheckLen + 1, Len(data)) = Checksum(PayloadOf(data))

Decodable(digits) ==
  /\ digits # <<>>
  /\ \A i \in DOMAIN digits : digits[i] < Radix
  /\ Checked(Decoded(digits))
Decode(digits) == PayloadOf(Decoded(digits))

-----------------------------------------------------------------------------
Typed == <<-1>>       \* no payload was encoded

Init ==
  /\ payload = Typed
  /\ text = <<>>

(* The caller encodes a payload.                                           *)
Write(bytes) ==
  /\ text = <<>>
  /\ payload' = bytes
  /\ text' = Encode(bytes)

(* A text is typed, or a written one is continued by mistake.              *)
Type(digit) ==
  /\ Len(text) < MostChars
  /\ text' = Append(text, digit)
  /\ payload' = Typed

Next ==
  \/ \E bytes \in UNION {[1 .. n -> 0 .. Byte - 1] : n \in 0 .. MostBytes} : Write(bytes)
  \/ \E digit \in 0 .. Radix : Type(digit)

Spec == Init /\ [][Next]_vars

-----------------------------------------------------------------------------
(* What is written is read back, leading zero bytes, empty payloads and    *)
(* payloads of nothing but zeros included.                                 *)
WrittenIsRead ==
  payload # Typed => Decodable(text) /\ Decode(text) = payload

(* Every accepted text is the encoding of the payload it is read as: a     *)
(* text with a '1' too many or too few is never a second name of the same  *)
(* address or extended key.                                                *)
OneTextPerPayload ==
  Decodable(text) => Encode(Decode(text)) = text
=============================================================================
