------------------------------ MODULE BitGroups ------------------------------
(***************************************************************************)
(* convertbits() (src/bitwalkit/encoding.py) value by value: 8-bit bytes   *)
(* packed in 5-bit groups with padding by bech32_encode(), and unpacked    *)
(* without padding by bech32_decode(), and the same at smaller widths.     *)
(***************************************************************************)
EXTENDS BitStream

CONSTANTS Conversions   \* [from, to, pad, values, most]: the calls made, with
                        \* the values drawn and the most of them in one call

VARIABLES
  call,                 \* the conversion under way
  data,                 \* the values absorbed so far
  s,                    \* acc, bits and ret
  out,                  \* what is returned
  pc                    \* "loop", "returned" or "None"

vars == <<call, data, s, out, pc>>

Init ==
  /\ call \in Conversions
  /\ data = <<>> /\ s = NoBits /\ out = <<>>
  /\ pc = "loop"

Take(value) ==
  /\ pc = "loop"
  /\ Len(data) < call.most
  /\ data' = Append(data, value)
  /\ IF InRange(value, call.from)
     THEN s' = Absorb(s, value, call.from, call.to) /\ UNCHANGED pc
     ELSE pc' = "None" /\ UNCHANGED s
  /\ UNCHANGED <<call, out>>

EndPadded ==
  /\ pc = "loop" /\ call.pad
  /\ pc' = "returned"
  /\ out' = Padded(s, call.to)
  /\ UNCHANGED <<call, data, s>>

EndClean ==
  /\ pc = "loop" /\ ~call.pad
  /\ IF Clean(s, call.from, call.to)
     THEN pc' = "returned" /\ out' = s.ret
     ELSE pc' = "None" /\ UNCHANGED out
  /\ UNCHANGED <<call, data, s>>

Next == (\E value \in call.values : Take(value)) \/ EndPadded \/ EndClean

Spec == Init /\ [][Next]_vars

-----------------------------------------------------------------------------
(* A sequence of groups of a width as the bits it stands for.              *)
Bits(groups, width) ==
  [k \in 1 .. Len(groups) * width |->
     (groups[((k - 1) \div width) + 1] \div 2^(width - 1 - ((k - 1) % width))) % 2]

Extends(longer, shorter, limit) ==
  /\ Len(longer) - Len(shorter) \in 0 .. limit - 1
  /\ longer = shorter \o [k \in 1 .. Len(longer) - Len(shorter) |-> 0]

Valid == \A i \in DOMAIN data : InRange(data[i], call.from)

(* Groups have their width and fewer than a group's bits are pending.      *)
TypeOK ==
  /\ pc \in {"loop", "returned", "None"}
  /\ s.acc \in 0 .. 2^(call.from + call.to - 1) - 1
  /\ s.bits \in 0 .. call.to - 1
  /\ \A g \in DOMAIN s.ret : InRange(s.ret[g], call.to)
  /\ \A g \in DOMAIN out : InRange(out[g], call.to)

(* The accumulator is cut to max_acc at every value, and still no bit that *)
(* has not been written is lost: what was read is what was written, then   *)
(* the lowest `bits` bits of the accumulator.                              *)
NoBitLost ==
  (pc = "loop" /\ Valid) =>
    Bits(data, call.from) =
      Bits(s.ret, call.to) \o Bits(<<s.acc % 2^s.bits>>, s.bits)

(* Packing adds fewer than a group of zero bits, and no empty group.       *)
PadsWithZeros ==
  (call.pad /\ pc = "returned") =>
    Extends(Bits(out, call.to), Bits(data, call.from), call.to)

(* Unpacking accepts exactly what packing writes: a text with a superfluous *)
(* group, or with a one among its left-over bits, would be a second        *)
(* spelling of the same bytes.                                             *)
UnpacksOnlyPacked ==
  (~call.pad /\ pc # "loop") =>
    LET whole == (Len(data) * call.from) \div call.to
        used  == SubSeq(Bits(data, call.from), 1, whole * call.to)
    IN  IF Valid /\ Extends(Bits(data, call.from), used, call.from)
        THEN pc = "returned" /\ Bits(out, call.to) = used
                             /\ Packed(out, call.to, call.from) = data
        ELSE pc = "None"
=============================================================================
