------------------------------ MODULE BitStream ------------------------------
(***************************************************************************)
(* The arithmetic of convertbits() (src/bitwalkit/encoding.py): a stream   *)
(* of bits read in groups of `from` bits and written in groups of `to`.    *)
(* The locals of the loop are a record; masks and shifts are % and \div.   *)
(***************************************************************************)
EXTENDS Integers, Sequences, SequencesExt

NoBits == [acc |-> 0, bits |-> 0, ret |-> <<>>]

InRange(value, from) == 0 <= value /\ value < 2^from

(* max_acc keeps one bit less than a group of each width: what is pending. *)
AccSize(from, to)   == 2^(from + to - 1)

Absorb(s, value, from, to) ==
  LET acc  == (s.acc * 2^from + value) % AccSize(from, to)
      bits == s.bits + from
  IN  [acc  |-> acc,
       bits |-> bits % to,
       ret  |-> s.ret \o [g \in 1 .. bits \div to |-> (acc \div 2^(bits - g * to)) % 2^to]]

Remainder(s, to) == s.acc * 2^(to - s.bits) % 2^to
Padded(s, to)    == IF s.bits = 0 THEN s.ret ELSE Append(s.ret, Remainder(s, to))
Shorter(s, from, to) == Remainder(s, to) = 0                      \* mutant
Clean(s, from, to) == s.bits < from /\ Remainder(s, to) = 0

(* convertbits() as one function: Packed with pad, Unpacked without.       *)
Absorbed(data, from, to) ==
  LET s[i \in 0 .. Len(data)] ==
        IF i = 0 THEN NoBits ELSE Absorb(s[i - 1], data[i], from, to)
  IN  s[Len(data)]
Packed(data, from, to)   == Padded(Absorbed(data, from, to), to)
Unpacked(data, from, to) == Absorbed(data, from, to).ret
Unpackable(data, from, to) ==
  /\ \A i \in DOMAIN data : InRange(data[i], from)
  /\ Clean(Absorbed(data, from, to), from, to)
=============================================================================
