------------------------------ MODULE Polymod ------------------------------
(***************************************************************************)
(* The checksum register of _polymod() in encoding.py and in descriptor.py: *)
(* six or eight symbols of five bits.  The integers of the code are        *)
(* sequences of their 5-bit digits, the highest first, so that `chk >> 25` *)
(* (`checksum >> 35`) is the head, the mask with the shift by five drops   *)
(* it, and xor goes symbol by symbol.                                      *)
(***************************************************************************)
EXTENDS Integers, Sequences, SequencesExt

Symbol == 0 .. 31
Bit(n, i) == (n \div 2^i) % 2

XorTable ==
  [a \in Symbol, b \in Symbol |->
     LET bit(i) == ((Bit(a, i) + Bit(b, i)) % 2) * 2^i
     IN  bit(0) + bit(1) + bit(2) + bit(3) + bit(4)]
Xor(r, s) == [i \in DOMAIN r |-> XorTable[r[i], s[i]]]

(* n as its `width` lowest digits of five bits.                            *)
FiveBits(n, width) == [i \in 1 .. width |-> (n \div 32^(width - i)) % 32]
One(width)         == [i \in 1 .. width |-> IF i = width THEN 1 ELSE 0]

(* What the generators add for each value of the head.                     *)
Selected(bits, head, generators) ==
  LET added[i \in 0 .. bits] ==
        IF i = 0 THEN [k \in DOMAIN generators[1] |-> 0]
        ELSE IF Bit(head, i - 1) = 1 THEN Xor(added[i - 1], generators[i]) ELSE added[i - 1]
  IN  added[bits]
FourBits(generators) == [head \in Symbol |-> Selected(4, head, generators)] \* mutant
Feedback(generators) == [head \in Symbol |-> Selected(5, head, generators)]

(* One value into the register.                                            *)
Feed(register, value, feedback) ==
  Xor(Append(Tail(register), value), feedback[Head(register)])
FeedAll(register, values, feedback) ==
  LET after[i \in 0 .. Len(values)] ==
        IF i = 0 THEN register ELSE Feed(after[i - 1], values[i], feedback)
  IN  after[Len(values)]
=============================================================================
