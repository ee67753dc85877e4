---------------------------- MODULE HashPadding ----------------------------
(***************************************************************************)
(* The padding in _ripemd160_pure() (src/bitwalkit/hashing.py) and the     *)
(* blocks it leaves, for messages that grow by a byte at a time.  The      *)
(* rounds over a block are left out.                                       *)
(***************************************************************************)
EXTENDS Integers, Sequences, SequencesExt

CONSTANTS
  Block,          \* 64 bytes
  LengthSize,     \* 8 bytes, which hold the length in bits
  ByteBits,       \* 8
  MostBytes       \* bound: length of the message

VARIABLES message, blocks
vars == <<message, blocks>>

Byte      == 0 .. 2^ByteBits - 1
Marker    == 2^(ByteBits - 1)                         \* 0x80
Zeros(n)  == [k \in 1 .. n |-> 0]
LittleEndian(n, size) == [i \in 1 .. size |-> (n \div 2^(ByteBits * (i - 1))) % 2^ByteBits]

Gap(size)    == (Block - LengthSize - (size % Block)) % Block

Padded(m) ==
  Append(m, Marker) \o Zeros(Gap(Len(m) + 1)) \o LittleEndian(ByteBits * Len(m), LengthSize)
Blocks(data) ==
  [b \in 1 .. (Len(data) + Block - 1) \div Block |->
     SubSeq(data, Block * (b - 1) + 1, IF Block * b < Len(data) THEN Block * b ELSE Len(data))]

Init == message = <<>> /\ blocks = Blocks(Padded(<<>>))
Grow ==
  /\ Len(message) < MostBytes
  /\ \E byte \in Byte : message' = Append(message, byte)
  /\ blocks' = Blocks(Padded(message'))
Spec == Init /\ [][Grow]_vars

-----------------------------------------------------------------------------
(* The rounds see whole blocks only, no more of them than the message, the *)
(* marker and the length need, and no other message has the same blocks:   *)
(* the length they end in says which bytes are the message.                *)
BlocksTellMessage ==
  LET data == FlattenSeq(blocks)
      bits == FoldRight(LAMBDA b, n : b + 2^ByteBits * n,
                        SubSeq(data, Len(data) - LengthSize + 1, Len(data)), 0)
  IN  /\ \A b \in DOMAIN blocks : Len(blocks[b]) = Block
      /\ Block * (Len(blocks) - 1) < Len(message) + 1 + LengthSize
      /\ SubSeq(data, 1, bits \div ByteBits) = message
=============================================================================
