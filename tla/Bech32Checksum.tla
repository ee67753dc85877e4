-------------------------- MODULE Bech32Checksum --------------------------
(***************************************************************************)
(* The checksum of bech32_encode() and bech32_decode() (encoding.py), bit  *)
(* by bit, on an address that is mistyped: AddressCodec takes for granted  *)
(* that a text verifies under the constant it was made with and that       *)
(* another text verifies under none.                                       *)
(***************************************************************************)
EXTENDS BitStream, Polymod

CONSTANTS
  Addresses,      \* [hrp, version, program, published]: a prefix as character
                  \* codes, and the symbols others publish for the address
  Slips,          \* what a substituted symbol may differ by, under xor
  MostSlips       \* bound: substitutions in one text

VARIABLES
  address,        \* what was encoded
  text,           \* its symbols, checksum included
  at,             \* symbols of it copied
  typed,          \* the symbols typed
  register,       \* _polymod() over the prefix and them
  slips           \* the kinds of mistakes made

vars == <<address, text, at, typed, register, slips>>

Generators == << FiveBits(\h3B6A57B2, 6), FiveBits(\h26508E6D, 6), FiveBits(\h1EA119FA, 6),
                 FiveBits(\h3D4233DD, 6), FiveBits(\h2A1462B3, 6) >>
Bech32Feedback == Feedback(Generators)
Constant(version) == IF version = 0 THEN One(6) ELSE FiveBits(\h2BC830A3, 6)

HrpExpand(hrp) ==
  [i \in DOMAIN hrp |-> hrp[i] \div 32] \o <<0>> \o [i \in DOMAIN hrp |-> hrp[i] % 32]
AfterHrp(hrp) == FeedAll(One(6), HrpExpand(hrp), Bech32Feedback)

(* bech32_encode()                                                         *)
SixZeros == <<0, 0, 0, 0, 0, 0>>
Symbols(a) ==
  LET data == <<a.version>> \o Packed(a.program, 8, 5)
      end  == FeedAll(AfterHrp(a.hrp), data \o SixZeros, Bech32Feedback)
  IN  data \o Xor(end, Constant(a.version))

Init ==
  /\ address \in Addresses
  /\ text = Symbols(address)
  /\ at = 0 /\ typed = <<>> /\ slips = <<>>
  /\ register = AfterHrp(address.hrp)

Type(symbol) ==
  /\ typed' = Append(typed, symbol)
  /\ register' = Feed(register, symbol, Bech32Feedback)
  /\ UNCHANGED <<address, text>>

Copy ==
  /\ at < Len(text)
  /\ Type(text[at + 1]) /\ at' = at + 1
  /\ UNCHANGED slips

Substitute ==
  /\ at < Len(text)
  /\ Len(slips) < MostSlips /\ "moved" \notin ToSet(slips)
  /\ \E slip \in Slips : Type(XorTable[text[at + 1], slip])
  /\ at' = at + 1
  /\ slips' = Append(slips, "substituted")

(* One symbol too many (a "q" or the next one twice), or one too few.      *)
Repeat ==
  /\ at < Len(text) /\ slips = <<>>
  /\ \E symbol \in {0, text[at + 1]} : Type(symbol)
  /\ UNCHANGED at
  /\ slips' = <<"moved">>

Miss ==
  /\ at < Len(text) /\ slips = <<>>
  /\ at' = at + 1
  /\ slips' = <<"moved">>
  /\ UNCHANGED <<address, text, typed, register>>

Next == Copy \/ Substitute \/ Repeat \/ Miss

Spec == Init /\ [][Next]_vars

-----------------------------------------------------------------------------
(* bech32_decode() of what was typed.                                      *)
Body == SubSeq(typed, 2, Len(typed) - 6)
Accepted ==
  /\ register = Constant(Head(typed))
  /\ Unpackable(Body, 5, 8)
  /\ Head(typed) <= 16
  /\ Head(typed) = 0 => Len(Unpacked(Body, 5, 8)) \in {20, 32}
  /\ Len(Unpacked(Body, 5, 8)) \in 2 .. 40

(* An address is encoded as published; copied rightly it is accepted, and  *)
(* with up to MostSlips substituted symbols, a symbol too many or a symbol *)
(* too few it never leads to a script, not even as an address of another   *)
(* version and constant.                                                   *)
AcceptedIffIntact ==
  at = Len(text) => text = address.published /\ (Accepted <=> typed = text)
=============================================================================
