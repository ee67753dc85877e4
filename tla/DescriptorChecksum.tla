------------------------ MODULE DescriptorChecksum ------------------------
(***************************************************************************)
(* descriptor_checksum() (src/bitwalkit/descriptor.py) character by        *)
(* character, on a descriptor that is mistyped before its checksum is      *)
(* computed again.  A character is its position in _INPUT, -1 when it is   *)
(* not there.                                                              *)
(***************************************************************************)
EXTENDS Polymod

CONSTANTS
  Descriptors,    \* [text, published]: positions, and the checksum others publish
  Typos,          \* how far in _INPUT a substituted character may be
  MostTypos       \* bound: substitutions in one descriptor

VARIABLES
  descriptor,     \* the one copied
  at,             \* its characters read
  typos,          \* the kinds of mistakes made
  s,              \* checksum, group and count
  result          \* the symbols returned, <<>> before, <<-1>> for EncodingError

vars == <<descriptor, at, typos, s, result>>

Generators ==
  << FiveBits(\hF5DEE, 4) \o FiveBits(\h51989, 4), FiveBits(\hA9FDC, 4) \o FiveBits(\hA3312, 4),
     FiveBits(\h1BAB1, 4) \o FiveBits(\h0E32D, 4), FiveBits(\h3706B, 4) \o FiveBits(\h1677A, 4),
     FiveBits(\h644D6, 4) \o FiveBits(\h26FFD, 4) >>
DescriptorFeedback == Feedback(Generators)
FeedSymbol(register, value) == Feed(register, value, DescriptorFeedback)

(* The loop's body.  group holds positions >> 5 not fed yet, in base 3.    *)
Start == [checksum |-> One(8), group |-> 0, count |-> 0]
Absorb(loop, position) ==
  LET fed     == FeedSymbol(loop.checksum, position % 32)
      classes == loop.group * 3 + position \div 32
  IN  IF loop.count = 2
      THEN [checksum |-> FeedSymbol(fed, classes), group |-> 0, count |-> 0]
      ELSE [checksum |-> fed, group |-> classes, count |-> loop.count + 1]

FlushRest(loop) ==
  IF loop.count = 0 THEN loop.checksum ELSE FeedSymbol(loop.checksum, loop.group)
Finished(loop) ==
  Xor(FeedAll(FlushRest(loop), [i \in 1 .. 8 |-> 0], DescriptorFeedback), One(8))

-----------------------------------------------------------------------------
Init ==
  /\ descriptor \in Descriptors
  /\ at = 0 /\ typos = <<>> /\ s = Start /\ result = <<>>

Reading(n) ==
  /\ result = <<>>
  /\ at + n <= Len(descriptor.text)
  /\ at' = at + n
  /\ UNCHANGED descriptor

Copy ==
  /\ Reading(1)
  /\ s' = Absorb(s, descriptor.text[at'])
  /\ UNCHANGED <<typos, result>>

Mistype ==
  /\ Reading(1)
  /\ Len(typos) < MostTypos /\ "swap" \notin ToSet(typos)
  /\ \E typo \in Typos : s' = Absorb(s, (descriptor.text[at'] + typo) % 95)
  /\ typos' = Append(typos, "character")
  /\ UNCHANGED result

Swap ==
  /\ Reading(2)
  /\ typos = <<>> /\ descriptor.text[at'] # descriptor.text[at' - 1]
  /\ s' = Absorb(Absorb(s, descriptor.text[at']), descriptor.text[at' - 1])
  /\ typos' = <<"swap">>
  /\ UNCHANGED result

(* A character outside _INPUT.                                             *)
Unsupported ==
  /\ Reading(1)
  /\ typos' = Append(typos, "unsupported")
  /\ result' = <<-1>>
  /\ UNCHANGED s

Return ==
  /\ Reading(0) /\ at = Len(descriptor.text)
  /\ result' = Finished(s)
  /\ UNCHANGED <<typos, s>>

Next == Copy \/ Mistype \/ Swap \/ Unsupported \/ Return

Spec == Init /\ [][Next]_vars

-----------------------------------------------------------------------------
(* A descriptor has the checksum that is published, and with up to         *)
(* MostTypos other characters or two neighbours swapped it has another, in *)
(* its last, incomplete group of three too, where a change of case only    *)
(* shows in the group.                                                     *)
ChecksumTellsApart ==
  result # <<>> => (result = descriptor.published <=> typos = <<>>)
=============================================================================
