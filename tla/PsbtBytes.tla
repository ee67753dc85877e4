----------------------------- MODULE PsbtBytes -----------------------------
(***************************************************************************)
(* What create_psbt() of src/bitwalkit/psbt.py writes: CompactSizes, maps  *)
(* and the unsigned transaction.  Base and Width scale CompactSizes down   *)
(* as in TxParser.  The fields nobody takes apart are zeros.               *)
(***************************************************************************)
EXTENDS Integers, Sequences, FiniteSets, SequencesExt, Functions

CONSTANTS
  Base, Width,    \* 256, and the 2, 4 and 8 bytes after the three prefixes
  VersionSize, OutpointSize, SequenceSize, AmountSize, LocktimeSize

Zeros(n) == [k \in 1 .. n |-> 0]

(* Base ^ w: numbers of w bytes are below it.                              *)
Below(w) == LET b[k \in 0 .. w] == IF k = 0 THEN 1 ELSE Base * b[k - 1] IN b[w]

(* The bytes of n, the lowest first; `rest` is what the next ones are of.  *)
LittleEndian(n, size) ==
  LET rest[i \in 0 .. size] == IF i = 0 THEN n ELSE rest[i - 1] \div Base
  IN  [i \in 1 .. size |-> rest[i - 1] % Base]

(* The first limit that exceeds a number decides its form.                 *)
LimitByOne(form) == IF form = 0 THEN Base - 2 ELSE Below(Width[form])  \* mutant
Limit(form)      == IF form = 0 THEN Base - 3 ELSE Below(Width[form])
CompactSize(n) ==
  LET form == CHOOSE f \in 0 .. 3 : /\ f < 3 => n < Limit(f)
                                    /\ \A g \in 0 .. f - 1 : n >= Limit(g)
  IN  IF form = 0 THEN <<n>> ELSE <<Base - 4 + form>> \o LittleEndian(n, Width[form])

Blob(bytes) == CompactSize(Len(bytes)) \o bytes

(* A map, from a list of entries none of which conflicts with another.     *)
Precedes(a, b) ==
  \/ IsStrictPrefix(a, b)
  \/ \E i \in DOMAIN a \cap DOMAIN b :
       a[i] < b[i] /\ \A k \in 1 .. i - 1 : a[k] = b[k]
KeysOf(entries)      == {entries[k][1] : k \in DOMAIN entries}
ValueOf(entries, key) == (CHOOSE e \in Range(entries) : e[1] = key)[2]
InKeyOrder(entries) == SetToSortSeq(KeysOf(entries), Precedes)
MapBytes(entries) ==
  LET keys == InKeyOrder(entries)
  IN  FlattenSeq([k \in DOMAIN keys |-> Blob(keys[k]) \o Blob(ValueOf(entries, keys[k]))])
        \o <<0>>

Magic == <<0, 0>>                                     \* psbt\xff
File(lists) == Magic \o FlattenSeq([k \in DOMAIN lists |-> MapBytes(lists[k])])

-----------------------------------------------------------------------------
(* The unsigned transaction: `ins` inputs with empty scripts, and outputs  *)
(* with scripts of the lengths `outs`.                                     *)
TxIn      == Zeros(OutpointSize) \o <<0>> \o Zeros(SequenceSize)
TxOut(n)  == Zeros(AmountSize) \o Blob(Zeros(n))
AnyCounts(ins, outs) == TRUE                                      \* mutant
Complete(ins, outs)  == ins # 0 /\ outs # <<>> /\ \A k \in DOMAIN outs : outs[k] # 0
TxBytes(ins, outs) ==
  Zeros(VersionSize)
    \o CompactSize(ins) \o FlattenSeq([k \in 1 .. ins |-> TxIn])
    \o CompactSize(Len(outs)) \o FlattenSeq([k \in DOMAIN outs |-> TxOut(outs[k])])
    \o Zeros(LocktimeSize)
=============================================================================
