------------------------------ MODULE TxParser ------------------------------
(***************************************************************************)
(* parse_transaction() of src/bitwalkit/transaction.py as a machine that   *)
(* reads one field of the serialization per step.                          *)
(*                                                                         *)
(* The machine knows the length of its input from the start, and its bytes *)
(* as it reads them: `raw` is the part read so far, and each step picks    *)
(* the bytes it finds next.  Bytes the parser does not look into (scripts, *)
(* txids, amounts, ...) are 0.  Base, the widths of the wide CompactSize   *)
(* forms and the sizes of the fixed fields are parameters (256; 2, 4, 8;   *)
(* 4, 36, 4, 8, 4 in the code), so that TLC can explore every input of a   *)
(* scaled-down format.                                                     *)
(***************************************************************************)
EXTENDS Integers, Sequences, FiniteSets, SequencesExt

CONSTANTS
  Base,         \* number of byte values; the last three announce wide sizes
  Width,        \* Width[1..3]: bytes that follow each of the three prefixes
  VersionSize, OutpointSize, SequenceSize, AmountSize, LocktimeSize,
  MinInput,     \* the literal 41: smallest input
  MinOutput,    \* the literal 9: smallest output
  MaxLength     \* bound: length of the input

(* Base ^ w: numbers of w bytes are below it.                              *)
Below(w) == LET b[k \in 0 .. w] == IF k = 0 THEN 1 ELSE Base * b[k - 1] IN b[w]

ASSUME FormatAssumption ==
  /\ Base \in Nat /\ Base >= 5        \* 0 and 1 are one-byte sizes
  /\ Width \in [1 .. 3 -> Nat \ {0}]
  /\ Width[1] < Width[2] /\ Width[2] < Width[3]
  /\ {VersionSize, OutpointSize, SequenceSize, AmountSize, LocktimeSize} \subseteq Nat
  /\ MaxLength \in Nat /\ MaxLength < Below(Width[3])
  /\ MinInput = OutpointSize + 1 + SequenceSize
  /\ MinOutput = AmountSize + 1

VARIABLES
  pc,           \* the field to be read next, or "accepted" or "rejected"
  length,       \* len(raw)
  raw,          \* what has been read; reader.offset is its length
  hasWitness,   \* has_witness
  left,         \* rounds left of the loop over inputs, outputs or witnesses
  itemsLeft,    \* rounds left of the loop over one input's witness items
  ins,          \* script lengths of the inputs read
  outs,         \* script lengths of the outputs read
  wits,         \* lengths of the witness items read, per input
  bodyStart,    \* body_start
  bodyEnd       \* body_end

loopVars  == <<left, itemsLeft>>
txVars    == <<ins, outs, wits>>
bodyVars  == <<bodyStart, bodyEnd>>
vars      == <<pc, length, raw, hasWitness, loopVars, txVars, bodyVars>>

Byte      == 0 .. (Base - 1)
Zeros(n)  == [k \in 1 .. n |-> 0]
Offset    == Len(raw)
Remaining == length - Offset

-----------------------------------------------------------------------------
(* CompactSize: one byte below the three prefixes, or a prefix and a       *)
(* little-endian number.                                                   *)

Number(bs) ==
  LET n[k \in 0 .. Len(bs)] ==
        IF k = 0 THEN 0 ELSE bs[Len(bs) - k + 1] + Base * n[k - 1]
  IN  n[Len(bs)]
Prefix(j)  == Base - 4 + j
Minimum(j) == CASE j = 0 -> 0
                [] j = 1 -> Base - 3
                [] OTHER -> Below(Width[j - 1])

OneByte  == {[bytes |-> <<b>>, value |-> b, form |-> 0] : b \in 0 .. (Base - 4)}
Wide(j)  == {[bytes |-> <<Prefix(j)>> \o bs, value |-> Number(bs), form |-> j] :
               bs \in [1 .. Width[j] -> Byte]}
CompactSizes == OneByte \union UNION {Wide(j) : j \in 1 .. 3}

AnyForm(cs)   == TRUE                     \* mutant: no minimum per prefix
Canonical(cs) == cs.value >= Minimum(cs.form)

(* read(n) finds n bytes.                                                  *)
Available(n)      == n <= Remaining

Reads(cs) == Available(Len(cs.bytes)) /\ Canonical(cs)

-----------------------------------------------------------------------------
Init ==
  /\ length \in 0 .. MaxLength
  /\ pc = "version" /\ raw = <<>> /\ hasWitness = FALSE
  /\ left = 0 /\ itemsLeft = 0
  /\ ins = <<>> /\ outs = <<>> /\ wits = <<>>
  /\ bodyStart = 0 /\ bodyEnd = 0

Reject(bs) ==
  /\ pc' = "rejected"
  /\ raw' = raw \o (IF Available(Len(bs)) THEN bs ELSE SubSeq(bs, 1, Remaining))
  /\ UNCHANGED <<length, hasWitness, loopVars, txVars, bodyVars>>

(* Read bs and go on at `to`; reject when the input ends before.           *)
Read(bs, to) ==
  /\ Available(Len(bs))
  /\ pc' = to
  /\ raw' = raw \o bs

Truncated(bs) == ~Available(Len(bs)) /\ Reject(bs)

ReadVersion ==
  /\ pc = "version"
  /\ \/ Truncated(Zeros(VersionSize))
     \/ /\ Read(Zeros(VersionSize), "inputCount")
        /\ bodyStart' = VersionSize
        /\ UNCHANGED <<length, hasWitness, loopVars, txVars, bodyEnd>>

(* A count that the `rest` of the input cannot hold is refused before the  *)
(* loop starts.                                                            *)
TooManyByOne(count, rest, size) == count >= (rest \div size)     \* mutant
TooMany(count, rest, size) == count > (rest \div size)
ExceedsAfter(cs, size) == TooMany(cs.value, Remaining - Len(cs.bytes), size)

(* The first count.  0 announces a witness flag or an empty transaction.   *)
ReadInputCount ==
  /\ pc = "inputCount"
  /\ \E cs \in CompactSizes :
       \/ ~Reads(cs) /\ Reject(cs.bytes)
       \/ /\ Reads(cs)
          /\ Read(cs.bytes, IF cs.value = 0 THEN "flag" ELSE "checkInputs")
          /\ left' = cs.value
          /\ UNCHANGED <<length, hasWitness, itemsLeft, txVars, bodyVars>>

BodyAtFlag    == Offset                   \* mutant: the flag stays in the body
BodyAfterFlag == Offset + 1

ReadFlag ==
  /\ pc = "flag"
  /\ \/ Truncated(<<0>>)
     \/ \E b \in Byte \ {0, 1} : Reject(<<b>>)
     \/ /\ Read(<<0>>, "outputs")
        /\ UNCHANGED <<length, hasWitness, loopVars, txVars, bodyVars>>
     \/ /\ Read(<<1>>, "witnessInputCount")
        /\ hasWitness' = TRUE
        /\ bodyStart' = BodyAfterFlag
        /\ UNCHANGED <<length, loopVars, txVars, bodyEnd>>

ReadWitnessInputCount ==
  /\ pc = "witnessInputCount"
  /\ \E cs \in CompactSizes :
       \/ (~Reads(cs) \/ cs.value = 0) /\ Reject(cs.bytes)
       \/ /\ Reads(cs) /\ cs.value # 0
          /\ Read(cs.bytes, "checkInputs")
          /\ left' = cs.value
          /\ UNCHANGED <<length, hasWitness, itemsLeft, txVars, bodyVars>>

CheckInputs ==
  /\ pc = "checkInputs"
  /\ pc' = IF TooMany(left, Remaining, MinInput) THEN "rejected" ELSE "inputs"
  /\ UNCHANGED <<length, raw, hasWitness, loopVars, txVars, bodyVars>>

InputBytes(cs) ==
  Zeros(OutpointSize) \o cs.bytes \o Zeros(cs.value) \o Zeros(SequenceSize)
OutputBytes(cs) == Zeros(AmountSize) \o cs.bytes \o Zeros(cs.value)
ItemBytes(cs)   == cs.bytes \o Zeros(cs.value)

(* A blob whose length is announced by cs, inside `size` more bytes.       *)
Fits(cs, size) == Canonical(cs) /\ Available(Len(cs.bytes) + cs.value + size)

ReadInput ==
  /\ pc = "inputs" /\ left > 0
  /\ \E cs \in CompactSizes :
       \/ /\ ~Fits(cs, OutpointSize + SequenceSize)
          /\ Reject(Zeros(OutpointSize) \o cs.bytes)
       \/ /\ Fits(cs, OutpointSize + SequenceSize)
          /\ Read(InputBytes(cs), "inputs")
          /\ ins' = Append(ins, cs.value)
          /\ left' = left - 1
          /\ UNCHANGED <<length, hasWitness, itemsLeft, outs, wits, bodyVars>>

EndInputs ==
  /\ pc = "inputs" /\ left = 0
  /\ pc' = "outputCount"
  /\ UNCHANGED <<length, raw, hasWitness, loopVars, txVars, bodyVars>>

ReadOutputCount ==
  /\ pc = "outputCount"
  /\ \E cs \in CompactSizes :
       \/ (~Reads(cs) \/ ExceedsAfter(cs, MinOutput)) /\ Reject(cs.bytes)
       \/ /\ Reads(cs) /\ ~ExceedsAfter(cs, MinOutput)
          /\ Read(cs.bytes, "outputs")
          /\ left' = cs.value
          /\ UNCHANGED <<length, hasWitness, itemsLeft, txVars, bodyVars>>

ReadOutput ==
  /\ pc = "outputs" /\ left > 0
  /\ \E cs \in CompactSizes :
       \/ ~Fits(cs, AmountSize) /\ Reject(Zeros(AmountSize) \o cs.bytes)
       \/ /\ Fits(cs, AmountSize)
          /\ Read(OutputBytes(cs), "outputs")
          /\ outs' = Append(outs, cs.value)
          /\ left' = left - 1
          /\ UNCHANGED <<length, hasWitness, itemsLeft, ins, wits, bodyVars>>

(* The body ends; a witness for each input follows, or the locktime.       *)
EndOutputs ==
  /\ pc = "outputs" /\ left = 0
  /\ bodyEnd' = Offset
  /\ pc' = IF hasWitness THEN "witness" ELSE "locktime"
  /\ left' = IF hasWitness THEN Len(ins) ELSE 0
  /\ UNCHANGED <<length, raw, hasWitness, itemsLeft, txVars, bodyStart>>

ReadItemCount ==
  /\ pc = "witness" /\ left > 0
  /\ \E cs \in CompactSizes :
       \/ (~Reads(cs) \/ ExceedsAfter(cs, 1)) /\ Reject(cs.bytes)
       \/ /\ Reads(cs) /\ ~ExceedsAfter(cs, 1)
          /\ Read(cs.bytes, "items")
          /\ itemsLeft' = cs.value
          /\ wits' = Append(wits, <<>>)
          /\ UNCHANGED <<length, hasWitness, left, ins, outs, bodyVars>>

ReadItem ==
  /\ pc = "items" /\ itemsLeft > 0
  /\ \E cs \in CompactSizes :
       \/ ~Fits(cs, 0) /\ Reject(cs.bytes)
       \/ /\ Fits(cs, 0)
          /\ Read(ItemBytes(cs), "items")
          /\ itemsLeft' = itemsLeft - 1
          /\ wits' = [wits EXCEPT ![Len(wits)] = Append(@, cs.value)]
          /\ UNCHANGED <<length, hasWitness, left, ins, outs, bodyVars>>

EndItems ==
  /\ pc = "items" /\ itemsLeft = 0
  /\ pc' = "witness"
  /\ left' = left - 1
  /\ UNCHANGED <<length, raw, hasWitness, itemsLeft, txVars, bodyVars>>

Superfluous == \A k \in DOMAIN wits : wits[k] = <<>>

EndWitness ==
  /\ pc = "witness" /\ left = 0
  /\ pc' = IF Superfluous THEN "rejected" ELSE "locktime"
  /\ UNCHANGED <<length, raw, hasWitness, loopVars, txVars, bodyVars>>

ReadLocktime ==
  /\ pc = "locktime"
  /\ \/ Truncated(Zeros(LocktimeSize))
     \/ /\ Read(Zeros(LocktimeSize),
                IF Remaining > LocktimeSize THEN "rejected" ELSE "accepted")
        /\ UNCHANGED <<length, hasWitness, loopVars, txVars, bodyVars>>

Next ==
  \/ ReadVersion \/ ReadInputCount \/ ReadFlag \/ ReadWitnessInputCount
  \/ CheckInputs \/ ReadInput \/ EndInputs \/ ReadOutputCount \/ ReadOutput
  \/ EndOutputs \/ ReadItemCount \/ ReadItem \/ EndItems \/ EndWitness
  \/ ReadLocktime

Spec == Init /\ [][Next]_vars

-----------------------------------------------------------------------------
(* The wire format, defined from the transaction to the bytes (BIP 144).   *)

Enc(n)  == (CHOOSE cs \in CompactSizes : cs.value = n /\ Canonical(cs)).bytes
Blob(n) == Enc(n) \o Zeros(n)

InputOf(n)  == Zeros(OutpointSize) \o Blob(n) \o Zeros(SequenceSize)
OutputOf(n) == Zeros(AmountSize) \o Blob(n)
ItemsOf(w)  == Enc(Len(w)) \o FlattenSeq([k \in DOMAIN w |-> Blob(w[k])])

BodyOf(tx) ==
  Enc(Len(tx.ins)) \o FlattenSeq([k \in DOMAIN tx.ins |-> InputOf(tx.ins[k])])
    \o Enc(Len(tx.outs)) \o FlattenSeq([k \in DOMAIN tx.outs |-> OutputOf(tx.outs[k])])

Stripped(tx) == Zeros(VersionSize) \o BodyOf(tx) \o Zeros(LocktimeSize)
Serialize(tx) ==
  IF tx.wits = <<>> THEN Stripped(tx)
  ELSE Zeros(VersionSize) \o <<0, 1>> \o BodyOf(tx)
         \o FlattenSeq([k \in DOMAIN tx.wits |-> ItemsOf(tx.wits[k])])
         \o Zeros(LocktimeSize)

Tx(is, os, ws) == [ins |-> is, outs |-> os, wits |-> ws]

(* Sequences of blob lengths, each blob with `fixed` bytes around it, that *)
(* take at most n bytes.                                                   *)
Blobs(fixed, n) ==
  LET Taken(s) == fixed * Len(s) + Len(FlattenSeq([k \in DOMAIN s |-> Blob(s[k])]))
      f[j \in 0 .. n] ==
        IF j = 0 THEN {<<>>}
        ELSE {s \in {Append(r, k) : r \in f[j - 1], k \in 0 .. n} : Taken(s) <= n}
  IN  UNION {f[j] : j \in 0 .. n}

(* Witnesses of j inputs, the items of each in at most n bytes.            *)
Witnesses(j, n) ==
  LET f[k \in 0 .. j] ==
        IF k = 0 THEN {<<>>} ELSE {Append(r, w) : r \in f[k - 1], w \in Blobs(0, n)}
  IN  f[j]

(* Well-formed transactions of at most MaxLength bytes.  A serialization   *)
(* with no input has no output either: the bytes of one with outputs are   *)
(* those of a witness marker.                                              *)
Legacy ==
  LET I == Blobs(OutpointSize + SequenceSize, MaxLength)
      O == Blobs(AmountSize, MaxLength)
  IN  {tx \in {Tx(is, os, <<>>) : is \in I, os \in O} :
         /\ Len(Serialize(tx)) <= MaxLength
         /\ tx.ins = <<>> => tx.outs = <<>>}
Segwit ==
  {tx \in UNION {{Tx(l.ins, l.outs, ws) :
                   ws \in Witnesses(Len(l.ins), MaxLength - 3 - Len(Serialize(l)))} :
                 l \in {l \in Legacy : l.ins # <<>>
                                      /\ Len(Serialize(l)) + 4 <= MaxLength}} :
     /\ Len(Serialize(tx)) <= MaxLength
     /\ \E k \in DOMAIN tx.wits : tx.wits[k] # <<>>}
WellFormed == {Serialize(tx) : tx \in Legacy \union Segwit}

-----------------------------------------------------------------------------
(* Properties.                                                             *)

TypeOK ==
  /\ length \in Nat
  /\ raw \in Seq(Byte) /\ Offset <= length
  /\ hasWitness \in BOOLEAN
  /\ left \in Nat /\ itemsLeft \in Nat
  /\ {bodyStart, bodyEnd} \subseteq 0 .. length

Parsed == Tx(ins, outs, wits)

(* What is accepted is canonical: serializing the parsed transaction gives *)
(* the input back, so no two inputs parse to one transaction.              *)
RoundTrip ==
  /\ TypeOK
  /\ pc = "accepted" =>
       /\ Offset = length
       /\ raw = Serialize(Parsed)
       /\ hasWitness <=> \E k \in DOMAIN wits : wits[k] # <<>>

(* The bytes hashed for the txid, and weighed, are the serialization       *)
(* without marker, flag and witness.                                       *)
StrippedBytes ==
  IF ~hasWitness THEN raw
  ELSE SubSeq(raw, 1, VersionSize) \o SubSeq(raw, bodyStart + 1, bodyEnd)
         \o SubSeq(raw, Offset - LocktimeSize + 1, Offset)
StrippedForm == pc = "accepted" => StrippedBytes = Stripped(Parsed)

(* Nothing well-formed is rejected: no serialization of a transaction      *)
(* begins with the bytes the parser gave up on, by a count guard, a        *)
(* marker, a flag or a length.                                             *)
RejectsOnlyMalformed ==
  pc = "rejected" =>
    \A w \in WellFormed : Len(w) = length => ~IsPrefix(raw, w)
=============================================================================
