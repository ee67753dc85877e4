---------------------------- MODULE PsbtBuilder -----------------------------
(***************************************************************************)
(* create_psbt() of src/bitwalkit/psbt.py: the checks on every input and   *)
(* output, the totals, and the maps of the result.                         *)
(*                                                                         *)
(* The loops take the items of `inputs` and `outputs` one at a time; an    *)
(* item is chosen when it is taken, and kept for the passes over all items *)
(* that follow.  MaxMoney, Uint32 and Int31 stand for the limits of the    *)
(* code.  A map is a function from its keys to their values: the order and *)
(* the framing of its entries are left out.                                *)
(***************************************************************************)
EXTENDS SpendMetadata

CONSTANTS
  MaxMoney,       \* MAX_MONEY
  Uint32, Int31,  \* 0xFFFFFFFF and 0x7FFFFFFF
  Hashes,         \* transaction hashes
  Inputs,         \* PSBTInput items on offer
  Outputs,        \* PSBTOutput items on offer; spend is {} for None
  MaxItems        \* bound: inputs, and outputs, of a call

ASSUME LimitAssumption == {MaxMoney, Uint32, Int31, MaxItems} \subseteq Nat

(* A SegwitSpend holds tuples and a script of a number and keys.           *)
OfferedSpends == {item.spend : item \in Inputs} \union UNION {item.spend : item \in Outputs}

ASSUME SpendsAssumption ==
  /\ \A item \in Outputs : item.spend = {} \/ \E s \in item.spend : item.spend = {s}
  /\ \A s \in OfferedSpends :
       /\ s.derivations \in Seq(Range(s.derivations))
       /\ s.witness.m \in Int /\ s.witness.keys \in Seq(Range(s.witness.keys))
       /\ s.witness = P2MS(s.witness.m, s.witness.keys)

(* Public keys are byte strings, and byte strings have a total order.      *)
ASSUME OrderAssumption ==
  Ordered({d.point : d \in UNION {Range(s.derivations) : s \in OfferedSpends}})

VARIABLES
  pc,             \* "header", "inputs", "outputs", "totals", "maps", "built"
                  \* or "rejected"
  call,           \* version, locktime, len(inputs) and len(outputs)
  inputs, outputs,             \* the items taken
  seen, txInputs, txOutputs, inputMaps, outputMaps,
  psbt

loops == <<seen, txInputs, txOutputs, inputMaps, outputMaps>>
vars  == <<pc, call, inputs, outputs, loops, psbt>>

NoPsbt == [globals |-> <<>>, inputs |-> <<>>, outputs |-> <<>>]

Init ==
  /\ pc = "header"
  /\ call \in [version : {Int31, Int31 + 1}, locktime : {Uint32, Uint32 + 1},
               inputs : 0 .. MaxItems, outputs : 0 .. MaxItems]
  /\ inputs = <<>> /\ outputs = <<>>
  /\ seen = {} /\ txInputs = <<>> /\ txOutputs = <<>>
  /\ inputMaps = <<>> /\ outputMaps = <<>>
  /\ psbt = NoPsbt

Fits(value, maximum) == value \in 0 .. maximum

CheckHeader ==
  /\ pc = "header"
  /\ pc' = IF /\ call.inputs # 0 /\ call.outputs # 0
              /\ Fits(call.version, Int31) /\ Fits(call.locktime, Uint32)
           THEN "inputs" ELSE "rejected"
  /\ UNCHANGED <<call, inputs, outputs, loops, psbt>>

-----------------------------------------------------------------------------
(* A txid is the hash it spells and the case it is spelled in.             *)

EmptyScript == [raw |-> "empty"]
TxOut(amount, script) == [amount |-> amount, script |-> script]
TxOutFault(amount, script) == ~Fits(amount, MaxMoney) \/ script = EmptyScript

AsSpelled(item) == <<item.txid, item.vout>>               \* mutant: no lower()
Outpoint(item)  == <<item.txid.hash, item.vout>>

InputFault(item) ==
  \/ item.txid.hash \notin Hashes
  \/ ~Fits(item.vout, Uint32)
  \/ Outpoint(item) \in seen
  \/ ~Fits(item.sequence, Uint32)
  \/ MetadataFault(item.spend)
  \/ TxOutFault(item.amount, item.spend.script)

TxIn(item) == [hash |-> item.txid.hash, vout |-> item.vout, sequence |-> item.sequence]

InputEntries(item) ==
  Metadata(item.spend, FALSE)
    \union { <<PlainKey(1), TxOut(item.amount, item.spend.script)>>,
             <<PlainKey(3), "SIGHASH_ALL">> }

TakeInput ==
  /\ pc = "inputs" /\ Len(inputs) < call.inputs
  /\ \E item \in Inputs :
       /\ inputs' = Append(inputs, item)
       /\ IF InputFault(item) \/ Conflict(InputEntries(item))
          THEN pc' = "rejected" /\ UNCHANGED <<seen, txInputs, inputMaps>>
          ELSE /\ seen' = seen \union {Outpoint(item)}
               /\ txInputs' = Append(txInputs, TxIn(item))
               /\ inputMaps' = Append(inputMaps, MapOf(InputEntries(item)))
               /\ UNCHANGED pc
  /\ UNCHANGED <<call, outputs, txOutputs, outputMaps, psbt>>

EndInputs ==
  /\ pc = "inputs" /\ Len(inputs) = call.inputs
  /\ pc' = "outputs"
  /\ UNCHANGED <<call, inputs, outputs, loops, psbt>>

AnyScript(item)   == \E s \in item.spend : MetadataFault(s)   \* mutant
WalletFault(item) ==
  \E s \in item.spend : s.script # item.script \/ MetadataFault(s)

OutputEntries(item) == UNION {Metadata(s, TRUE) : s \in item.spend}

TakeOutput ==
  /\ pc = "outputs" /\ Len(outputs) < call.outputs
  /\ \E item \in Outputs :
       /\ outputs' = Append(outputs, item)
       /\ IF \/ TxOutFault(item.amount, item.script)
             \/ WalletFault(item)
             \/ Conflict(OutputEntries(item))
          THEN pc' = "rejected" /\ UNCHANGED <<txOutputs, outputMaps>>
          ELSE /\ txOutputs' = Append(txOutputs, TxOut(item.amount, item.script))
               /\ outputMaps' = Append(outputMaps, MapOf(OutputEntries(item)))
               /\ UNCHANGED pc
  /\ UNCHANGED <<call, inputs, seen, txInputs, inputMaps, psbt>>

EndOutputs ==
  /\ pc = "outputs" /\ Len(outputs) = call.outputs
  /\ pc' = "totals"
  /\ UNCHANGED <<call, inputs, outputs, loops, psbt>>

-----------------------------------------------------------------------------
SumOf(amounts) ==
  LET sum[k \in 0 .. Len(amounts)] == IF k = 0 THEN 0 ELSE sum[k - 1] + amounts[k]
  IN  sum[Len(amounts)]
Amounts(items) == [k \in DOMAIN items |-> items[k].amount]
Total(items)   == SumOf(Amounts(items))

FeeNeeded(in, out)  == Fits(in, MaxMoney) /\ out < in              \* mutant
TotalsFit(in, out) == Fits(in, MaxMoney) /\ Fits(out, MaxMoney) /\ out <= in

CheckTotals ==
  /\ pc = "totals"
  /\ pc' = IF TotalsFit(Total(inputs), Total(outputs)) THEN "maps" ELSE "rejected"
  /\ UNCHANGED <<call, inputs, outputs, loops, psbt>>

Spends == {inputs[k].spend : k \in DOMAIN inputs}
            \union UNION {outputs[k].spend : k \in DOMAIN outputs}
DeclaredXpubs == UNION {Range(spend.xpubs) : spend \in Spends}

Tx == [version |-> call.version, ins |-> txInputs, outs |-> txOutputs,
       locktime |-> call.locktime]

GlobalEntries ==
  {<<XpubKey(x.xpub), x.origin>> : x \in DeclaredXpubs} \union { <<PlainKey(0), Tx>> }

BuildMaps ==
  /\ pc = "maps"
  /\ IF (\E x \in DeclaredXpubs : XpubFault(x)) \/ Conflict(GlobalEntries)
     THEN pc' = "rejected" /\ UNCHANGED psbt
     ELSE /\ pc' = "built"
          /\ psbt' = [globals |-> MapOf(GlobalEntries),
                      inputs |-> inputMaps, outputs |-> outputMaps]
  /\ UNCHANGED <<call, inputs, outputs, loops>>

Next ==
  \/ CheckHeader \/ TakeInput \/ EndInputs \/ TakeOutput \/ EndOutputs
  \/ CheckTotals \/ BuildMaps

Spec == Init /\ [][Next]_vars

-----------------------------------------------------------------------------
(* Properties.                                                             *)

(* The variables have their types, and every amount of the transaction is  *)
(* an amount.                                                              *)
TypeOK ==
  /\ pc \in {"header", "inputs", "outputs", "totals", "maps", "built", "rejected"}
  /\ inputs \in Seq(Inputs) /\ Len(inputs) <= call.inputs
  /\ outputs \in Seq(Outputs) /\ Len(outputs) <= call.outputs
  /\ Len(inputMaps) = Len(txInputs) /\ Len(outputMaps) = Len(txOutputs)
  /\ \A k \in DOMAIN txOutputs : Fits(txOutputs[k].amount, MaxMoney)

(* What a reader of the file finds in it.                                  *)
PsbtTx      == psbt.globals[PlainKey(0)]
Utxo(k)     == psbt.inputs[k][PlainKey(1)]
Typed(map, type) == {key \in DOMAIN map : key.type = type}

(* No output is spent by two inputs of the transaction.                    *)
NoDoubleSpend ==
  /\ TypeOK
  /\ pc = "built" =>
       \A j, k \in DOMAIN PsbtTx.ins :
         /\ PsbtTx.ins[j].hash = PsbtTx.ins[k].hash
         /\ PsbtTx.ins[j].vout = PsbtTx.ins[k].vout
         => j = k

(* The wallet metadata of a map is what its script commits to: the witness *)
(* script, if there is one, has the keys with an origin and no other, or   *)
(* there is one key and the script is its hash.                            *)
Describes(map, output, script) ==
  LET keys      == {key.point : key \in Typed(map, DerivationType(output))}
      witnesses == {map[key] : key \in Typed(map, WitnessType(output))}
  IN  \/ /\ Cardinality(witnesses) = 1
         /\ \A w \in witnesses :
              script = P2WSH(w) /\ Range(w.keys) = keys /\ Len(w.keys) = Cardinality(keys)
      \/ witnesses = {} /\ keys # {} /\ \A key \in keys : {key} = keys /\ script = P2WPKH(key)

(* Every input can be signed from its own map, an output that is declared  *)
(* as the wallet's own pays to the wallet, and the totals and the fee that *)
(* a signer computes from the file are amounts.                            *)
SignerSeesTruth ==
  pc = "built" =>
    /\ LET in  == Total([k \in DOMAIN psbt.inputs |-> Utxo(k)])
           out == Total(PsbtTx.outs)
       IN  {in, out, in - out} \subseteq 0 .. MaxMoney
    /\ \A k \in DOMAIN psbt.inputs : Describes(psbt.inputs[k], FALSE, Utxo(k).script)
    /\ \A k \in DOMAIN psbt.outputs :
         DOMAIN psbt.outputs[k] # {} =>
           Describes(psbt.outputs[k], TRUE, PsbtTx.outs[k].script)

(* The file holds what was declared, in the order it was declared in:      *)
(* outpoints and amounts, and every origin of every key, none of which     *)
(* another input or output overrides.                                      *)
HoldsWhatWasDeclared ==
  pc = "built" =>
    /\ Len(psbt.inputs) = Len(inputs) /\ Len(PsbtTx.ins) = Len(inputs)
    /\ Len(psbt.outputs) = Len(outputs) /\ Len(PsbtTx.outs) = Len(outputs)
    /\ \A k \in DOMAIN inputs :
         /\ PsbtTx.ins[k] = TxIn(inputs[k])
         /\ Utxo(k).amount = inputs[k].amount
         /\ \A d \in Range(inputs[k].spend.derivations) :
              psbt.inputs[k][PubkeyKey(6, d.point)] = d.origin
         /\ \A x \in Range(inputs[k].spend.xpubs) :
              psbt.globals[XpubKey(x.xpub)] = x.origin
    /\ \A k \in DOMAIN outputs :
         /\ PsbtTx.outs[k] = TxOut(outputs[k].amount, outputs[k].script)
         /\ \A s \in outputs[k].spend :
              /\ \A d \in Range(s.derivations) :
                   psbt.outputs[k][PubkeyKey(2, d.point)] = d.origin
              /\ \A x \in Range(s.xpubs) : psbt.globals[XpubKey(x.xpub)] = x.origin

(* What a caller may ask for, clause by clause.                            *)
Signable(spend) ==
  LET ds     == spend.derivations
      points == {ds[k].point : k \in DOMAIN ds}
      w      == spend.witness
  IN  /\ Cardinality(points) = Len(ds)
      /\ \A k \in DOMAIN ds : OnCurve(ds[k].point) /\ Serializable(ds[k].origin)
      /\ \/ w = NoScript /\ \E p \in points : points = {p} /\ spend.script = P2WPKH(p)
         \/ /\ w # NoScript /\ spend.script = P2WSH(w)
            /\ Lists(w.keys, points)
            /\ w.m \in 1 .. Cardinality(points) /\ Cardinality(points) <= 16

GoodInput(item) ==
  /\ item.txid.hash \in Hashes
  /\ {item.vout, item.sequence} \subseteq 0 .. Uint32
  /\ item.amount \in 0 .. MaxMoney
  /\ Signable(item.spend)

GoodOutput(item) ==
  /\ item.amount \in 0 .. MaxMoney
  /\ item.script # EmptyScript
  /\ \A s \in item.spend : Signable(s) /\ s.script = item.script

GoodItems ==
  /\ \A k \in DOMAIN inputs : GoodInput(inputs[k])
  /\ \A j, k \in DOMAIN inputs : Outpoint(inputs[j]) = Outpoint(inputs[k]) => j = k
  /\ \A k \in DOMAIN outputs : GoodOutput(outputs[k])

GoodTotals ==
  /\ Total(inputs) <= MaxMoney
  /\ Total(outputs) <= Total(inputs)

GoodXpubs ==
  /\ \A x \in DeclaredXpubs : /\ Parsable(x.xpub) /\ Serializable(x.origin)
                               /\ x.xpub.depth = Len(x.origin.path)
  /\ \A x, y \in DeclaredXpubs : x.xpub = y.xpub => x.origin = y.origin

GoodCall ==
  /\ call.inputs > 0 /\ call.outputs > 0
  /\ call.version <= Int31 /\ call.locktime <= Uint32

(* A PSBT is built for every valid request, and for no other: zero fees,   *)
(* zero amounts, and totals of exactly MAX_MONEY are valid.                *)
BuiltIffValid ==
  /\ pc = "built" => GoodCall /\ GoodItems /\ GoodTotals /\ GoodXpubs
  /\ pc = "rejected" => ~(GoodCall /\ GoodItems /\ GoodTotals /\ GoodXpubs)
=============================================================================
