--------------------------- MODULE MCPsbtBuilder ----------------------------
(* Two wallets, one of a single key and one of two cosigners, with every   *)
(* way of getting one thing wrong in an input, an output or a spend.       *)
EXTENDS PsbtBuilder

MCMasters == {"a", "b"}

(* Any strict total order of the points at hand will do.                   *)
Rank(point) ==
  2 * FoldLeft(LAMBDA n, index : 5 * n + index + 1, 0, point.path)
    + IF point.seed = "a" THEN 1 ELSE 0
MCBefore(p, q) == Rank(p) < Rank(q)

A == Exported("zpub", "a", <<2>>)
B == Exported("xpub", "b", <<3>>)
OriginA == Origin(Point("a", <<>>), <<2>>)
OriginB == Origin(Point("b", <<>>), <<3>>)
LeafA == [point |-> Leaf(A, 0, 0).point, origin |-> Extend(OriginA, <<0, 0>>)]
LeafB == [point |-> Leaf(B, 0, 0).point, origin |-> Extend(OriginB, <<0, 0>>)]
XpubA == [xpub |-> ToXpub(A), origin |-> OriginA]
XpubB == [xpub |-> ToXpub(B), origin |-> OriginB]

Single == LET p == LeafA.point
          IN  Spend(AddressOf("p2wpkh", p, "mainnet"), P2WPKH(p), <<LeafA>>, <<XpubA>>,
                    NoScript)
Shared == LET w == P2MS(2, Sorted(<<LeafA.point, LeafB.point>>))
          IN  Spend(AddressOf("p2wsh", w, "mainnet"), P2WSH(w), <<LeafA, LeafB>>,
                    <<XpubA, XpubB>>, w)

(* The account key of Single, but another origin for it.                   *)
Contradicting == [Single EXCEPT !.xpubs[1].origin = Origin(Zero, <<2>>)]

OffCurve == Point("none", <<>>)
WithWitness(w) == [Shared EXCEPT !.witness = w, !.script = P2WSH(w)]
BadSpends ==
  {[Single EXCEPT !.derivations = <<>>],
   [Single EXCEPT !.derivations = <<LeafA, LeafB>>],
   [Single EXCEPT !.script = P2WPKH(LeafB.point)],
   [Single EXCEPT !.derivations[1].point = OffCurve, !.script = P2WPKH(OffCurve)],
   [Single EXCEPT !.derivations[1].origin.path = <<4>>],
   [Single EXCEPT !.xpubs[1].origin.path = <<>>],
   [Single EXCEPT !.xpubs[1].xpub.version = "xprv"],
   [Single EXCEPT !.xpubs[1].xpub.point = OffCurve],
   [Shared EXCEPT !.derivations = <<LeafA, LeafA>>],
   [Shared EXCEPT !.derivations = <<LeafA>>],
   [Shared EXCEPT !.script = P2WPKH(LeafA.point)],
   WithWitness(P2MS(3, Shared.witness.keys)),
   WithWitness(P2MS(0, Shared.witness.keys)),
   WithWitness(P2MS(2, Reverse(Shared.witness.keys)))}

Txid(hash, upper) == [hash |-> hash, upper |-> upper]
Input(txid, vout, amount, spend, sequence) ==
  [txid |-> txid, vout |-> vout, amount |-> amount, spend |-> spend, sequence |-> sequence]
Output(amount, script, spend) == [amount |-> amount, script |-> script, spend |-> spend]

MCInputs ==
  {Input(Txid("h1", upper), vout, amount, spend, 0) :
     upper \in BOOLEAN, vout \in 0 .. 1, amount \in 0 .. MaxMoney,
     spend \in {Single, Shared, Contradicting}} \union
  {Input(Txid("h2", FALSE), 0, 1, spend, 1) : spend \in BadSpends} \union
  {Input(Txid("notahash", FALSE), 0, 1, Single, 0),
   Input(Txid("h2", FALSE), 2, 1, Single, 0), Input(Txid("h2", FALSE), 0, 1, Single, 2),
   Input(Txid("h2", FALSE), 0, -1, Single, 0),
   Input(Txid("h2", FALSE), 0, MaxMoney + 1, Single, 0)}

Foreign == [raw |-> "script"]
MCOutputs ==
  {Output(amount, o.script, o.spend) :
     amount \in -1 .. (MaxMoney + 1),
     o \in {[script |-> Foreign, spend |-> {}],
            [script |-> Single.script, spend |-> {}],
            [script |-> Single.script, spend |-> {Single}],
            [script |-> Single.script, spend |-> {Contradicting}],
            [script |-> Shared.script, spend |-> {Shared}]}} \union
  {Output(0, EmptyScript, {}), Output(0, Foreign, {Single}),
   Output(0, Single.script, {Shared})} \union
  {Output(0, s.script, {s}) : s \in BadSpends}
=============================================================================
