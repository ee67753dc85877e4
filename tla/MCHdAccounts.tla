---------------------------- MODULE MCHdAccounts ----------------------------
(* Account keys of two masters on both networks, with a key one level from *)
(* the deepest and an index without a child.                               *)
EXTENDS HdAccounts

MCMasters == {"a", "b"}
MCNoChild == {<<Point("a", <<2, 0>>), 1>>}

(* Any strict total order of the points at hand will do.                   *)
Rank(point) ==
  2 * FoldLeft(LAMBDA n, index : 5 * n + index + 1, 0, point.path)
    + IF point.seed = "a" THEN 1 ELSE 0
MCBefore(p, q) == Rank(p) < Rank(q)

MCKeys == {Exported("zpub", "a", <<2>>), Exported("xpub", "b", <<3>>),
           Exported("Zpub", "a", <<3>>), Exported("tpub", "b", <<3>>), Exported("vpub", "a", <<2, 0, 0>>),
           Exported("xprv", "a", <<2>>)}
=============================================================================
