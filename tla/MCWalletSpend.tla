--------------------------- MODULE MCWalletSpend ----------------------------
(* Two master keys, indexes 0 and 1 with their hardened twins 2 and 3, and *)
(* for each exported key the right origin, none, and wrong ones.           *)
EXTENDS WalletSpend

MCMasters == {"a", "b"}
MCNoChild == {<<Point("b", <<>>), 1>>, <<Point("b", <<2, 0>>), 1>>}

(* Any strict total order of the points at hand will do.                   *)
Rank(point) ==
  2 * FoldLeft(LAMBDA n, index : 5 * n + index + 1, 0, point.path)
    + IF point.seed = "a" THEN 1 ELSE 0
MCBefore(p, q) == Rank(p) < Rank(q)

ExportedKeys ==
  {Exported(v[1], v[2], v[3]) :
     v \in { <<"xpub", "a", <<>> >>, <<"tpub", "a", <<>> >>, <<"xpub", "b", <<>> >>,
             <<"xpub", "a", <<0>> >>, <<"zpub", "b", <<3>> >>,
             <<"xpub", "b", <<2, 0>> >>, <<"zpub", "b", <<2, 0>> >>,
             <<"xpub", "a", <<2, 0, 0>> >>, <<"xprv", "a", <<0>> >> }}

Declared(key) ==
  LET fp   == Point(key.point.seed, <<>>)
      path == key.point.path
  IN  {Origin(fp, path), Origin(Zero, path), Origin(fp, path \o <<0>>)} \union
      (IF path = <<>> THEN {}
       ELSE {Origin(fp, Front(path) \o <<1>>), Origin(fp, <<1>> \o Tail(path)),
             Origin(fp, Front(path)), Origin(fp, Front(path) \o <<4>>)})

MCOffers == UNION {{[key |-> key, origin |-> o] :
                      o \in {{}} \union {{d} : d \in Declared(key)}} : key \in ExportedKeys}
=============================================================================
