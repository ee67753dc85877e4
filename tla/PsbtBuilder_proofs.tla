------------------------- MODULE PsbtBuilder_proofs --------------------------
(***************************************************************************)
(* Proofs about PsbtBuilder: create_psbt() builds a PSBT for every valid   *)
(* request and no other, and the PSBT holds what was declared.             *)
(***************************************************************************)
EXTENDS PsbtBuilder, HdKeys_proofs, WellFoundedInduction

(* Public keys of the spends on offer.                                     *)
OfferedPoints == {d.point : d \in UNION {Range(s.derivations) : s \in OfferedSpends}}

-----------------------------------------------------------------------------
(* What is asked of a spend.                                               *)

(* The points of a spend as a list.                                        *)
LEMMA PointsTyped ==
  ASSUME NEW s \in OfferedSpends
  PROVE  LET points == Points(s.derivations)
             n      == Len(s.derivations)
         IN  /\ n \in Nat /\ DOMAIN s.derivations = 1 .. n
             /\ points \in Seq(OfferedPoints) /\ Len(points) = n /\ DOMAIN points = 1 .. n
             /\ \A k \in 1 .. n : points[k] = s.derivations[k].point
             /\ Range(points) = {s.derivations[k].point : k \in 1 .. n}
             /\ Range(points) = {d.point : d \in Range(s.derivations)}
             /\ points = <<>> <=> n = 0
<1> DEFINE ds     == s.derivations
           points == Points(ds)
<1>1. ds \in Seq(Range(ds))
  BY SpendsAssumption
<1>2. PICK n : n = Len(ds)
  OBVIOUS
<1>3. n \in Nat /\ DOMAIN ds = 1 .. n /\ \A k \in 1 .. n : ds[k] \in Range(ds)
  BY <1>1, <1>2, LenProperties, ElementOfSeq
<1>4. \A k \in 1 .. n : ds[k].point \in OfferedPoints
  BY <1>3 DEF OfferedPoints
<1>5. points = [k \in 1 .. n |-> ds[k].point]
  BY <1>3 DEF Points
<1>6. points \in Seq(OfferedPoints) /\ Len(points) = n
  BY <1>3, <1>4, <1>5
<1>7. DOMAIN points = 1 .. n /\ \A k \in 1 .. n : points[k] = ds[k].point
  BY <1>5
<1>8. Range(points) = {ds[k].point : k \in 1 .. n}
  BY <1>7 DEF Range
<1>9. Range(points) = {d.point : d \in Range(ds)}
  BY <1>3, <1>8 DEF Range
<1>10. points = <<>> <=> n = 0
  BY <1>6
<1> QED
  BY <1>2, <1>3, <1>6, <1>7, <1>8, <1>9, <1>10

(* _metadata() refuses what nobody could sign with it, and that only.      *)
LEMMA SignableIff ==
  ASSUME NEW s \in OfferedSpends
  PROVE  Signable(s) <=> ~MetadataFault(s)
<1> DEFINE ds == s.derivations
           points == Points(ds)
           set == {ds[k].point : k \in DOMAIN ds}
           w == s.witness
<1>1. PICK n : n = Len(ds)
  OBVIOUS
<1>2. /\ n \in Nat /\ DOMAIN ds = 1 .. n
      /\ points \in Seq(OfferedPoints) /\ Len(points) = n /\ DOMAIN points = 1 .. n
      /\ \A k \in 1 .. n : points[k] = ds[k].point
      /\ Range(points) = set
      /\ points = <<>> <=> n = 0
  BY <1>1, PointsTyped
<1>3. /\ IsFiniteSet(set) /\ Cardinality(set) \in Nat
      /\ IsInjective(points) <=> Cardinality(set) = n
  <2>1. /\ IsFiniteSet(Range(points)) /\ Cardinality(Range(points)) \in Nat
        /\ IsInjective(points) <=> Cardinality(Range(points)) = Len(points)
    BY <1>2, InjectiveIff
  <2> QED
    BY <1>2, <2>1
<1>4. Ordered(OfferedPoints)
  BY OrderAssumption DEF OfferedPoints
<1>5. w.m \in Int /\ w.keys \in Seq(Range(w.keys)) /\ w = P2MS(w.m, w.keys)
  BY SpendsAssumption
<1>6. /\ (\A k \in DOMAIN ds : OnCurve(ds[k].point)) <=> ~\E k \in DOMAIN points : ~OnCurve(points[k])
      /\ (\A k \in DOMAIN ds : Serializable(ds[k].origin))
           <=> ~\E k \in DOMAIN points : ~Serializable(ds[k].origin)
  BY <1>2
<1>7. set \subseteq OfferedPoints
  BY <1>2, ElementOfSeq
<1> HIDE DEF points, set
<1>8. ASSUME IsInjective(points), w = NoScript
      PROVE  (\E p \in set : set = {p} /\ s.script = P2WPKH(p))
               <=> points # <<>> /\ ~SingleFault(s, points)
  <2>1. ASSUME n = 1 PROVE set = {points[1]} /\ points # <<>>
    BY <1>2, <2>1 DEF set
  <2>2. ASSUME NEW p, set = {p} PROVE n = 1
    BY <1>3, <1>8, <2>2, FS_Singleton
  <2>3. ~SingleFault(s, points) <=> n = 1 /\ s.script = P2WPKH(points[1])
    BY <1>2 DEF SingleFault
  <2>4. ASSUME n = 1, s.script = P2WPKH(points[1])
        PROVE  \E p \in set : set = {p} /\ s.script = P2WPKH(p)
    BY <2>1, <2>4
  <2>5. ASSUME NEW p \in set, set = {p}, s.script = P2WPKH(p)
        PROVE  n = 1 /\ s.script = P2WPKH(points[1]) /\ points # <<>>
    <3>1. n = 1
      BY <2>2, <2>5
    <3>2. set = {points[1]} /\ points # <<>>
      BY <2>1, <3>1
    <3>3. p = points[1]
      BY <2>5, <3>2
    <3> QED
      BY <2>5, <3>1, <3>2, <3>3
  <2> QED
    BY <2>1, <2>3, <2>4, <2>5
<1>9. ASSUME IsInjective(points), w # NoScript
      PROVE  (/\ s.script = P2WSH(w) /\ Lists(w.keys, set)
              /\ w.m \in 1 .. Cardinality(set) /\ Cardinality(set) <= 16)
               <=> points # <<>> /\ ~WitnessFault(s, points)
  <2>1. Cardinality(set) = n
    BY <1>3, <1>9
  <2>2. /\ Sorted(points) \in Seq(OfferedPoints)
        /\ Lists(Sorted(points), set)
    <3>1. /\ Sorted(points) \in Seq(OfferedPoints)
          /\ Lists(Sorted(points), Range(points))
      BY <1>2, <1>4, <1>9, SortedLists
    <3> QED
      BY <1>2, <3>1
  <2>3. ASSUME Lists(w.keys, set) PROVE w.keys = Sorted(points)
    <3>1. Range(w.keys) = set
      BY <2>3 DEF Lists
    <3>2. w.keys \in Seq(OfferedPoints)
      <4>1. PICK ks : ks = w.keys
        OBVIOUS
      <4>2. ks \in Seq(set)
        BY <1>5, <3>1, <4>1
      <4>3. ks \in Seq(OfferedPoints)
        BY <1>7, <4>2, SeqMonotonic
      <4> QED
        BY <4>1, <4>3
    <3> QED
      BY <1>4, <2>2, <2>3, <3>2, ListedOnce
  <2>4. Lists(w.keys, set) <=> w.keys = Sorted(points)
    BY <2>2, <2>3
  <2>5. w = P2MS(w.m, Sorted(points)) <=> w.keys = Sorted(points)
    <3>1. w = [m |-> w.m, keys |-> w.keys]
      BY <1>5 DEF P2MS
    <3>2. w = P2MS(w.m, Sorted(points)) => w.keys = Sorted(points)
      <4>1. PICK t : t = Sorted(points)
        OBVIOUS
      <4>2. w = P2MS(w.m, t) => w.keys = t
        BY DEF P2MS
      <4> QED
        BY <4>1, <4>2
    <3>3. w.keys = Sorted(points) => w = P2MS(w.m, Sorted(points))
      BY <1>5
    <3> QED
      BY <3>2, <3>3
  <2>6. w.m \in 1 .. n /\ n <= 16 <=> CanP2MS(w.m, Len(points))
    BY <1>2, <1>5 DEF CanP2MS
  <2>7. w.m \in 1 .. n => points # <<>>
    BY <1>2
  <2> HIDE DEF w
  <2>8. WitnessFault(s, points) <=>
          s.script # P2WSH(w) \/ ~CanP2MS(w.m, Len(points)) \/ w # P2MS(w.m, Sorted(points))
    BY DEF WitnessFault, w
  <2> QED
    BY <2>1, <2>4, <2>5, <2>6, <2>7, <2>8
<1>10. /\ Signable(s) <=>
            /\ Cardinality(set) = n
            /\ \A k \in DOMAIN ds : OnCurve(ds[k].point)
            /\ \A k \in DOMAIN ds : Serializable(ds[k].origin)
            /\ \/ w = NoScript /\ \E p \in set : set = {p} /\ s.script = P2WPKH(p)
               \/ /\ w # NoScript /\ s.script = P2WSH(w) /\ Lists(w.keys, set)
                  /\ w.m \in 1 .. Cardinality(set) /\ Cardinality(set) <= 16
  BY <1>1 DEF Signable, set
<1>11. MetadataFault(s) <=>
         \/ points = <<>>
         \/ ~IsInjective(points)
         \/ \E k \in DOMAIN points : ~OnCurve(points[k])
         \/ w # NoScript /\ WitnessFault(s, points)
         \/ w = NoScript /\ SingleFault(s, points)
         \/ \E k \in DOMAIN points : ~Serializable(ds[k].origin)
  BY DEF MetadataFault, points
<1> HIDE DEF w, ds
<1> QED
  BY <1>3, <1>6, <1>8, <1>9, <1>10, <1>11

-----------------------------------------------------------------------------
(* What stands in the maps.                                                *)

(* A map without conflicts holds each entry it was made from.              *)
LEMMA MapHolds ==
  ASSUME NEW entries, ~Conflict(entries)
  PROVE  /\ DOMAIN MapOf(entries) = {e[1] : e \in entries}
         /\ \A e \in entries : e[1] \in DOMAIN MapOf(entries) /\ MapOf(entries)[e[1]] = e[2]
<1>1. DOMAIN MapOf(entries) = {e[1] : e \in entries}
  BY DEF MapOf
<1>2. ASSUME NEW e \in entries PROVE MapOf(entries)[e[1]] = e[2]
  <2>1. PICK f : f = CHOOSE x \in entries : x[1] = e[1]
    OBVIOUS
  <2>2. f \in entries /\ f[1] = e[1]
    BY <2>1
  <2>3. f[2] = e[2]
    BY <2>2 DEF Conflict
  <2>4. MapOf(entries)[e[1]] = f[2]
    BY <2>1 DEF MapOf
  <2> QED
    BY <2>3, <2>4
<1> QED
  BY <1>1, <1>2

(* The map of a signable spend, with other entries that have other types:  *)
(* it has no conflicts, it holds what the spend declares, and it describes *)
(* the script.                                                             *)
Entries(s, output, types, value) ==
  Metadata(s, output) \union {<<PlainKey(t), value[t]>> : t \in types}

(* The entries of a signable spend hold no conflict and hold what the      *)
(* spend declares, next to entries of other types.                         *)
LEMMA MetadataHolds ==
  ASSUME NEW s \in OfferedSpends, Signable(s), NEW output \in BOOLEAN,
         NEW types, NEW value, NEW entries,
         entries = Entries(s, output, types, value),
         DerivationType(output) \notin types, WitnessType(output) \notin types
  PROVE  /\ ~Conflict(entries)
         /\ \A d \in Range(s.derivations) :
              MapOf(entries)[PubkeyKey(DerivationType(output), d.point)] = d.origin
         /\ \A t \in types : MapOf(entries)[PlainKey(t)] = value[t]
         /\ Describes(MapOf(entries), output, s.script)
<1> DEFINE points == {d.point : d \in Range(s.derivations)}
           w == s.witness
           ws == IF w = NoScript THEN {} ELSE {w}
<1>1. PICK dt, wt : /\ dt = DerivationType(output) /\ wt = WitnessType(output)
                    /\ dt # wt /\ dt \notin types /\ wt \notin types
  BY DEF DerivationType, WitnessType
<1>2. entries = {<<PubkeyKey(dt, d.point), d.origin>> : d \in Range(s.derivations)}
                  \union {<<PlainKey(wt), v>> : v \in ws}
                  \union {<<PlainKey(t), value[t]>> : t \in types}
  BY <1>1 DEF Entries, Metadata
<1>3. \A d, e \in Range(s.derivations) : d.point = e.point => d = e
  <2>1. ~MetadataFault(s)
    BY SignableIff
  <2>2. IsInjective(Points(s.derivations))
    BY <2>1 DEF MetadataFault
  <2>3. PICK n : /\ DOMAIN s.derivations = 1 .. n /\ DOMAIN Points(s.derivations) = 1 .. n
                 /\ \A k \in 1 .. n : Points(s.derivations)[k] = s.derivations[k].point
    BY PointsTyped
  <2> QED
    BY <2>2, <2>3 DEF IsInjective, Range
<1>4. /\ \A p : PubkeyKey(dt, p).type = dt /\ PubkeyKey(dt, p).point = p
      /\ \A t : PlainKey(t).type = t
  BY DEF PubkeyKey, PlainKey
<1>5. \A v, u \in ws : v = u
  OBVIOUS
<1>6. ~Conflict(entries)
  <2> SUFFICES ASSUME NEW d \in entries, NEW e \in entries, d[1] = e[1]
               PROVE  d[2] = e[2]
    BY DEF Conflict
  <2> HIDE DEF ws
  <2>1. \/ d[1].type = dt /\ \E a \in Range(s.derivations) :
                               d = <<PubkeyKey(dt, a.point), a.origin>>
        \/ d[1].type = wt /\ \E v \in ws : d = <<PlainKey(wt), v>>
        \/ \E t \in types : d[1].type = t /\ d = <<PlainKey(t), value[t]>>
    BY <1>2, <1>4
  <2>2. \/ e[1].type = dt /\ \E a \in Range(s.derivations) :
                               e = <<PubkeyKey(dt, a.point), a.origin>>
        \/ e[1].type = wt /\ \E v \in ws : e = <<PlainKey(wt), v>>
        \/ \E t \in types : e[1].type = t /\ e = <<PlainKey(t), value[t]>>
    BY <1>2, <1>4
  <2>3. CASE d[1].type = dt
    <3>1. PICK a \in Range(s.derivations), b \in Range(s.derivations) :
            /\ d = <<PubkeyKey(dt, a.point), a.origin>>
            /\ e = <<PubkeyKey(dt, b.point), b.origin>>
      BY <1>1, <2>1, <2>2, <2>3
    <3>2. a.point = b.point
      BY <1>4, <3>1
    <3> QED
      BY <1>3, <3>1, <3>2
  <2>4. CASE d[1].type = wt
    <3>1. \E v \in ws, u \in ws : d = <<PlainKey(wt), v>> /\ e = <<PlainKey(wt), u>>
      BY <1>1, <2>1, <2>2, <2>4
    <3> QED
      BY <1>5, <3>1
  <2>5. CASE d[1].type \in types
    <3>1. PICK t \in types, u \in types :
            /\ d[1].type = t /\ d = <<PlainKey(t), value[t]>>
            /\ e[1].type = u /\ e = <<PlainKey(u), value[u]>>
      BY <1>1, <2>1, <2>2, <2>5
    <3> QED
      BY <3>1
  <2> QED
    BY <2>1, <2>3, <2>4, <2>5
<1> DEFINE map == MapOf(entries)
<1>7. /\ DOMAIN map = {e[1] : e \in entries}
      /\ \A e \in entries : map[e[1]] = e[2]
  BY <1>6, MapHolds
<1> HIDE DEF map
<1>8. \A d \in Range(s.derivations) : map[PubkeyKey(dt, d.point)] = d.origin
  <2> TAKE d \in Range(s.derivations)
  <2>1. <<PubkeyKey(dt, d.point), d.origin>> \in entries
    BY <1>2
  <2> QED
    BY <1>7, <2>1
<1>9. \A t \in types : map[PlainKey(t)] = value[t]
  <2> TAKE t \in types
  <2>1. <<PlainKey(t), value[t]>> \in entries
    BY <1>2
  <2> QED
    BY <1>7, <2>1
<1>10. Typed(map, dt) = {PubkeyKey(dt, p) : p \in points}
  <2>1. ASSUME NEW key \in Typed(map, dt) PROVE key \in {PubkeyKey(dt, p) : p \in points}
    <3>1. PICK e \in entries : key = e[1] /\ e[1].type = dt
      BY <1>7, <2>1 DEF Typed
    <3>2. PICK d \in Range(s.derivations) : e = <<PubkeyKey(dt, d.point), d.origin>>
      BY <1>1, <1>2, <1>4, <3>1
    <3> QED
      BY <3>1, <3>2
  <2>2. ASSUME NEW d \in Range(s.derivations) PROVE PubkeyKey(dt, d.point) \in Typed(map, dt)
    <3>1. <<PubkeyKey(dt, d.point), d.origin>> \in entries
      BY <1>2
    <3> QED
      BY <1>4, <1>7, <3>1 DEF Typed
  <2> QED
    BY <2>1, <2>2
<1>11. {key.point : key \in Typed(map, dt)} = points
  <2> HIDE DEF points
  <2>1. \A key \in Typed(map, dt) : \E p \in points : key = PubkeyKey(dt, p) /\ key.point = p
    BY <1>4, <1>10
  <2>2. \A p \in points : \E key \in Typed(map, dt) : key.point = p
    BY <1>4, <1>10
  <2> QED
    BY <2>1, <2>2
<1>12. {map[key] : key \in Typed(map, wt)} = ws
  <2>1. ASSUME NEW key \in Typed(map, wt) PROVE map[key] \in ws
    <3>1. PICK e \in entries : key = e[1] /\ e[1].type = wt
      BY <1>7, <2>1 DEF Typed
    <3>2. PICK v \in ws : e = <<PlainKey(wt), v>>
      BY <1>1, <1>2, <1>4, <3>1
    <3> QED
      BY <1>7, <3>1, <3>2
  <2>2. ASSUME NEW v \in ws PROVE PlainKey(wt) \in Typed(map, wt) /\ map[PlainKey(wt)] = v
    <3>1. <<PlainKey(wt), v>> \in entries
      BY <1>2
    <3> QED
      BY <1>4, <1>7, <3>1 DEF Typed
  <2> HIDE DEF ws
  <2> QED
    BY <2>1, <2>2
<1>13. /\ points # {}
       /\ \/ ws = {} /\ \A p \in points : {p} = points /\ s.script = P2WPKH(p)
          \/ /\ ws = {w} /\ s.script = P2WSH(w) /\ Range(w.keys) = points
             /\ Len(w.keys) = Cardinality(points)
  <2>1. points = {s.derivations[k].point : k \in DOMAIN s.derivations}
    BY PointsTyped
  <2>2. CASE w = NoScript /\ \E p \in points : points = {p} /\ s.script = P2WPKH(p)
    BY <2>2
  <2>3. CASE /\ w # NoScript /\ s.script = P2WSH(w) /\ Lists(w.keys, points)
             /\ w.m \in 1 .. Cardinality(points)
    <3>1. points \subseteq OfferedPoints
      BY DEF OfferedPoints
    <3>2. PICK ks : ks = w.keys
      OBVIOUS
    <3>3. ks \in Seq(Range(ks)) /\ Lists(ks, points)
      BY <2>3, <3>2, SpendsAssumption
    <3>4. Range(ks) = points
      BY <3>3 DEF Lists
    <3> HIDE DEF points
    <3>5. ks \in Seq(OfferedPoints)
      BY <3>1, <3>3, <3>4, SeqMonotonic
    <3>6. Ordered(OfferedPoints)
      BY OrderAssumption DEF OfferedPoints
    <3>7. IsInjective(ks)
      BY <3>3, <3>5, <3>6, ListsInjective
    <3>8. IsFiniteSet(Range(ks)) /\ Cardinality(Range(ks)) = Len(ks)
      BY <3>5, <3>7, InjectiveIff
    <3>9. points # {}
      <4>1. ASSUME points = {} PROVE FALSE
        <5>1. Cardinality(points) = 0
          BY <4>1, FS_EmptySet
        <5> QED
          BY <2>3, <5>1
      <4> QED
        BY <4>1
    <3> QED
      BY <2>3, <3>2, <3>4, <3>8, <3>9
  <2> QED
    BY <2>1, <2>2, <2>3 DEF Signable
<1>14. Describes(map, output, s.script)
  <2> HIDE DEF ws, points
  <2>1. CASE ws = {} /\ points # {} /\ \A p \in points : {p} = points /\ s.script = P2WPKH(p)
    BY <1>1, <1>11, <1>12, <2>1 DEF Describes
  <2>2. CASE /\ ws = {w} /\ s.script = P2WSH(w) /\ Range(w.keys) = points
             /\ Len(w.keys) = Cardinality(points)
    <3>1. Cardinality(ws) = 1
      BY <2>2, FS_Singleton
    <3>2. \A v \in ws : s.script = P2WSH(v) /\ Range(v.keys) = points
                        /\ Len(v.keys) = Cardinality(points)
      BY <2>2
    <3> QED
      BY <1>1, <1>11, <1>12, <3>1, <3>2 DEF Describes
  <2> QED
    BY <1>13, <2>1, <2>2
<1> QED
  BY <1>1, <1>6, <1>8, <1>9, <1>14 DEF map

(* The map of an input that may be asked for.                              *)
LEMMA InputHolds ==
  ASSUME NEW item \in Inputs, GoodInput(item)
  PROVE  LET map == MapOf(InputEntries(item))
         IN  /\ ~Conflict(InputEntries(item))
             /\ map[PlainKey(1)] = TxOut(item.amount, item.spend.script)
             /\ \A d \in Range(item.spend.derivations) :
                  map[PubkeyKey(6, d.point)] = d.origin
             /\ Describes(map, FALSE, item.spend.script)
<1> DEFINE value == [t \in {1, 3} |-> IF t = 1 THEN TxOut(item.amount, item.spend.script)
                                      ELSE "SIGHASH_ALL"]
           entries == InputEntries(item)
<1>1. item.spend \in OfferedSpends /\ Signable(item.spend)
  BY DEF OfferedSpends, GoodInput
<1>2. value[1] = TxOut(item.amount, item.spend.script) /\ value[3] = "SIGHASH_ALL"
  OBVIOUS
<1> HIDE DEF value
<1>3. entries = Metadata(item.spend, FALSE) \union {<<PlainKey(t), value[t]>> : t \in {1, 3}}
  BY <1>2 DEF InputEntries
<1>4. DerivationType(FALSE) = 6 /\ WitnessType(FALSE) = 5
  BY DEF DerivationType, WitnessType
<1> HIDE DEF entries
<1>5. PICK types, s, o : types = {1, 3} /\ s = item.spend /\ o = FALSE
  OBVIOUS
<1>6. /\ o \in BOOLEAN
      /\ entries = Entries(s, o, types, value)
      /\ DerivationType(o) \notin types /\ WitnessType(o) \notin types
      /\ s \in OfferedSpends /\ Signable(s)
  <2>1. entries = Entries(s, o, types, value)
    BY <1>3, <1>5, Zenon DEF Entries
  <2>2. DerivationType(o) = 6 /\ WitnessType(o) = 5
    BY <1>4, <1>5, Zenon
  <2>3. o \in BOOLEAN
    BY <1>5
  <2> QED
    BY <1>1, <1>5, <2>1, <2>2, <2>3
<1>7. /\ ~Conflict(entries)
      /\ \A d \in Range(s.derivations) :
           MapOf(entries)[PubkeyKey(DerivationType(o), d.point)] = d.origin
      /\ \A t \in types : MapOf(entries)[PlainKey(t)] = value[t]
      /\ Describes(MapOf(entries), o, s.script)
  BY <1>6, MetadataHolds
<1>8. DerivationType(o) = 6 /\ Describes(MapOf(entries), FALSE, s.script)
  BY <1>4, <1>5, <1>7, Zenon
<1> QED
  BY <1>2, <1>5, <1>7, <1>8 DEF entries

(* The map of an output: empty, or that of the wallet it pays to.          *)
LEMMA OutputHolds ==
  ASSUME NEW item \in Outputs, GoodOutput(item)
  PROVE  LET map == MapOf(OutputEntries(item))
         IN  /\ ~Conflict(OutputEntries(item))
             /\ \A s \in item.spend :
                  \A d \in Range(s.derivations) : map[PubkeyKey(2, d.point)] = d.origin
             /\ DOMAIN map # {} => Describes(map, TRUE, item.script)
<1> DEFINE entries == OutputEntries(item)
<1>1. CASE item.spend = {}
  <2>1. entries = {}
    BY <1>1 DEF OutputEntries
  <2>2. ~Conflict(entries)
    BY <2>1 DEF Conflict
  <2>3. DOMAIN MapOf(entries) = {}
    BY <2>1 DEF MapOf
  <2> QED
    BY <1>1, <2>2, <2>3
<1>2. CASE item.spend # {}
  <2>1. PICK s : item.spend = {s}
    BY <1>2, SpendsAssumption
  <2>2. s \in OfferedSpends /\ Signable(s) /\ s.script = item.script
    BY <2>1 DEF OfferedSpends, GoodOutput
  <2>3. PICK types, value, o : types = {} /\ value = <<>> /\ o = TRUE
    OBVIOUS
  <2>4. DerivationType(o) = 2 /\ o \in BOOLEAN
    BY <2>3 DEF DerivationType
  <2>5. entries = Entries(s, o, types, value)
    <3>1. {<<PlainKey(t), value[t]>> : t \in types} = {}
      BY <2>3
    <3>2. entries = Metadata(s, TRUE)
      BY <2>1 DEF OutputEntries
    <3>3. entries = Metadata(s, o)
      BY <2>3, <3>2, Zenon
    <3> QED
      BY <3>1, <3>3 DEF Entries
  <2>6. DerivationType(o) \notin types /\ WitnessType(o) \notin types
    BY <2>3
  <2> HIDE DEF entries
  <2>7. /\ ~Conflict(entries)
        /\ \A d \in Range(s.derivations) :
             MapOf(entries)[PubkeyKey(DerivationType(o), d.point)] = d.origin
        /\ Describes(MapOf(entries), o, s.script)
    BY <2>2, <2>4, <2>5, <2>6, MetadataHolds
  <2>8. Describes(MapOf(entries), TRUE, s.script)
    BY <2>3, <2>7, Zenon
  <2> QED
    BY <2>1, <2>2, <2>4, <2>7, <2>8 DEF entries
<1> QED
  BY <1>1, <1>2

(* The checks on an input and on an output are what may be asked for.      *)
LEMMA InputRefused ==
  ASSUME NEW item \in Inputs
  PROVE  GoodInput(item) <=> /\ ~Conflict(InputEntries(item))
                             /\ item.txid.hash \in Hashes /\ Fits(item.vout, Uint32)
                             /\ Fits(item.sequence, Uint32) /\ ~MetadataFault(item.spend)
                             /\ ~TxOutFault(item.amount, item.spend.script)
<1>1. item.spend \in OfferedSpends
  BY DEF OfferedSpends
<1>2. Signable(item.spend) <=> ~MetadataFault(item.spend)
  BY <1>1, SignableIff
<1>3. Signable(item.spend) => item.spend.script # EmptyScript
  <2>1. \A w : DOMAIN P2WSH(w) = {"sh"} /\ DOMAIN P2WPKH(w) = {"pkh"}
    BY DEF P2WSH, P2WPKH
  <2>2. DOMAIN EmptyScript = {"raw"}
    BY DEF EmptyScript
  <2>3. \A w : P2WSH(w) # EmptyScript /\ P2WPKH(w) # EmptyScript
    BY <2>1, <2>2
  <2> QED
    BY <2>3 DEF Signable
<1>4. GoodInput(item) => ~Conflict(InputEntries(item))
  BY InputHolds
<1> QED
  BY <1>2, <1>3, <1>4 DEF GoodInput, Fits, TxOutFault

(* _txout and the loop over the outputs refuse exactly the outputs that    *)
(* are not good.                                                           *)
LEMMA OutputRefused ==
  ASSUME NEW item \in Outputs
  PROVE  GoodOutput(item) <=> /\ ~TxOutFault(item.amount, item.script)
                              /\ ~WalletFault(item) /\ ~Conflict(OutputEntries(item))
<1>1. \A s \in item.spend : s \in OfferedSpends
  BY DEF OfferedSpends
<1>2. \A s \in item.spend : Signable(s) <=> ~MetadataFault(s)
  BY <1>1, SignableIff
<1>3. GoodOutput(item) => ~Conflict(OutputEntries(item))
  BY OutputHolds
<1> QED
  BY <1>2, <1>3 DEF GoodOutput, TxOutFault, WalletFault, Fits

(* The global map: one transaction, and an origin for each extended key.   *)
LEMMA GlobalsConflict ==
  Conflict(GlobalEntries) <=>
    \E x, y \in DeclaredXpubs : x.xpub = y.xpub /\ x.origin # y.origin
<1>1. \A x, y : XpubKey(x) = XpubKey(y) => x = y
  BY DEF XpubKey
<1>2. \A x : XpubKey(x) # PlainKey(0)
  BY DEF XpubKey, PlainKey
<1>3. PICK T, X : T = Tx /\ X = DeclaredXpubs
  OBVIOUS
<1>4. GlobalEntries = {<<XpubKey(x.xpub), x.origin>> : x \in X} \union { <<PlainKey(0), T>> }
  BY <1>3 DEF GlobalEntries
<1>5. ASSUME NEW x \in X, NEW y \in X, x.xpub = y.xpub, x.origin # y.origin
      PROVE  Conflict(GlobalEntries)
  <2>1. PICK d, e : d = <<XpubKey(x.xpub), x.origin>> /\ e = <<XpubKey(y.xpub), y.origin>>
    OBVIOUS
  <2>2. d \in GlobalEntries /\ e \in GlobalEntries /\ d[1] = e[1] /\ d[2] # e[2]
    BY <1>4, <1>5, <2>1
  <2> QED
    BY <2>2 DEF Conflict
<1>6. ASSUME NEW d \in GlobalEntries, NEW e \in GlobalEntries, d[1] = e[1], d[2] # e[2]
      PROVE  \E x, y \in X : x.xpub = y.xpub /\ x.origin # y.origin
  <2>1. d = <<PlainKey(0), T>> \/ \E x \in X : d = <<XpubKey(x.xpub), x.origin>>
    BY <1>4
  <2>2. e = <<PlainKey(0), T>> \/ \E x \in X : e = <<XpubKey(x.xpub), x.origin>>
    BY <1>4
  <2>3. d # <<PlainKey(0), T>>
    BY <1>2, <1>6, <2>2
  <2>4. e # <<PlainKey(0), T>>
    BY <1>2, <1>6, <2>1
  <2>5. PICK x \in X, y \in X : /\ d = <<XpubKey(x.xpub), x.origin>>
                                /\ e = <<XpubKey(y.xpub), y.origin>>
    BY <2>1, <2>2, <2>3, <2>4
  <2> QED
    BY <1>1, <1>6, <2>5
<1> QED
  BY <1>3, <1>5, <1>6 DEF Conflict

-----------------------------------------------------------------------------
(* Totals of amounts are amounts, if not always small enough.              *)

(* A set of numbers has a least.                                           *)
LEMMA Least ==
  ASSUME NEW T, T \subseteq Nat, T # {}
  PROVE  \E m \in T : \A i \in T : m <= i
<1>1. PICK m \in T : \A i \in T : ~(<<i, m>> \in OpToRel(<, Nat))
  BY NatLessThanWellFounded, WFMin
<1>2. \A i \in T : ~(i < m)
  BY <1>1 DEF OpToRel
<1> QED
  BY <1>2

(* The function of the running totals exists.                              *)
LEMMA RunningTotal ==
  ASSUME NEW a, NEW n \in Nat
  PROVE  \E f : f = [k \in 0 .. n |-> IF k = 0 THEN 0 ELSE f[k - 1] + a[k]]
<1> DEFINE Sums(f, m) == f = [k \in 0 .. m |-> IF k = 0 THEN 0 ELSE f[k - 1] + a[k]]
           T == {m \in Nat : \A f : ~Sums(f, m)}
<1>1. ASSUME T # {} PROVE FALSE
  <2>1. T \subseteq Nat
    OBVIOUS
  <2> HIDE DEF T
  <2>2. PICK m \in T : \A i \in T : m <= i
    BY <1>1, <2>1, Least
  <2> USE DEF T
  <2>3. m \in Nat /\ \A f : ~Sums(f, m)
    BY <2>2
  <2>4. CASE m = 0
    <3>1. Sums([k \in 0 .. 0 |-> 0], 0)
      OBVIOUS
    <3> HIDE DEF Sums
    <3> QED
      BY <2>3, <2>4, <3>1
  <2>5. CASE m # 0
    <3>1. m - 1 \in Nat /\ m - 1 \notin T
      BY <2>2, <2>3, <2>5
    <3>2. PICK f : Sums(f, m - 1)
      BY <3>1
    <3> DEFINE g == [k \in 0 .. m |-> IF k = m THEN f[m - 1] + a[m] ELSE f[k]]
    <3>3. /\ f[0] = 0
          /\ \A k \in 1 .. (m - 1) : f[k] = f[k - 1] + a[k]
      BY <2>3, <2>5, <3>1, <3>2
    <3>4. /\ g[0] = 0
          /\ \A k \in 1 .. m : g[k] = g[k - 1] + a[k]
      <4>1. g[0] = 0
        BY <2>3, <2>5, <3>3
      <4>2. ASSUME NEW k \in 1 .. m PROVE g[k] = g[k - 1] + a[k]
        <5>1. k - 1 \in 0 .. (m - 1) /\ k \in 0 .. m /\ k - 1 \in 0 .. m /\ k - 1 # m
          BY <2>3
        <5>2. g[k - 1] = f[k - 1]
          BY <5>1
        <5>3. CASE k = m
          BY <5>1, <5>2, <5>3
        <5>4. CASE k # m
          <6>1. k \in 1 .. (m - 1)
            BY <2>3, <5>4
          <6> QED
            BY <3>3, <5>1, <5>2, <5>4, <6>1
        <5> QED
          BY <5>3, <5>4
      <4> QED
        BY <4>1, <4>2
    <3>5. g = [k \in 0 .. m |-> g[k]]
      OBVIOUS
    <3> HIDE DEF g
    <3>6. \A k \in 0 .. m : g[k] = IF k = 0 THEN 0 ELSE g[k - 1] + a[k]
      BY <2>3, <3>4
    <3>7. Sums(g, m)
      BY <3>5, <3>6
    <3> QED
      BY <2>3, <3>7
  <2> QED
    BY <2>4, <2>5
<1>2. n \notin T
  BY <1>1
<1> QED
  BY <1>2

(* The sum of a list of naturals is one: the function it is defined by     *)
(* exists, which a least counterexample shows.                             *)
LEMMA SumInNat ==
  ASSUME NEW a, NEW n \in Nat, Len(a) = n, \A k \in 1 .. n : a[k] \in Nat
  PROVE  SumOf(a) \in Nat
<1> DEFINE f == CHOOSE f : f = [k \in 0 .. n |-> IF k = 0 THEN 0 ELSE f[k - 1] + a[k]]
<1>1. SumOf(a) = f[n]
  BY DEF SumOf
<1>2. f = [k \in 0 .. n |-> IF k = 0 THEN 0 ELSE f[k - 1] + a[k]]
  BY RunningTotal
<1> HIDE DEF f
<1>3. f[0] = 0 /\ \A k \in 1 .. n : f[k] = f[k - 1] + a[k]
  BY <1>2
<1> DEFINE T == {k \in 0 .. n : f[k] \notin Nat}
<1>4. ASSUME T # {} PROVE FALSE
  <2>1. T \subseteq Nat
    OBVIOUS
  <2>2. PICK m \in T : \A i \in T : m <= i
    <3> HIDE DEF T
    <3> QED
      BY <1>4, <2>1, Least
  <2>3. m \in 1 .. n /\ f[m] = f[m - 1] + a[m] /\ a[m] \in Nat /\ f[m] \notin Nat
    BY <1>3, <2>2
  <2>4. m - 1 \in 0 .. n /\ m - 1 \notin T
    BY <2>2, <2>3
  <2>5. f[m - 1] \in Nat
    BY <2>4
  <2> QED
    BY <2>3, <2>5
<1>5. n \notin T
  BY <1>4
<1> QED
  BY <1>1, <1>5

-----------------------------------------------------------------------------
(* The inductive invariant.                                                *)

(* The inputs that passed: what the loop keeps of them.                    *)
InputsInv ==
  /\ inputs \in Seq(Inputs) /\ Len(inputs) <= call.inputs
  /\ \E S : txInputs \in Seq(S)
  /\ \E S : inputMaps \in Seq(S)
  /\ Len(inputMaps) = Len(txInputs) /\ Len(txInputs) <= Len(inputs)
  /\ pc # "rejected" => Len(txInputs) = Len(inputs)
  /\ \A k \in 1 .. Len(txInputs) : /\ GoodInput(inputs[k])
                                   /\ txInputs[k] = TxIn(inputs[k])
                                   /\ inputMaps[k] = MapOf(InputEntries(inputs[k]))
  /\ seen = {Outpoint(inputs[k]) : k \in 1 .. Len(txInputs)}
  /\ \A j, k \in 1 .. Len(txInputs) : Outpoint(inputs[j]) = Outpoint(inputs[k]) => j = k

OutputsInv ==
  /\ outputs \in Seq(Outputs) /\ Len(outputs) <= call.outputs
  /\ \E S : txOutputs \in Seq(S)
  /\ \E S : outputMaps \in Seq(S)
  /\ Len(outputMaps) = Len(txOutputs) /\ Len(txOutputs) <= Len(outputs)
  /\ pc # "rejected" => Len(txOutputs) = Len(outputs)
  /\ \A k \in 1 .. Len(txOutputs) :
       /\ GoodOutput(outputs[k])
       /\ txOutputs[k] = TxOut(outputs[k].amount, outputs[k].script)
       /\ outputMaps[k] = MapOf(OutputEntries(outputs[k]))

(* What each phase has established, and what a rejection means.            *)
Valid == GoodCall /\ GoodItems /\ GoodTotals /\ GoodXpubs

PhaseInv ==
  /\ pc \in {"header", "inputs", "outputs", "totals", "maps", "built", "rejected"}
  /\ call \in [version : {Int31, Int31 + 1}, locktime : {Uint32, Uint32 + 1},
               inputs : 0 .. MaxItems, outputs : 0 .. MaxItems]
  /\ pc \notin {"header", "rejected"} => GoodCall
  /\ pc \in {"maps", "built"} => TotalsFit(Total(inputs), Total(outputs))
  /\ pc = "built" =>
       /\ GoodXpubs
       /\ psbt = [globals |-> MapOf(GlobalEntries), inputs |-> inputMaps,
                  outputs |-> outputMaps]
  /\ pc = "rejected" => ~Valid

BuildInv == InputsInv /\ OutputsInv /\ PhaseInv

(* Before the first item the lists and the maps are empty.                 *)
LEMMA InitBuild == Init => BuildInv
<1> SUFFICES ASSUME Init PROVE BuildInv
  OBVIOUS
<1>1. /\ pc = "header" /\ inputs = <<>> /\ outputs = <<>> /\ seen = {}
      /\ txInputs = <<>> /\ txOutputs = <<>> /\ inputMaps = <<>> /\ outputMaps = <<>>
      /\ call \in [version : {Int31, Int31 + 1}, locktime : {Uint32, Uint32 + 1},
                   inputs : 0 .. MaxItems, outputs : 0 .. MaxItems]
  BY DEF Init
<1>2. 0 <= call.inputs /\ 0 <= call.outputs
  BY <1>1, LimitAssumption
<1>3. /\ Len(inputs) = 0 /\ Len(outputs) = 0 /\ Len(txInputs) = 0 /\ Len(txOutputs) = 0
      /\ Len(inputMaps) = 0 /\ Len(outputMaps) = 0
      /\ inputs \in Seq(Inputs) /\ outputs \in Seq(Outputs)
      /\ txInputs \in Seq({}) /\ txOutputs \in Seq({})
      /\ inputMaps \in Seq({}) /\ outputMaps \in Seq({})
  BY <1>1
<1>4. InputsInv
  <2>1. {Outpoint(inputs[k]) : k \in 1 .. 0} = {}
    OBVIOUS
  <2> QED
    BY <1>1, <1>2, <1>3, <2>1 DEF InputsInv
<1>5. OutputsInv
  BY <1>1, <1>2, <1>3 DEF OutputsInv
<1>6. PhaseInv
  BY <1>1 DEF PhaseInv
<1> QED
  BY <1>4, <1>5, <1>6 DEF BuildInv

(* What a step leaves alone.                                               *)
LEMMA InputsKept ==
  ASSUME InputsInv, UNCHANGED <<call, inputs, seen, txInputs, inputMaps>>,
         pc' = "rejected" \/ pc # "rejected"
  PROVE  InputsInv'
  BY DEF InputsInv

(* A step that leaves the outputs alone keeps what is known of them.       *)
LEMMA OutputsKept ==
  ASSUME OutputsInv, UNCHANGED <<call, outputs, txOutputs, outputMaps>>,
         pc' = "rejected" \/ pc # "rejected"
  PROVE  OutputsInv'
  BY DEF OutputsInv

(* Whether a request is good depends on the request alone.                 *)
LEMMA RequestKept ==
  ASSUME UNCHANGED <<call, inputs, outputs>>
  PROVE  /\ GoodCall' <=> GoodCall
         /\ GoodItems' <=> GoodItems
         /\ GoodTotals' <=> GoodTotals
         /\ DeclaredXpubs' = DeclaredXpubs
         /\ GoodXpubs' <=> GoodXpubs
         /\ Valid' <=> Valid
         /\ Total(inputs)' = Total(inputs) /\ Total(outputs)' = Total(outputs)
<1>1. /\ GoodCall' <=> GoodCall
      /\ GoodItems' <=> GoodItems
  BY DEF GoodCall, GoodItems
<1>2. Total(inputs)' = Total(inputs) /\ Total(outputs)' = Total(outputs)
  OBVIOUS
<1>3. GoodTotals' <=> GoodTotals
  BY <1>2 DEF GoodTotals
<1>4. DeclaredXpubs' = DeclaredXpubs
  BY DEF DeclaredXpubs, Spends
<1>5. GoodXpubs' <=> GoodXpubs
  BY <1>4 DEF GoodXpubs
<1> QED
  BY <1>1, <1>2, <1>3, <1>4, <1>5 DEF Valid

(* Before a rejection every item that was taken is good.                   *)
LEMMA ItemsGood ==
  ASSUME InputsInv, OutputsInv, pc # "rejected"
  PROVE  /\ GoodItems
         /\ DOMAIN inputs = 1 .. Len(txInputs) /\ Len(txInputs) = Len(inputs)
         /\ DOMAIN outputs = 1 .. Len(txOutputs) /\ Len(txOutputs) = Len(outputs)
<1>1. /\ inputs \in Seq(Inputs) /\ Len(txInputs) = Len(inputs)
      /\ outputs \in Seq(Outputs) /\ Len(txOutputs) = Len(outputs)
  BY DEF InputsInv, OutputsInv
<1>2. DOMAIN inputs = 1 .. Len(txInputs) /\ DOMAIN outputs = 1 .. Len(txOutputs)
  BY <1>1, LenProperties
<1>3. GoodItems
  BY <1>2 DEF InputsInv, OutputsInv, GoodItems
<1> QED
  BY <1>1, <1>2, <1>3

(* The check of version and locktime keeps the invariant.                  *)
LEMMA HeaderKeeps ==
  ASSUME BuildInv, CheckHeader
  PROVE  BuildInv'
<1>1. /\ pc = "header"
      /\ UNCHANGED <<call, inputs, outputs, seen, txInputs, txOutputs, inputMaps, outputMaps>>
      /\ pc' \in {"inputs", "rejected"}
  BY DEF CheckHeader, loops
<1>2. pc' = "inputs" <=> GoodCall
  <2>1. call \in [version : {Int31, Int31 + 1}, locktime : {Uint32, Uint32 + 1},
                  inputs : 0 .. MaxItems, outputs : 0 .. MaxItems]
    BY DEF BuildInv, PhaseInv
  <2>2. GoodCall <=> /\ call.inputs # 0 /\ call.outputs # 0
                     /\ Fits(call.version, Int31) /\ Fits(call.locktime, Uint32)
    BY <2>1, LimitAssumption DEF GoodCall, Fits
  <2> QED
    BY <2>2 DEF CheckHeader
<1>3. InputsInv' /\ OutputsInv'
  BY <1>1, InputsKept, OutputsKept DEF BuildInv
<1>4. /\ GoodCall' <=> GoodCall
      /\ Valid' <=> Valid
  BY <1>1, RequestKept
<1>5. PhaseInv'
  BY <1>1, <1>2, <1>4 DEF BuildInv, PhaseInv, Valid
<1> QED
  BY <1>3, <1>5 DEF BuildInv

(* The ends of the loops.                                                  *)
LEMMA LoopsEndKeeps ==
  ASSUME BuildInv, EndInputs \/ EndOutputs
  PROVE  BuildInv'
<1>1. /\ pc \in {"inputs", "outputs"} /\ pc' \in {"outputs", "totals"}
      /\ UNCHANGED <<call, inputs, outputs, seen, txInputs, txOutputs, inputMaps, outputMaps>>
  BY DEF EndInputs, EndOutputs, loops
<1>2. InputsInv' /\ OutputsInv'
  BY <1>1, InputsKept, OutputsKept DEF BuildInv
<1>3. GoodCall' <=> GoodCall
  BY <1>1, RequestKept
<1>4. PhaseInv'
  BY <1>1, <1>3 DEF BuildInv, PhaseInv
<1> QED
  BY <1>2, <1>4 DEF BuildInv

(* The totals of good items are natural numbers, so that the three         *)
(* comparisons of the code are the two that matter.                        *)
LEMMA TotalsNatural ==
  ASSUME InputsInv, OutputsInv, pc # "rejected"
  PROVE  Total(inputs) \in Nat /\ Total(outputs) \in Nat
<1>1. /\ GoodItems
      /\ inputs \in Seq(Inputs) /\ outputs \in Seq(Outputs)
  BY ItemsGood DEF InputsInv, OutputsInv
<1>2. ASSUME NEW items, NEW S, items \in Seq(S),
             \A k \in DOMAIN items : items[k].amount \in 0 .. MaxMoney
      PROVE  Total(items) \in Nat
  <2>1. PICK n : n = Len(items)
    OBVIOUS
  <2>2. n \in Nat /\ DOMAIN items = 1 .. n
    BY <1>2, <2>1, LenProperties
  <2>3. PICK a : a = Amounts(items)
    OBVIOUS
  <2>4. /\ a = [k \in 1 .. n |-> items[k].amount]
        /\ \A k \in 1 .. n : a[k] \in Nat
    BY <1>2, <2>2, <2>3 DEF Amounts
  <2>5. Len(a) = n
    BY <2>2, <2>4
  <2>6. SumOf(a) \in Nat
    BY <2>2, <2>4, <2>5, SumInNat
  <2> QED
    BY <2>3, <2>6 DEF Total
<1>3. \A k \in DOMAIN inputs : inputs[k].amount \in 0 .. MaxMoney
  BY <1>1 DEF GoodItems, GoodInput
<1>4. \A k \in DOMAIN outputs : outputs[k].amount \in 0 .. MaxMoney
  BY <1>1 DEF GoodItems, GoodOutput
<1>5. Total(inputs) \in Nat
  BY <1>1, <1>2, <1>3
<1>6. Total(outputs) \in Nat
  BY <1>1, <1>2, <1>4
<1> QED
  BY <1>5, <1>6

(* The check of the totals keeps the invariant.                            *)
LEMMA TotalsKeep ==
  ASSUME BuildInv, CheckTotals
  PROVE  BuildInv'
<1>1. /\ pc = "totals"
      /\ pc' = (IF TotalsFit(Total(inputs), Total(outputs)) THEN "maps" ELSE "rejected")
      /\ UNCHANGED <<call, inputs, outputs, seen, txInputs, txOutputs, inputMaps, outputMaps>>
  BY DEF CheckTotals, loops
<1>2. InputsInv' /\ OutputsInv'
  BY <1>1, InputsKept, OutputsKept DEF BuildInv
<1>3. /\ GoodCall' <=> GoodCall
      /\ Valid' <=> Valid
      /\ Total(inputs') = Total(inputs) /\ Total(outputs') = Total(outputs)
  BY <1>1, RequestKept
<1>4. GoodTotals => TotalsFit(Total(inputs), Total(outputs))
  <2>1. Total(inputs) \in Nat /\ Total(outputs) \in Nat
    BY <1>1, TotalsNatural DEF BuildInv
  <2> QED
    BY <2>1, LimitAssumption DEF GoodTotals, TotalsFit, Fits
<1>5. PhaseInv'
  <2>1. CASE TotalsFit(Total(inputs), Total(outputs))
    BY <1>1, <1>3, <2>1 DEF BuildInv, PhaseInv
  <2>2. CASE ~TotalsFit(Total(inputs), Total(outputs))
    BY <1>1, <1>3, <1>4, <2>2 DEF BuildInv, PhaseInv, Valid
  <2> QED
    BY <2>1, <2>2
<1> QED
  BY <1>2, <1>5 DEF BuildInv

(* Writing the maps keeps the invariant.                                   *)
LEMMA MapsKeep ==
  ASSUME BuildInv, BuildMaps
  PROVE  BuildInv'
<1>1. /\ pc = "maps" /\ pc' \in {"built", "rejected"}
      /\ UNCHANGED <<call, inputs, outputs, seen, txInputs, txOutputs, inputMaps, outputMaps>>
  BY DEF BuildMaps, loops
<1>2. InputsInv' /\ OutputsInv'
  BY <1>1, InputsKept, OutputsKept DEF BuildInv
<1>3. /\ GoodCall' <=> GoodCall
      /\ GoodXpubs' <=> GoodXpubs
      /\ Valid' <=> Valid
      /\ DeclaredXpubs' = DeclaredXpubs
      /\ Total(inputs') = Total(inputs) /\ Total(outputs') = Total(outputs)
  BY <1>1, RequestKept
<1>4. GoodXpubs <=> ~((\E x \in DeclaredXpubs : XpubFault(x)) \/ Conflict(GlobalEntries))
  <2>1. Conflict(GlobalEntries) <=>
          \E x, y \in DeclaredXpubs : x.xpub = y.xpub /\ x.origin # y.origin
    BY GlobalsConflict
  <2> HIDE DEF DeclaredXpubs, GlobalEntries
  <2> QED
    BY <2>1 DEF GoodXpubs, XpubFault
<1>5. GlobalEntries' = GlobalEntries
  BY <1>1, <1>3 DEF GlobalEntries, Tx
<1>6. PhaseInv'
  <2>1. CASE GoodXpubs
    <3>1. /\ pc' = "built"
          /\ psbt' = [globals |-> MapOf(GlobalEntries), inputs |-> inputMaps,
                      outputs |-> outputMaps]
      BY <1>4, <2>1 DEF BuildMaps
    <3> QED
      BY <1>1, <1>3, <1>5, <2>1, <3>1 DEF BuildInv, PhaseInv
  <2>2. CASE ~GoodXpubs
    <3>1. pc' = "rejected"
      BY <1>4, <2>2 DEF BuildMaps
    <3> QED
      BY <1>1, <1>3, <2>2, <3>1 DEF BuildInv, PhaseInv, Valid
  <2> QED
    BY <2>1, <2>2
<1> QED
  BY <1>2, <1>6 DEF BuildInv

(* One round of the loop over inputs: the item is good and the lists grow  *)
(* together, or the request is not valid.                                  *)
LEMMA InputKeeps ==
  ASSUME BuildInv, TakeInput
  PROVE  BuildInv'
<1>1. /\ pc = "inputs" /\ Len(inputs) < call.inputs
      /\ UNCHANGED <<call, outputs, txOutputs, outputMaps, psbt>>
      /\ inputs \in Seq(Inputs)
      /\ call.inputs \in Nat
  <2>1. call \in [version : {Int31, Int31 + 1}, locktime : {Uint32, Uint32 + 1},
                  inputs : 0 .. MaxItems, outputs : 0 .. MaxItems]
    BY DEF BuildInv, PhaseInv
  <2>2. call.inputs \in Nat
    BY <2>1, LimitAssumption
  <2> QED
    BY <2>2 DEF TakeInput, BuildInv, InputsInv
<1>2. PICK item \in Inputs :
        /\ inputs' = Append(inputs, item)
        /\ IF InputFault(item) \/ Conflict(InputEntries(item))
           THEN pc' = "rejected" /\ UNCHANGED <<seen, txInputs, inputMaps>>
           ELSE /\ seen' = seen \union {Outpoint(item)}
                /\ txInputs' = Append(txInputs, TxIn(item))
                /\ inputMaps' = Append(inputMaps, MapOf(InputEntries(item)))
                /\ UNCHANGED pc
  BY DEF TakeInput
<1>3. PICK n : n = Len(inputs)
  OBVIOUS
<1>4. /\ n \in Nat /\ n + 1 <= call.inputs /\ DOMAIN inputs = 1 .. n
      /\ inputs' \in Seq(Inputs) /\ Len(inputs') = n + 1 /\ DOMAIN inputs' = 1 .. (n + 1)
      /\ \A k \in 1 .. n : inputs'[k] = inputs[k]
      /\ inputs'[n + 1] = item
  <2>1. n \in Nat /\ DOMAIN inputs = 1 .. n
    BY <1>1, <1>3, LenProperties
  <2>2. /\ inputs' \in Seq(Inputs) /\ Len(inputs') = n + 1
        /\ \A k \in 1 .. n : inputs'[k] = inputs[k]
        /\ inputs'[n + 1] = item
    BY <1>1, <1>2, <1>3, AppendProperties
  <2>3. DOMAIN inputs' = 1 .. (n + 1)
    BY <2>2, LenProperties
  <2> QED
    BY <1>1, <1>3, <2>1, <2>2, <2>3
<1>5. /\ \E S : txInputs \in Seq(S)
      /\ \E S : inputMaps \in Seq(S)
      /\ Len(txInputs) = n /\ Len(inputMaps) = n
      /\ \A k \in 1 .. n : /\ GoodInput(inputs[k])
                           /\ txInputs[k] = TxIn(inputs[k])
                           /\ inputMaps[k] = MapOf(InputEntries(inputs[k]))
      /\ seen = {Outpoint(inputs[k]) : k \in 1 .. n}
      /\ \A j, k \in 1 .. n : Outpoint(inputs[j]) = Outpoint(inputs[k]) => j = k
  BY <1>1, <1>3 DEF BuildInv, InputsInv
<1>6. InputFault(item) \/ Conflict(InputEntries(item))
        <=> ~GoodInput(item) \/ Outpoint(item) \in seen
  BY InputRefused DEF InputFault
<1>7. GoodCall' <=> GoodCall
  BY <1>1 DEF GoodCall
<1>8. OutputsInv'
  BY <1>1, OutputsKept DEF BuildInv
<1>9. CASE InputFault(item) \/ Conflict(InputEntries(item))
  <2>1. pc' = "rejected" /\ UNCHANGED <<seen, txInputs, inputMaps>>
    BY <1>2, <1>9
  <2>2. InputsInv'
    <3>1. /\ \A k \in 1 .. n : /\ GoodInput(inputs'[k])
                               /\ txInputs'[k] = TxIn(inputs'[k])
                               /\ inputMaps'[k] = MapOf(InputEntries(inputs'[k]))
          /\ seen' = {Outpoint(inputs'[k]) : k \in 1 .. n}
          /\ \A j, k \in 1 .. n : Outpoint(inputs'[j]) = Outpoint(inputs'[k]) => j = k
          /\ Len(txInputs') = n /\ Len(inputMaps') = n
      BY <1>4, <1>5, <2>1
    <3> QED
      BY <1>1, <1>4, <1>5, <2>1, <3>1 DEF InputsInv
  <2>3. ~GoodItems'
    <3>1. n + 1 \in DOMAIN inputs' /\ n \in Nat
      BY <1>4
    <3>2. CASE ~GoodInput(item)
      BY <1>4, <3>1, <3>2 DEF GoodItems
    <3>3. CASE Outpoint(item) \in seen
      <4>1. PICK k \in 1 .. n : Outpoint(inputs[k]) = Outpoint(item)
        BY <1>5, <3>3
      <4>2. k \in DOMAIN inputs' /\ inputs'[k] = inputs[k] /\ k # n + 1
        BY <1>4, <4>1
      <4> QED
        BY <1>4, <3>1, <4>1, <4>2 DEF GoodItems
    <3> QED
      BY <1>6, <1>9, <3>2, <3>3
  <2>4. PhaseInv'
    BY <1>1, <2>1, <2>3 DEF BuildInv, PhaseInv, Valid
  <2> QED
    BY <1>8, <2>2, <2>4 DEF BuildInv
<1>10. CASE ~(InputFault(item) \/ Conflict(InputEntries(item)))
  <2>1. PICK t, map : t = TxIn(item) /\ map = MapOf(InputEntries(item))
    OBVIOUS
  <2>2. /\ pc' = "inputs" /\ seen' = seen \union {Outpoint(item)}
        /\ txInputs' = Append(txInputs, t) /\ inputMaps' = Append(inputMaps, map)
    BY <1>1, <1>2, <1>10, <2>1
  <2>3. /\ \E S : Append(txInputs, t) \in Seq(S)
        /\ Len(Append(txInputs, t)) = Len(txInputs) + 1
        /\ \A k \in 1 .. Len(txInputs) : Append(txInputs, t)[k] = txInputs[k]
        /\ Append(txInputs, t)[Len(txInputs) + 1] = t
    <3>1. \E S : txInputs \in Seq(S)
      BY <1>5
    <3> QED
      BY <3>1, Appended, Zenon
  <2>4. /\ \E S : Append(inputMaps, map) \in Seq(S)
        /\ Len(Append(inputMaps, map)) = Len(inputMaps) + 1
        /\ \A k \in 1 .. Len(inputMaps) : Append(inputMaps, map)[k] = inputMaps[k]
        /\ Append(inputMaps, map)[Len(inputMaps) + 1] = map
    <3>1. \E S : inputMaps \in Seq(S)
      BY <1>5
    <3> QED
      BY <3>1, Appended, Zenon
  <2>5. /\ \E S : txInputs' \in Seq(S)
        /\ Len(txInputs') = n + 1
        /\ \A k \in 1 .. n : txInputs'[k] = txInputs[k]
        /\ txInputs'[n + 1] = t
    BY <1>5, <2>2, <2>3
  <2>6. /\ \E S : inputMaps' \in Seq(S)
        /\ Len(inputMaps') = n + 1
        /\ \A k \in 1 .. n : inputMaps'[k] = inputMaps[k]
        /\ inputMaps'[n + 1] = map
    BY <1>5, <2>2, <2>4
  <2>7. \A k \in 1 .. (n + 1) : k = n + 1 \/ k \in 1 .. n
    BY <1>4
  <2>8. \A k \in 1 .. (n + 1) : /\ GoodInput(inputs'[k])
                                /\ txInputs'[k] = TxIn(inputs'[k])
                                /\ inputMaps'[k] = MapOf(InputEntries(inputs'[k]))
    <3> TAKE k \in 1 .. (n + 1)
    <3>1. CASE k = n + 1
      BY <1>4, <1>6, <1>10, <2>1, <2>5, <2>6, <3>1
    <3>2. CASE k \in 1 .. n
      BY <1>4, <1>5, <2>5, <2>6, <3>2
    <3> QED
      BY <2>7, <3>1, <3>2
  <2>9. seen' = {Outpoint(inputs'[k]) : k \in 1 .. (n + 1)}
    BY <1>4, <1>5, <2>2, <2>7
  <2>10. ASSUME NEW j \in 1 .. (n + 1), NEW k \in 1 .. (n + 1),
                Outpoint(inputs'[j]) = Outpoint(inputs'[k])
         PROVE  j = k
    <3>1. Outpoint(item) \notin seen
      BY <1>6, <1>10
    <3>2. \A i \in 1 .. n : Outpoint(inputs'[i]) = Outpoint(inputs[i]) /\ Outpoint(inputs[i]) \in seen
      BY <1>4, <1>5
    <3>3. Outpoint(inputs'[n + 1]) = Outpoint(item)
      BY <1>4
    <3>4. CASE j = n + 1 \/ k = n + 1
      BY <2>7, <2>10, <3>1, <3>2, <3>3, <3>4
    <3>5. CASE j \in 1 .. n /\ k \in 1 .. n
      BY <1>5, <2>10, <3>2, <3>5
    <3> QED
      BY <2>7, <3>4, <3>5
  <2>11. InputsInv'
    BY <1>1, <1>4, <2>5, <2>6, <2>8, <2>9, <2>10 DEF InputsInv
  <2>12. PhaseInv'
    BY <1>1, <1>7, <2>2 DEF BuildInv, PhaseInv
  <2> QED
    BY <1>8, <2>11, <2>12 DEF BuildInv
<1> QED
  BY <1>9, <1>10

(* One round of the loop over outputs.                                     *)
LEMMA OutputKeeps ==
  ASSUME BuildInv, TakeOutput
  PROVE  BuildInv'
<1>1. /\ pc = "outputs" /\ Len(outputs) < call.outputs
      /\ UNCHANGED <<call, inputs, seen, txInputs, inputMaps, psbt>>
      /\ outputs \in Seq(Outputs)
      /\ call.outputs \in Nat
  <2>1. call \in [version : {Int31, Int31 + 1}, locktime : {Uint32, Uint32 + 1},
                  inputs : 0 .. MaxItems, outputs : 0 .. MaxItems]
    BY DEF BuildInv, PhaseInv
  <2>2. call.outputs \in Nat
    BY <2>1, LimitAssumption
  <2> QED
    BY <2>2 DEF TakeOutput, BuildInv, OutputsInv
<1>2. PICK item \in Outputs :
        /\ outputs' = Append(outputs, item)
        /\ IF \/ TxOutFault(item.amount, item.script) \/ WalletFault(item)
              \/ Conflict(OutputEntries(item))
           THEN pc' = "rejected" /\ UNCHANGED <<txOutputs, outputMaps>>
           ELSE /\ txOutputs' = Append(txOutputs, TxOut(item.amount, item.script))
                /\ outputMaps' = Append(outputMaps, MapOf(OutputEntries(item)))
                /\ UNCHANGED pc
  BY DEF TakeOutput
<1>3. PICK n : n = Len(outputs)
  OBVIOUS
<1>4. /\ n \in Nat /\ n + 1 <= call.outputs /\ DOMAIN outputs = 1 .. n
      /\ outputs' \in Seq(Outputs) /\ Len(outputs') = n + 1 /\ DOMAIN outputs' = 1 .. (n + 1)
      /\ \A k \in 1 .. n : outputs'[k] = outputs[k]
      /\ outputs'[n + 1] = item
  <2>1. n \in Nat /\ DOMAIN outputs = 1 .. n
    BY <1>1, <1>3, LenProperties
  <2>2. /\ outputs' \in Seq(Outputs) /\ Len(outputs') = n + 1
        /\ \A k \in 1 .. n : outputs'[k] = outputs[k]
        /\ outputs'[n + 1] = item
    BY <1>1, <1>2, <1>3, AppendProperties
  <2>3. DOMAIN outputs' = 1 .. (n + 1)
    BY <2>2, LenProperties
  <2> QED
    BY <1>1, <1>3, <2>1, <2>2, <2>3
<1>5. /\ \E S : txOutputs \in Seq(S)
      /\ \E S : outputMaps \in Seq(S)
      /\ Len(txOutputs) = n /\ Len(outputMaps) = n
      /\ \A k \in 1 .. n : /\ GoodOutput(outputs[k])
                           /\ txOutputs[k] = TxOut(outputs[k].amount, outputs[k].script)
                           /\ outputMaps[k] = MapOf(OutputEntries(outputs[k]))
  BY <1>1, <1>3 DEF BuildInv, OutputsInv
<1>6. GoodOutput(item) <=>
        ~(\/ TxOutFault(item.amount, item.script) \/ WalletFault(item)
          \/ Conflict(OutputEntries(item)))
  BY OutputRefused
<1>7. GoodCall' <=> GoodCall
  BY <1>1 DEF GoodCall
<1>8. InputsInv'
  BY <1>1, InputsKept DEF BuildInv
<1>9. CASE ~GoodOutput(item)
  <2>1. pc' = "rejected" /\ UNCHANGED <<txOutputs, outputMaps>>
    BY <1>2, <1>6, <1>9
  <2>2. OutputsInv'
    <3>1. /\ \A k \in 1 .. n :
               /\ GoodOutput(outputs'[k])
               /\ txOutputs'[k] = TxOut(outputs'[k].amount, outputs'[k].script)
               /\ outputMaps'[k] = MapOf(OutputEntries(outputs'[k]))
          /\ Len(txOutputs') = n /\ Len(outputMaps') = n
      BY <1>4, <1>5, <2>1
    <3> QED
      BY <1>1, <1>4, <1>5, <2>1, <3>1 DEF OutputsInv
  <2>3. ~GoodItems'
    <3>1. n + 1 \in DOMAIN outputs'
      BY <1>4
    <3> QED
      BY <1>4, <1>9, <3>1 DEF GoodItems
  <2>4. PhaseInv'
    BY <1>1, <2>1, <2>3 DEF BuildInv, PhaseInv, Valid
  <2> QED
    BY <1>8, <2>2, <2>4 DEF BuildInv
<1>10. CASE GoodOutput(item)
  <2>1. PICK t, map : /\ t = TxOut(item.amount, item.script)
                      /\ map = MapOf(OutputEntries(item))
    OBVIOUS
  <2>2. /\ pc' = "outputs"
        /\ txOutputs' = Append(txOutputs, t) /\ outputMaps' = Append(outputMaps, map)
    <3>1. ~(\/ TxOutFault(item.amount, item.script) \/ WalletFault(item)
            \/ Conflict(OutputEntries(item)))
      BY <1>6, <1>10
    <3>2. /\ txOutputs' = Append(txOutputs, TxOut(item.amount, item.script))
          /\ outputMaps' = Append(outputMaps, MapOf(OutputEntries(item)))
          /\ UNCHANGED pc
      BY <1>2, <3>1
    <3> QED
      BY <1>1, <2>1, <3>2
  <2>3. /\ \E S : Append(txOutputs, t) \in Seq(S)
        /\ Len(Append(txOutputs, t)) = Len(txOutputs) + 1
        /\ \A k \in 1 .. Len(txOutputs) : Append(txOutputs, t)[k] = txOutputs[k]
        /\ Append(txOutputs, t)[Len(txOutputs) + 1] = t
    <3>1. \E S : txOutputs \in Seq(S)
      BY <1>5
    <3> QED
      BY <3>1, Appended, Zenon
  <2>4. /\ \E S : Append(outputMaps, map) \in Seq(S)
        /\ Len(Append(outputMaps, map)) = Len(outputMaps) + 1
        /\ \A k \in 1 .. Len(outputMaps) : Append(outputMaps, map)[k] = outputMaps[k]
        /\ Append(outputMaps, map)[Len(outputMaps) + 1] = map
    <3>1. \E S : outputMaps \in Seq(S)
      BY <1>5
    <3> QED
      BY <3>1, Appended, Zenon
  <2>5. /\ \E S : txOutputs' \in Seq(S)
        /\ Len(txOutputs') = n + 1
        /\ \A k \in 1 .. n : txOutputs'[k] = txOutputs[k]
        /\ txOutputs'[n + 1] = t
    BY <1>5, <2>2, <2>3
  <2>6. /\ \E S : outputMaps' \in Seq(S)
        /\ Len(outputMaps') = n + 1
        /\ \A k \in 1 .. n : outputMaps'[k] = outputMaps[k]
        /\ outputMaps'[n + 1] = map
    BY <1>5, <2>2, <2>4
  <2>7. \A k \in 1 .. (n + 1) : k = n + 1 \/ k \in 1 .. n
    BY <1>4
  <2>8. \A k \in 1 .. (n + 1) :
          /\ GoodOutput(outputs'[k])
          /\ txOutputs'[k] = TxOut(outputs'[k].amount, outputs'[k].script)
          /\ outputMaps'[k] = MapOf(OutputEntries(outputs'[k]))
    <3> TAKE k \in 1 .. (n + 1)
    <3>1. CASE k = n + 1
      BY <1>4, <1>10, <2>1, <2>5, <2>6, <3>1
    <3>2. CASE k \in 1 .. n
      BY <1>4, <1>5, <2>5, <2>6, <3>2
    <3> QED
      BY <2>7, <3>1, <3>2
  <2>9. OutputsInv'
    BY <1>1, <1>4, <2>5, <2>6, <2>8 DEF OutputsInv
  <2>10. PhaseInv'
    BY <1>1, <1>7, <2>2 DEF BuildInv, PhaseInv
  <2> QED
    BY <1>8, <2>9, <2>10 DEF BuildInv
<1> QED
  BY <1>9, <1>10

(* The inductive invariant holds in every behaviour.                       *)
LEMMA BuildInvHolds == Spec => []BuildInv
<1>1. BuildInv /\ [Next]_vars => BuildInv'
  <2> SUFFICES ASSUME BuildInv, [Next]_vars PROVE BuildInv'
    OBVIOUS
  <2>1. CASE UNCHANGED vars
    <3>1. UNCHANGED <<pc, call, inputs, outputs, seen, txInputs, txOutputs, inputMaps,
                      outputMaps, psbt>>
      BY <2>1 DEF vars, loops
    <3>2. InputsInv' /\ OutputsInv'
      BY <3>1, InputsKept, OutputsKept DEF BuildInv
    <3>3. /\ GoodCall' <=> GoodCall
          /\ GoodXpubs' <=> GoodXpubs
          /\ Valid' <=> Valid
          /\ DeclaredXpubs' = DeclaredXpubs
          /\ Total(inputs') = Total(inputs) /\ Total(outputs') = Total(outputs)
      BY <3>1, RequestKept
    <3>4. GlobalEntries' = GlobalEntries
      BY <3>1, <3>3 DEF GlobalEntries, Tx
    <3>5. PhaseInv'
      BY <3>1, <3>3, <3>4 DEF BuildInv, PhaseInv
    <3> QED
      BY <3>2, <3>5 DEF BuildInv
  <2> QED
    BY <2>1, HeaderKeeps, InputKeeps, OutputKeeps, LoopsEndKeeps, TotalsKeep, MapsKeep DEF Next
<1> QED
  BY <1>1, InitBuild, PTL DEF Spec

-----------------------------------------------------------------------------
(* A PSBT is built for every valid request, and for no other.              *)
THEOREM BuildsWhatIsValid == Spec => []BuiltIffValid
<1>1. BuildInv => BuiltIffValid
  <2> SUFFICES ASSUME BuildInv PROVE BuiltIffValid
    OBVIOUS
  <2>1. ASSUME pc = "built" PROVE Valid
    <3>1. GoodCall /\ GoodXpubs /\ TotalsFit(Total(inputs), Total(outputs))
      BY <2>1 DEF BuildInv, PhaseInv
    <3>2. GoodItems
      BY <2>1, ItemsGood DEF BuildInv
    <3>3. GoodTotals
      BY <3>1, LimitAssumption DEF GoodTotals, TotalsFit, Fits
    <3> QED
      BY <3>1, <3>2, <3>3 DEF Valid
  <2>2. ASSUME pc = "rejected" PROVE ~Valid
    BY <2>2 DEF BuildInv, PhaseInv
  <2> QED
    BY <2>1, <2>2 DEF BuiltIffValid, Valid
<1> QED
  BY <1>1, BuildInvHolds, PTL

(* What a reader of the file finds under the keys of its maps.             *)
LEMMA FileHolds ==
  ASSUME BuildInv, pc = "built"
  PROVE  /\ PsbtTx = Tx
         /\ \A x \in DeclaredXpubs : psbt.globals[XpubKey(x.xpub)] = x.origin
         /\ psbt.inputs = inputMaps /\ psbt.outputs = outputMaps
         /\ inputs \in Seq(Inputs) /\ outputs \in Seq(Outputs)
         /\ DOMAIN inputs = 1 .. Len(inputs) /\ DOMAIN outputs = 1 .. Len(outputs)
         /\ DOMAIN inputMaps = DOMAIN inputs /\ Len(inputMaps) = Len(inputs)
         /\ DOMAIN outputMaps = DOMAIN outputs /\ Len(outputMaps) = Len(outputs)
         /\ DOMAIN txInputs = DOMAIN inputs /\ Len(txInputs) = Len(inputs)
         /\ DOMAIN txOutputs = DOMAIN outputs /\ Len(txOutputs) = Len(outputs)
         /\ \A k \in DOMAIN inputs : /\ inputs[k] \in Inputs /\ GoodInput(inputs[k])
                                     /\ txInputs[k] = TxIn(inputs[k])
                                     /\ inputMaps[k] = MapOf(InputEntries(inputs[k]))
         /\ \A k \in DOMAIN outputs :
              /\ outputs[k] \in Outputs /\ GoodOutput(outputs[k])
              /\ txOutputs[k] = TxOut(outputs[k].amount, outputs[k].script)
              /\ outputMaps[k] = MapOf(OutputEntries(outputs[k]))
<1>1. /\ psbt.globals = MapOf(GlobalEntries)
      /\ psbt.inputs = inputMaps /\ psbt.outputs = outputMaps
      /\ GoodXpubs
  BY DEF BuildInv, PhaseInv
<1>2. ~Conflict(GlobalEntries)
  BY <1>1, GlobalsConflict DEF GoodXpubs
<1>3. \A e \in GlobalEntries : psbt.globals[e[1]] = e[2]
  BY <1>1, <1>2, MapHolds
<1>4. PsbtTx = Tx
  <2>1. <<PlainKey(0), Tx>> \in GlobalEntries
    BY DEF GlobalEntries
  <2> QED
    BY <1>3, <2>1 DEF PsbtTx
<1>5. ASSUME NEW x \in DeclaredXpubs PROVE psbt.globals[XpubKey(x.xpub)] = x.origin
  <2>1. <<XpubKey(x.xpub), x.origin>> \in GlobalEntries
    BY DEF GlobalEntries
  <2> QED
    BY <1>3, <2>1
<1>6. /\ inputs \in Seq(Inputs) /\ outputs \in Seq(Outputs)
      /\ \E S : txInputs \in Seq(S)
      /\ \E S : txOutputs \in Seq(S)
      /\ \E S : inputMaps \in Seq(S)
      /\ \E S : outputMaps \in Seq(S)
      /\ Len(txInputs) = Len(inputs) /\ Len(inputMaps) = Len(inputs)
      /\ Len(txOutputs) = Len(outputs) /\ Len(outputMaps) = Len(outputs)
  BY DEF BuildInv, InputsInv, OutputsInv
<1>7. /\ DOMAIN inputs = 1 .. Len(inputs) /\ DOMAIN outputs = 1 .. Len(outputs)
      /\ DOMAIN txInputs = 1 .. Len(inputs) /\ DOMAIN inputMaps = 1 .. Len(inputs)
      /\ DOMAIN txOutputs = 1 .. Len(outputs) /\ DOMAIN outputMaps = 1 .. Len(outputs)
  BY <1>6, LenProperties
<1>8. /\ \A k \in DOMAIN inputs : inputs[k] \in Inputs
      /\ \A k \in DOMAIN outputs : outputs[k] \in Outputs
  BY <1>6, <1>7, ElementOfSeq
<1>9. /\ \A k \in DOMAIN inputs : /\ GoodInput(inputs[k])
                                  /\ txInputs[k] = TxIn(inputs[k])
                                  /\ inputMaps[k] = MapOf(InputEntries(inputs[k]))
      /\ \A k \in DOMAIN outputs :
           /\ GoodOutput(outputs[k])
           /\ txOutputs[k] = TxOut(outputs[k].amount, outputs[k].script)
           /\ outputMaps[k] = MapOf(OutputEntries(outputs[k]))
  BY <1>6, <1>7 DEF BuildInv, InputsInv, OutputsInv
<1> QED
  BY <1>1, <1>4, <1>5, <1>6, <1>7, <1>8, <1>9

(* No output of an earlier transaction is spent by two inputs, whatever    *)
(* the case its id is spelled in.                                          *)
THEOREM SpendsOnce == Spec => []NoDoubleSpend
<1>1. BuildInv => NoDoubleSpend
  <2> SUFFICES ASSUME BuildInv PROVE NoDoubleSpend
    OBVIOUS
  <2>1. TypeOK
    <3>1. PICK n : n = Len(txOutputs)
      OBVIOUS
    <3>2. DOMAIN txOutputs = 1 .. n
      <4>1. \E S : txOutputs \in Seq(S)
        BY DEF BuildInv, OutputsInv
      <4> QED
        BY <3>1, <4>1, LenProperties
    <3>3. ASSUME NEW k \in 1 .. n PROVE Fits(txOutputs[k].amount, MaxMoney)
      <4>1. /\ GoodOutput(outputs[k])
            /\ txOutputs[k] = TxOut(outputs[k].amount, outputs[k].script)
        BY <3>1, <3>3 DEF BuildInv, OutputsInv
      <4>2. txOutputs[k].amount = outputs[k].amount
        BY <4>1 DEF TxOut
      <4> QED
        BY <4>1, <4>2 DEF GoodOutput, Fits
    <3>4. \A k \in DOMAIN txOutputs : Fits(txOutputs[k].amount, MaxMoney)
      BY <3>2, <3>3
    <3> QED
      BY <3>4 DEF TypeOK, BuildInv, InputsInv, OutputsInv, PhaseInv
  <2>2. ASSUME pc = "built", NEW j \in DOMAIN PsbtTx.ins, NEW k \in DOMAIN PsbtTx.ins,
               PsbtTx.ins[j].hash = PsbtTx.ins[k].hash,
               PsbtTx.ins[j].vout = PsbtTx.ins[k].vout
        PROVE  j = k
    <3>1. PsbtTx = Tx
      BY <2>2, FileHolds
    <3>2. PsbtTx.ins = txInputs
      BY <3>1 DEF Tx
    <3>3. /\ j \in DOMAIN inputs /\ k \in DOMAIN inputs
          /\ txInputs[j] = TxIn(inputs[j]) /\ txInputs[k] = TxIn(inputs[k])
      BY <2>2, <3>2, FileHolds
    <3>4. Outpoint(inputs[j]) = Outpoint(inputs[k])
      BY <2>2, <3>2, <3>3 DEF TxIn, Outpoint
    <3>5. GoodItems
      BY <2>2, ItemsGood DEF BuildInv
    <3> QED
      BY <3>3, <3>4, <3>5 DEF GoodItems
  <2> QED
    BY <2>1, <2>2 DEF NoDoubleSpend
<1> QED
  BY <1>1, BuildInvHolds, PTL

(* The file holds the items in their order, and every origin declared for  *)
(* a key, whichever input or output declares it.                           *)
THEOREM NothingIsLost == Spec => []HoldsWhatWasDeclared
<1>1. BuildInv => HoldsWhatWasDeclared
  <2> SUFFICES ASSUME BuildInv, pc = "built" PROVE HoldsWhatWasDeclared
    BY DEF HoldsWhatWasDeclared
  <2>1. PsbtTx = Tx /\ psbt.inputs = inputMaps /\ psbt.outputs = outputMaps
    BY FileHolds
  <2>2. PsbtTx.ins = txInputs /\ PsbtTx.outs = txOutputs
    BY <2>1 DEF Tx
  <2>3. /\ Len(inputMaps) = Len(inputs) /\ Len(txInputs) = Len(inputs)
        /\ Len(outputMaps) = Len(outputs) /\ Len(txOutputs) = Len(outputs)
    BY FileHolds
  <2>4. ASSUME NEW k \in DOMAIN inputs
        PROVE  /\ PsbtTx.ins[k] = TxIn(inputs[k])
               /\ Utxo(k).amount = inputs[k].amount
               /\ \A d \in Range(inputs[k].spend.derivations) :
                    psbt.inputs[k][PubkeyKey(6, d.point)] = d.origin
               /\ \A x \in Range(inputs[k].spend.xpubs) :
                    psbt.globals[XpubKey(x.xpub)] = x.origin
    <3>1. /\ inputs[k] \in Inputs /\ GoodInput(inputs[k])
          /\ txInputs[k] = TxIn(inputs[k])
          /\ inputMaps[k] = MapOf(InputEntries(inputs[k]))
      BY FileHolds
    <3>2. PICK item : item = inputs[k]
      OBVIOUS
    <3>3. /\ MapOf(InputEntries(item))[PlainKey(1)] = TxOut(item.amount, item.spend.script)
          /\ \A d \in Range(item.spend.derivations) :
               MapOf(InputEntries(item))[PubkeyKey(6, d.point)] = d.origin
      BY <3>1, <3>2, InputHolds
    <3>4. Utxo(k).amount = item.amount
      BY <2>1, <3>1, <3>2, <3>3 DEF Utxo, TxOut
    <3>5. \A x \in Range(inputs[k].spend.xpubs) : x \in DeclaredXpubs
      BY DEF DeclaredXpubs, Spends
    <3>6. \A x \in Range(inputs[k].spend.xpubs) : psbt.globals[XpubKey(x.xpub)] = x.origin
      BY <3>5, FileHolds
    <3> QED
      BY <2>1, <2>2, <3>1, <3>2, <3>3, <3>4, <3>6
  <2>5. ASSUME NEW k \in DOMAIN outputs
        PROVE  /\ PsbtTx.outs[k] = TxOut(outputs[k].amount, outputs[k].script)
               /\ \A s \in outputs[k].spend :
                    /\ \A d \in Range(s.derivations) :
                         psbt.outputs[k][PubkeyKey(2, d.point)] = d.origin
                    /\ \A x \in Range(s.xpubs) : psbt.globals[XpubKey(x.xpub)] = x.origin
    <3>1. /\ outputs[k] \in Outputs /\ GoodOutput(outputs[k])
          /\ txOutputs[k] = TxOut(outputs[k].amount, outputs[k].script)
          /\ outputMaps[k] = MapOf(OutputEntries(outputs[k]))
      BY FileHolds
    <3>2. PICK item : item = outputs[k]
      OBVIOUS
    <3>3. \A s \in item.spend : \A d \in Range(s.derivations) :
            MapOf(OutputEntries(item))[PubkeyKey(2, d.point)] = d.origin
      BY <3>1, <3>2, OutputHolds
    <3>4. \A s \in outputs[k].spend : \A x \in Range(s.xpubs) : x \in DeclaredXpubs
      BY DEF DeclaredXpubs, Spends
    <3>5. \A s \in outputs[k].spend :
            \A x \in Range(s.xpubs) : psbt.globals[XpubKey(x.xpub)] = x.origin
      BY <3>4, FileHolds
    <3> QED
      BY <2>1, <2>2, <3>1, <3>2, <3>3, <3>5
  <2> QED
    BY <2>1, <2>2, <2>3, <2>4, <2>5 DEF HoldsWhatWasDeclared
<1> QED
  BY <1>1, BuildInvHolds, PTL

(* What a signer computes from the file alone: totals and a fee that are   *)
(* amounts, and maps that describe the scripts they stand for.             *)
THEOREM SignersAreTold == Spec => []SignerSeesTruth
<1>1. BuildInv => SignerSeesTruth
  <2> SUFFICES ASSUME BuildInv, pc = "built" PROVE SignerSeesTruth
    BY DEF SignerSeesTruth
  <2>1. PsbtTx = Tx /\ psbt.inputs = inputMaps /\ psbt.outputs = outputMaps
    BY FileHolds
  <2>2. PsbtTx.outs = txOutputs
    BY <2>1 DEF Tx
  <2>3. /\ DOMAIN psbt.inputs = DOMAIN inputs /\ DOMAIN psbt.outputs = DOMAIN outputs
        /\ DOMAIN txOutputs = DOMAIN outputs
    BY <2>1, FileHolds
  <2>4. ASSUME NEW k \in DOMAIN inputs
        PROVE  /\ Utxo(k).amount = inputs[k].amount
               /\ Describes(psbt.inputs[k], FALSE, Utxo(k).script)
    <3>1. /\ inputs[k] \in Inputs /\ GoodInput(inputs[k])
          /\ inputMaps[k] = MapOf(InputEntries(inputs[k]))
      BY FileHolds
    <3>2. PICK item : item = inputs[k]
      OBVIOUS
    <3>3. PICK map : map = MapOf(InputEntries(item))
      OBVIOUS
    <3>4. /\ map[PlainKey(1)] = TxOut(item.amount, item.spend.script)
          /\ Describes(map, FALSE, item.spend.script)
      BY <3>1, <3>2, <3>3, InputHolds
    <3>5. psbt.inputs[k] = map
      BY <2>1, <3>1, <3>2, <3>3
    <3>6. Utxo(k).amount = item.amount /\ Utxo(k).script = item.spend.script
      BY <3>4, <3>5 DEF Utxo, TxOut
    <3>7. Describes(psbt.inputs[k], FALSE, Utxo(k).script)
      BY <3>4, <3>5, <3>6, Zenon
    <3> QED
      BY <3>2, <3>6, <3>7
  <2>5. ASSUME NEW k \in DOMAIN outputs
        PROVE  /\ PsbtTx.outs[k].amount = outputs[k].amount
               /\ DOMAIN psbt.outputs[k] # {} =>
                    Describes(psbt.outputs[k], TRUE, PsbtTx.outs[k].script)
    <3>1. /\ outputs[k] \in Outputs /\ GoodOutput(outputs[k])
          /\ txOutputs[k] = TxOut(outputs[k].amount, outputs[k].script)
          /\ outputMaps[k] = MapOf(OutputEntries(outputs[k]))
      BY FileHolds
    <3>2. PICK item : item = outputs[k]
      OBVIOUS
    <3>3. PICK map : map = MapOf(OutputEntries(item))
      OBVIOUS
    <3>4. DOMAIN map # {} => Describes(map, TRUE, item.script)
      BY <3>1, <3>2, <3>3, OutputHolds
    <3>5. psbt.outputs[k] = map
      BY <2>1, <3>1, <3>2, <3>3
    <3>6. PsbtTx.outs[k].amount = item.amount /\ PsbtTx.outs[k].script = item.script
      BY <2>2, <3>1, <3>2 DEF TxOut
    <3>7. DOMAIN psbt.outputs[k] # {} =>
            Describes(psbt.outputs[k], TRUE, PsbtTx.outs[k].script)
      BY <3>4, <3>5, <3>6, Zenon
    <3> QED
      BY <3>2, <3>6, <3>7
  <2>6. Total([k \in DOMAIN psbt.inputs |-> Utxo(k)]) = Total(inputs)
    <3>1. Amounts([k \in DOMAIN psbt.inputs |-> Utxo(k)]) = Amounts(inputs)
      BY <2>3, <2>4 DEF Amounts
    <3> QED
      BY <3>1 DEF Total
  <2>7. Total(PsbtTx.outs) = Total(outputs)
    <3>1. Amounts(PsbtTx.outs) = Amounts(outputs)
      BY <2>2, <2>3, <2>5 DEF Amounts
    <3> QED
      BY <3>1 DEF Total
  <2>8. {Total(inputs), Total(outputs), Total(inputs) - Total(outputs)} \subseteq 0 .. MaxMoney
    <3>1. TotalsFit(Total(inputs), Total(outputs))
      BY DEF BuildInv, PhaseInv
    <3> QED
      BY <3>1, LimitAssumption DEF TotalsFit, Fits
  <2> QED
    BY <2>3, <2>4, <2>5, <2>6, <2>7, <2>8 DEF SignerSeesTruth
<1> QED
  BY <1>1, BuildInvHolds, PTL
=============================================================================
