--------------------------- MODULE Library_proofs ---------------------------
(***************************************************************************)
(* Proofs about two parts of the library that MCLibrary checks side by     *)
(* side: the key at the end of a path, however it was derived and          *)
(* converted, and the two parsers of a path, which read alike (KeyPaths);  *)
(* and the client that a configuration file leads to, whatever the forms   *)
(* and the order of its lines (ConfigReader).                              *)
(***************************************************************************)
EXTENDS KeyPaths, ConfigReader, FunctionTheorems, FiniteSetTheorems, SequenceTheorems,
        WellFoundedInduction, TLAPS

-----------------------------------------------------------------------------
(* Derivation along a path.                                                *)

(* A sequence, whatever its elements.                                      *)
IsSeq(s) == \E S : s \in Seq(S)

(* A step at the end of a path.                                            *)
LEMMA Lengthened ==
  ASSUME NEW s, IsSeq(s), NEW x
  PROVE  /\ IsSeq(Append(s, x)) /\ Append(s, x) # <<>>
         /\ Len(s) \in Nat /\ Len(Append(s, x)) = Len(s) + 1
         /\ Last(Append(s, x)) = x
         /\ Front(Append(s, x)) = s
<1>1. PICK S : s \in Seq(S)
  BY DEF IsSeq
<1> DEFINE T == S \union {x}
<1>2. s \in Seq(T) /\ x \in T
  BY <1>1, SeqMonotonic
<1> HIDE DEF T
<1> DEFINE t == Append(s, x)
<1>3. /\ t \in Seq(T) /\ Len(s) \in Nat /\ Len(t) = Len(s) + 1
      /\ t[Len(s) + 1] = x /\ \A k \in 1 .. Len(s) : t[k] = s[k]
  BY <1>2
<1> HIDE DEF t
<1>4. t # <<>> /\ Last(t) = x
  BY <1>2, <1>3 DEF Last
<1>5. Front(t) = s
  <2>1. Len(t) - 1 = Len(s)
    BY <1>3
  <2>2. SubSeq(t, 1, Len(s)) \in Seq(T) /\ Len(SubSeq(t, 1, Len(s))) = Len(s)
        /\ \A k \in 1 .. Len(s) : SubSeq(t, 1, Len(s))[k] = t[k]
    BY <1>3
  <2>3. SubSeq(t, 1, Len(s)) = s
    BY <1>2, <1>3, <2>2, SeqEqual
  <2> QED
    BY <2>1, <2>3 DEF Front
<1> QED
  BY <1>3, <1>4, <1>5 DEF t, IsSeq

(* Two paths, one after the other.                                         *)
LEMMA Joined ==
  ASSUME NEW s, IsSeq(s), NEW t, IsSeq(t)
  PROVE  IsSeq(s \o t) /\ s \o <<>> = s
<1>1. PICK S : s \in Seq(S)
  BY DEF IsSeq
<1>2. PICK T : t \in Seq(T)
  BY DEF IsSeq
<1>3. s \in Seq(S \union T) /\ t \in Seq(S \union T)
  BY <1>1, <1>2, SeqMonotonic
<1>4. s \o t \in Seq(S \union T)
  BY <1>3
<1> QED
  BY <1>1, <1>4 DEF IsSeq

(* A child is what the wallet exports one step further down.               *)
LEMMA ChildExported ==
  ASSUME NEW v, NEW seed, NEW p, IsSeq(p), NEW index
  PROVE  Child(Exported(v, seed, p), index) = Exported(v, seed, Append(p, index))
<1>1. /\ Append(p, index) # <<>> /\ Len(Append(p, index)) = Len(p) + 1
      /\ Last(Append(p, index)) = index /\ Front(Append(p, index)) = p
  BY Lengthened
<1> DEFINE q == Append(p, index)
<1> HIDE DEF q
<1>2. q # <<>> /\ Len(q) = Len(p) + 1 /\ Last(q) = index /\ Front(q) = p
  BY <1>1 DEF q
<1> DEFINE k == Exported(v, seed, p)
<1>3. k = [version |-> v, depth |-> Len(p), parent |-> k.parent, number |-> k.number,
           point |-> [seed |-> seed, path |-> p]]
  BY DEF Exported, Point
<1> HIDE DEF k
<1>4. Child(k, index) = [version |-> v, depth |-> Len(p) + 1, parent |-> k.point,
                         number |-> index, point |-> [seed |-> seed, path |-> q]]
  <2> DEFINE a == k.parent
             b == k.number
             d == Len(p)
             point == [seed |-> seed, path |-> p]
  <2>1. k = [version |-> v, depth |-> d, parent |-> a, number |-> b, point |-> point]
    BY <1>3
  <2>2. Point(point.seed, Append(point.path, index)) = [seed |-> seed, path |-> q]
    BY DEF Point, q
  <2>3. k.point = point
    BY <1>3
  <2> HIDE DEF a, b, d, point
  <2>4. Child(k, index) = [k EXCEPT !.depth = d + 1, !.parent = point, !.number = index,
                                    !.point = [seed |-> seed, path |-> q]]
    BY <2>1, <2>2, <2>3 DEF Child, Fingerprint
  <2> QED
    BY <2>1, <2>3, <2>4 DEF d
<1>5. Exported(v, seed, q) = [version |-> v, depth |-> Len(p) + 1,
                              parent |-> [seed |-> seed, path |-> p],
                              number |-> index, point |-> [seed |-> seed, path |-> q]]
  BY <1>2 DEF Exported, Point
<1>6. k.point = [seed |-> seed, path |-> p]
  BY <1>3
<1> QED
  BY <1>4, <1>5, <1>6 DEF k, q

(* The same on a path that follows another one.                            *)
LEMMA StepExported ==
  ASSUME NEW v, NEW seed, NEW p, IsSeq(p), NEW q, IsSeq(q), NEW n, n = Exported(v, seed, p \o q),
         NEW index
  PROVE  Child(n, index) = Exported(v, seed, p \o Append(q, index))
<1>1. IsSeq(p \o q)
  BY Joined
<1>2. Child(n, index) = Exported(v, seed, Append(p \o q, index))
  BY <1>1, ChildExported
<1>3. Append(p \o q, index) = p \o Append(q, index)
  <2>1. PICK S : p \in Seq(S)
    BY DEF IsSeq
  <2>2. PICK T : q \in Seq(T)
    BY DEF IsSeq
  <2> DEFINE U == S \union T \union {index}
  <2>3. p \in Seq(U) /\ q \in Seq(U) /\ index \in U
    BY <2>1, <2>2, SeqMonotonic
  <2> HIDE DEF U
  <2> QED
    BY <2>3
<1> QED
  BY <1>2, <1>3, Zenon

(* Versions come in pairs, and a conversion keeps to its network.          *)
LEMMA Converted ==
  ASSUME NEW v \in DOMAIN Versions, NEW seed, NEW p, NEW converted, NEW h,
         <<converted, h>> \in {<<ToXpub(Exported(v, seed, p)), "p2pkh">>,
                               <<ToZpub(Exported(v, seed, p)), "p2wpkh">>,
                               <<ToMultisigZpub(Exported(v, seed, p)), "p2wsh">>}
  PROVE  /\ converted.version \in DOMAIN Versions
         /\ converted = Exported(converted.version, seed, p)
         /\ Network(converted) = Network(Exported(v, seed, p))
         /\ Hint(converted) = h
<1> DEFINE k == Exported(v, seed, p)
<1>1. k.version = v /\ Network(k) = Versions[v][1]
  BY DEF Exported, Network
<1>2. Versions[v][1] \in {"mainnet", "testnet"}
  BY DEF Versions
<1>3. ASSUME NEW w PROVE [k EXCEPT !.version = w] = Exported(w, seed, p)
  BY DEF Exported
<1>4. ASSUME NEW main \in DOMAIN Versions, NEW test \in DOMAIN Versions,
             converted = WithVersion(k, main, test), Versions[main] = <<"mainnet", h>>,
             Versions[test] = <<"testnet", h>>
      PROVE  /\ converted.version \in DOMAIN Versions
             /\ converted = Exported(converted.version, seed, p)
             /\ Network(converted) = Network(k)
             /\ Hint(converted) = h
  <2>1. PICK w \in {main, test} : converted = Exported(w, seed, p) /\ Versions[w] = <<Network(k), h>>
    <3> HIDE DEF k
    <3> QED
      BY <1>1, <1>2, <1>3, <1>4 DEF WithVersion
  <2>2. converted.version = w
    BY <2>1 DEF Exported
  <2> QED
    BY <1>4, <2>1, <2>2 DEF Network, Hint
<1>5. CASE converted = ToXpub(k) /\ h = "p2pkh"
  BY <1>4, <1>5 DEF ToXpub, Versions
<1>6. CASE converted = ToZpub(k) /\ h = "p2wpkh"
  BY <1>4, <1>6 DEF ToZpub, Versions
<1>7. CASE converted = ToMultisigZpub(k) /\ h = "p2wsh"
  BY <1>4, <1>7 DEF ToMultisigZpub, Versions
<1> QED
  BY <1>5, <1>6, <1>7

(* The keys to start from are given by a network, a seed and a path.       *)
KeysInv ==
  /\ from = [network |-> from.network, seed |-> from.seed, path |-> from.path]
  /\ IsSeq(from.path) /\ IsSeq(path)
  /\ key.version \in DOMAIN Versions
  /\ KeyAtWholePath

(* Nothing has been derived yet.                                           *)
LEMMA InitKeys ==
  ASSUME KeysGiven, Init
  PROVE  KeysInv
<1>1. from \in Keys /\ path = <<>> /\ pc = "idle" /\ hint = Hint(key)
  BY DEF Init
<1>2. from \in [network : {"mainnet", "testnet"}, seed : Masters, path : Seq(Nat)]
  BY <1>1 DEF KeysGiven
<1>3. PICK v \in DOMAIN Versions : Versions[v][1] = from.network /\ key = Exported(v, from.seed, from.path)
  BY DEF Init
<1>4. key.version = v
  BY <1>3 DEF Exported
<1>5. IsSeq(from.path) /\ IsSeq(path)
  BY <1>1, <1>2 DEF IsSeq
<1>6. from = [network |-> from.network, seed |-> from.seed, path |-> from.path]
  BY <1>2
<1>7. KeyAtWholePath
  BY <1>1, <1>3, <1>4 DEF KeyAtWholePath, Network
<1> QED
  BY <1>3, <1>4, <1>5, <1>6, <1>7 DEF KeysInv

(* What holds of the caller's key holds of a conversion of it.             *)
LEMMA ConvertKeeps ==
  ASSUME KeysInv, Convert
  PROVE  KeysInv'
<1>1. key.version \in DOMAIN Versions /\ key = Exported(key.version, from.seed, from.path)
      /\ Network(key) = from.network
  BY DEF KeysInv, KeyAtWholePath
<1>2. PICK to \in {<<ToXpub(key), "p2pkh">>, <<ToZpub(key), "p2wpkh">>,
                   <<ToMultisigZpub(key), "p2wsh">>} :
        /\ key' = to[1] /\ node' = to[1] /\ hint' = to[2]
        /\ path' = <<>> /\ pc = "idle" /\ pc' = pc /\ from' = from
  BY DEF Convert, Call
<1>3. <<key', hint'>> \in {<<ToXpub(key), "p2pkh">>, <<ToZpub(key), "p2wpkh">>,
                           <<ToMultisigZpub(key), "p2wsh">>}
  BY <1>2
<1>4. /\ key'.version \in DOMAIN Versions
      /\ key' = Exported(key'.version, from.seed, from.path)
      /\ Network(key') = Network(key) /\ Hint(key') = hint'
  <2> DEFINE v == key.version
  <2>1. v \in DOMAIN Versions /\ key = Exported(v, from.seed, from.path)
    BY <1>1
  <2> HIDE DEF v
  <2> QED
    BY <1>3, <2>1, Converted
<1>5. KeyAtWholePath'
  BY <1>1, <1>2, <1>4 DEF KeyAtWholePath, Network, Hint
<1>6. IsSeq(path') /\ IsSeq(from'.path)
  <2>1. <<>> \in Seq({})
    OBVIOUS
  <2> QED
    BY <1>2, <2>1 DEF KeysInv, IsSeq
<1> QED
  BY <1>2, <1>4, <1>5, <1>6 DEF KeysInv

(* A call starts at the caller's key, with nothing derived.                *)
LEMMA DerivePathKeeps ==
  ASSUME KeysInv, NEW t, DerivePath(t)
  PROVE  KeysInv'
<1>1. node' = key /\ path' = <<>> /\ key' = key /\ from' = from /\ hint' = hint
  BY DEF DerivePath
<1>2. IsSeq(path') /\ IsSeq(from.path)
  <2>1. <<>> \in Seq({})
    OBVIOUS
  <2> QED
    BY <1>1, <2>1 DEF KeysInv, IsSeq
<1>3. from.path \o <<>> = from.path
  BY <1>2, Joined
<1>4. KeyAtWholePath'
  BY <1>1, <1>3 DEF KeysInv, KeyAtWholePath, Network, Hint
<1> QED
  BY <1>1, <1>2, <1>4 DEF KeysInv

(* One step further down, the node is at the longer path.                  *)
LEMMA DeriveChildKeeps ==
  ASSUME KeysInv, DeriveChild
  PROVE  KeysInv'
<1> DEFINE index == Index(Head(parts).part)
<1>1. /\ pc = "derive" /\ key' = key /\ from' = from /\ hint' = hint
      /\ \/ node' = Child(node, index) /\ path' = Append(path, index)
         \/ node' = node /\ path' = path
  BY DEF DeriveChild, NextPart, NextChild
<1>2. node = Exported(key.version, from.seed, from.path \o path)
      /\ IsSeq(from.path) /\ IsSeq(path)
  BY <1>1 DEF KeysInv, KeyAtWholePath
<1>3. IsSeq(path') /\ node' = Exported(key.version, from.seed, from.path \o path')
  <2> HIDE DEF index
  <2>1. CASE node' = Child(node, index) /\ path' = Append(path, index)
    <3>1. Child(node, index) = Exported(key.version, from.seed, from.path \o Append(path, index))
      BY <1>2, StepExported
    <3> QED
      BY <1>2, <2>1, <3>1, Lengthened
  <2> QED
    BY <1>1, <1>2, <2>1
<1>4. KeyAtWholePath'
  BY <1>1, <1>3 DEF KeysInv, KeyAtWholePath, Network, Hint
<1> QED
  BY <1>1, <1>3, <1>4 DEF KeysInv

(* The caller's next key is the derived one, at the whole path.            *)
LEMMA ReturnKeeps ==
  ASSUME KeysInv, Return
  PROVE  KeysInv'
<1>1. /\ pc = "derive" /\ pc' = "idle" /\ key' = node /\ path' = path /\ hint' = hint
      /\ from' = [from EXCEPT !.path = @ \o path]
  BY DEF Return
<1>2. node = Exported(key.version, from.seed, from.path \o path)
      /\ IsSeq(from.path) /\ IsSeq(path) /\ key.version \in DOMAIN Versions
  BY <1>1 DEF KeysInv, KeyAtWholePath
<1>3. /\ from'.network = from.network /\ from'.seed = from.seed /\ from'.path = from.path \o path
      /\ from' = [network |-> from'.network, seed |-> from'.seed, path |-> from'.path]
  <2>1. from = [network |-> from.network, seed |-> from.seed, path |-> from.path]
    BY DEF KeysInv
  <2> QED
    BY <1>1, <2>1
<1>4. key'.version = key.version
  BY <1>1, <1>2 DEF Exported
<1>5. IsSeq(from'.path)
  BY <1>2, <1>3, Joined
<1>6. KeyAtWholePath'
  BY <1>1, <1>2, <1>3, <1>4 DEF KeysInv, KeyAtWholePath, Network, Hint
<1> QED
  BY <1>1, <1>2, <1>3, <1>4, <1>5, <1>6 DEF KeysInv

(* However it was converted and derived, the key is the one a wallet that  *)
(* holds the master key exports at the whole path, for any keys, paths and *)
(* numbers of calls.                                                       *)
THEOREM KeysLead ==
  ASSUME KeysGiven
  PROVE  Spec => []KeyAtWholePath
<1>1. KeysInv /\ [Next]_vars => KeysInv'
  <2> SUFFICES ASSUME KeysInv, [Next]_vars PROVE KeysInv'
    OBVIOUS
  <2>1. CASE Skip \/ Refuse
    <3>1. pc = "derive" /\ UNCHANGED <<key, from, hint, node, path>>
      BY <2>1 DEF Skip, Refuse, NextPart
    <3> QED
      BY <3>1 DEF KeysInv, KeyAtWholePath, Network, Hint
  <2>2. CASE UNCHANGED vars
    BY <2>2 DEF KeysInv, KeyAtWholePath, Network, Hint, vars
  <2> QED
    BY <2>1, <2>2, ConvertKeeps, DerivePathKeeps, DeriveChildKeeps, ReturnKeeps DEF Next
<1>2. KeysInv => KeyAtWholePath
  BY DEF KeysInv
<1>3. Init => KeysInv
  BY InitKeys
<1> QED
  BY <1>1, <1>2, <1>3, PTL DEF Spec
-----------------------------------------------------------------------------
(* Reading a configuration file.                                           *)

(* Induction over a set of numbers, by a least counterexample.             *)
LEMMA AllNumbers ==
  ASSUME NEW T, 0 \in T, \A k \in Nat : k \in T => k + 1 \in T
  PROVE  \A k \in Nat : k \in T
<1> DEFINE Others == {k \in Nat : k \notin T}
<1>1. ASSUME Others # {} PROVE FALSE
  <2>1. Others \subseteq Nat
    OBVIOUS
  <2>2. PICK m \in Others : \A i \in Others : ~(<<i, m>> \in OpToRel(<, Nat))
    <3> HIDE DEF Others
    <3> QED
      BY <1>1, <2>1, NatLessThanWellFounded, WFMin
  <2>3. \A i \in Others : ~(i < m)
    BY <2>1, <2>2 DEF OpToRel
  <2>4. m \in Nat /\ m \notin T /\ m # 0
    OBVIOUS
  <2>5. m - 1 \in Nat /\ m - 1 \in T
    BY <2>3, <2>4
  <2>6. (m - 1) + 1 \in T /\ (m - 1) + 1 = m
    BY <2>4, <2>5
  <2> QED
    BY <2>4, <2>6
<1> QED
  BY <1>1

(* Numbers up to a bound have a greatest and a least one.                  *)
LEMMA Extremes ==
  ASSUME NEW n \in Nat, NEW X, X \subseteq 1 .. n, X # {}
  PROVE  /\ \E m \in X : \A k \in X : k <= m
         /\ \E m \in X : \A k \in X : m <= k
<1>1. ASSUME NEW Y, Y \subseteq 1 .. n, Y # {} PROVE \E m \in Y : \A k \in Y : m <= k
  <2> DEFINE T == {j \in Nat : \A i \in 1 .. j : i \notin Y}
  <2>1. SUFFICES ASSUME \A m \in Y : \E k \in Y : k < m PROVE FALSE
    BY <1>1
  <2>2. 0 \in T
    OBVIOUS
  <2>3. ASSUME NEW j \in Nat, j \in T PROVE j + 1 \in T
    <3>1. j + 1 \notin Y
      BY <1>1, <2>1, <2>3
    <3>2. \A i \in 1 .. j + 1 : i \in 1 .. j \/ i = j + 1
      OBVIOUS
    <3> QED
      BY <2>3, <3>1, <3>2
  <2>4. n \in T
    <3> HIDE DEF T
    <3> QED
      BY <2>2, <2>3, AllNumbers
  <2> QED
    BY <1>1, <2>4
<1>2. \E m \in X : \A k \in X : k <= m
  <2> DEFINE Y == {n + 1 - k : k \in X}
  <2>1. Y \subseteq 1 .. n /\ Y # {}
    <3>1. PICK x : x \in X
      OBVIOUS
    <3>2. n + 1 - x \in Y
      BY <3>1
    <3> QED
      BY <3>2
  <2>2. PICK y \in Y : \A z \in Y : y <= z
    <3> HIDE DEF Y
    <3> QED
      BY <1>1, <2>1
  <2>3. PICK m \in X : y = n + 1 - m
    BY <2>2
  <2>4. \A k \in X : y <= n + 1 - k
    BY <2>2
  <2> QED
    BY <2>3, <2>4
<1> QED
  BY <1>1, <1>2

(* Min and Max name them.                                                  *)
LEMMA ExtremeIs ==
  ASSUME NEW X, X \subseteq Int, NEW a \in X
  PROVE  /\ (\A k \in X : a <= k) => Min(X) = a
         /\ (\A k \in X : k <= a) => Max(X) = a
<1>1. ASSUME \A k \in X : a <= k PROVE Min(X) = a
  <2> DEFINE P(x) == \A k \in X : x <= k
             m == CHOOSE x \in X : P(x)
  <2>1. m \in X /\ P(m)
    <3>1. a \in X /\ P(a)
      BY <1>1
    <3> HIDE DEF P
    <3> QED
      BY <3>1
  <2>2. Min(X) = m
    BY DEF Min
  <2> HIDE DEF m
  <2>3. m <= a /\ a <= m /\ m \in Int /\ a \in Int
    BY <1>1, <2>1
  <2> QED
    BY <2>2, <2>3
<1>2. ASSUME \A k \in X : k <= a PROVE Max(X) = a
  <2> DEFINE P(x) == \A k \in X : x >= k
             m == CHOOSE x \in X : P(x)
  <2>1. m \in X /\ P(m)
    <3>1. a \in X /\ P(a)
      BY <1>2
    <3> HIDE DEF P
    <3> QED
      BY <3>1
  <2>2. Max(X) = m
    BY DEF Max
  <2> HIDE DEF m
  <2>3. m <= a /\ a <= m /\ m \in Int /\ a \in Int
    BY <1>2, <2>1
  <2> QED
    BY <2>2, <2>3
<1> QED
  BY <1>1, <1>2

(* A stretch of a text, character by character.                            *)
LEMMA Stretch ==
  ASSUME NEW S, NEW t \in Seq(S), NEW a \in Nat, NEW b \in Nat, 1 <= a, b <= Len(t), a <= b + 1
  PROVE  /\ SubSeq(t, a, b) \in Seq(S) /\ Len(SubSeq(t, a, b)) = b - a + 1
         /\ \A i \in 1 .. b - a + 1 : SubSeq(t, a, b)[i] = t[a + i - 1]
<1>1. CASE a <= b
  BY <1>1
<1>2. CASE a = b + 1
  BY <1>2
<1> QED
  BY <1>1, <1>2

(* From its first character to its last.                                   *)
Ends(t, a, b) ==
  /\ a \in 1 .. Len(t) /\ b \in 1 .. Len(t) /\ a <= b
  /\ t[a] # "sp" /\ \A i \in 1 .. a - 1 : t[i] = "sp"
  /\ t[b] # "sp" /\ \A i \in b + 1 .. Len(t) : t[i] = "sp"

(* strip() keeps what is between the blanks at both ends.                  *)
LEMMA StripTo ==
  ASSUME NEW S, NEW t \in Seq(S)
  PROVE  /\ \A a, b : Ends(t, a, b) => Stripped(t) = SubSeq(t, a, b)
         /\ (\A i \in 1 .. Len(t) : t[i] = "sp") => Stripped(t) = <<>>
         /\ (\A i \in 1 .. Len(t) : t[i] = "sp") \/ \E a, b : Ends(t, a, b)
<1> DEFINE kept == {i \in DOMAIN t : t[i] # "sp"}
<1>1. Stripped(t) = IF kept = {} THEN <<>> ELSE SubSeq(t, Min(kept), Max(kept))
  BY DEF Stripped
<1>2. DOMAIN t = 1 .. Len(t) /\ Len(t) \in Nat
  OBVIOUS
<1>3. ASSUME NEW a, NEW b, Ends(t, a, b) PROVE Stripped(t) = SubSeq(t, a, b)
  <2>1. a \in kept /\ b \in kept /\ \A i \in kept : a <= i /\ i <= b
    BY <1>2, <1>3 DEF Ends
  <2>2. kept \subseteq Int /\ kept # {}
    BY <1>2, <2>1
  <2> HIDE DEF kept
  <2>3. Min(kept) = a /\ Max(kept) = b
    BY <2>1, <2>2, ExtremeIs
  <2> QED
    BY <1>1, <2>2, <2>3
<1>4. ASSUME \A i \in 1 .. Len(t) : t[i] = "sp" PROVE Stripped(t) = <<>>
  BY <1>1, <1>2, <1>4
<1>5. ASSUME ~ \A i \in 1 .. Len(t) : t[i] = "sp" PROVE \E a, b : Ends(t, a, b)
  <2>1. kept \subseteq 1 .. Len(t) /\ kept # {}
    BY <1>2, <1>5
  <2>2. /\ \E m \in kept : \A k \in kept : k <= m
        /\ \E m \in kept : \A k \in kept : m <= k
    <3> HIDE DEF kept
    <3> QED
      BY <1>2, <2>1, Extremes
  <2>3. PICK b \in kept : \A k \in kept : k <= b
    BY <2>2
  <2>4. PICK a \in kept : \A k \in kept : a <= k
    BY <2>2
  <2>5. Ends(t, a, b)
    BY <1>2, <2>3, <2>4 DEF Ends
  <2> QED
    BY <2>5
<1> QED
  BY <1>3, <1>4, <1>5

(* The line of a setting with the key k at a, "=" at e and the value's     *)
(* text u, with its quotes, after o.                                       *)
Entry(L, k, a, e, o, u) ==
  /\ 1 <= a /\ a < e /\ e <= o /\ o + Len(u) <= Len(L)
  /\ \A i \in 1 .. a - 1 : L[i] = "sp"
  /\ L[a] = k /\ k \notin {"sp", "=", "#", "semi", "[", "]", "dq", "sq"}
  /\ \A i \in a + 1 .. e - 1 : L[i] = "sp"
  /\ L[e] = "="
  /\ \A i \in e + 1 .. o : L[i] = "sp"
  /\ \A i \in 1 .. Len(u) : L[o + i] = u[i]
  /\ \A i \in o + Len(u) + 1 .. Len(L) : L[i] = "sp"
  /\ u # <<>> => u[1] # "sp" /\ u[Len(u)] # "sp"

(* Such a line is read as k and u.                                         *)
LEMMA EntryRead ==
  ASSUME NEW S, NEW L \in Seq(S), NEW k, NEW a \in Nat, NEW e \in Nat, NEW o \in Nat,
         NEW u \in Seq(S), Entry(L, k, a, e, o, u), NEW t, t = Stripped(L)
  PROVE  /\ ~SetsNothing(t)
         /\ Stripped(SubSeq(t, 1, SplitAt(t) - 1)) = <<k>>
         /\ Stripped(SubSeq(t, SplitAt(t) + 1, Len(t))) = u
<1> DEFINE b == IF u = <<>> THEN e ELSE o + Len(u)
<1>1. Len(u) \in Nat /\ Len(L) \in Nat /\ (u = <<>> <=> Len(u) = 0)
  OBVIOUS
<1>21. 1 <= a /\ a < e /\ e <= o /\ o + Len(u) <= Len(L)
  BY DEF Entry
<1>22. (\A i \in 1 .. a - 1 : L[i] = "sp") /\ \A i \in a + 1 .. e - 1 : L[i] = "sp"
  BY DEF Entry
<1>23. L[a] = k /\ L[e] = "=" /\ k \notin {"sp", "=", "#", "semi", "[", "]", "dq", "sq"}
  BY DEF Entry
<1>24. (\A i \in e + 1 .. o : L[i] = "sp") /\ \A i \in o + Len(u) + 1 .. Len(L) : L[i] = "sp"
  BY DEF Entry
<1>25. \A i \in 1 .. Len(u) : L[o + i] = u[i]
  BY DEF Entry
<1>26. u # <<>> => u[1] # "sp" /\ u[Len(u)] # "sp"
  BY DEF Entry
<1>3. (u = <<>> => b = e) /\ (u # <<>> => b = o + Len(u))
  OBVIOUS
<1> HIDE DEF b
<1>2. b \in Nat /\ e <= b /\ b <= Len(L) /\ L[b] # "sp" /\ \A i \in b + 1 .. Len(L) : L[i] = "sp"
  <2>1. CASE u = <<>>
    <3>1. b = e /\ \A i \in e + 1 .. Len(L) : i \in e + 1 .. o \/ i \in o + Len(u) + 1 .. Len(L)
      BY <1>1, <1>3, <1>21, <2>1
    <3>2. \A i \in e + 1 .. Len(L) : L[i] = "sp"
      BY <1>24, <3>1
    <3>3. b \in Nat /\ e <= b /\ b <= Len(L)
      BY <1>1, <1>21, <3>1
    <3> QED
      BY <1>23, <3>1, <3>2, <3>3
  <2>2. CASE u # <<>>
    <3>1. Len(u) \in 1 .. Len(u) /\ b = o + Len(u) /\ b \in Nat /\ e <= b /\ b <= Len(L)
      BY <1>1, <1>3, <1>21, <2>2
    <3>2. L[o + Len(u)] = u[Len(u)]
      BY <1>25, <3>1
    <3> QED
      BY <1>24, <1>26, <2>2, <3>1, <3>2
  <2> QED
    BY <2>1, <2>2
<1>4. Ends(L, a, b)
  <2>1. a \in 1 .. Len(L) /\ b \in 1 .. Len(L) /\ a <= b
    BY <1>1, <1>2, <1>21
  <2>2. L[a] # "sp"
    BY <1>23
  <2> QED
    BY <1>2, <1>22, <2>1, <2>2 DEF Ends
<1>5. t = SubSeq(L, a, b)
  BY <1>4, StripTo
<1>6. 1 <= a /\ a < e /\ L[a] = k /\ L[e] = "=" /\ \A i \in a .. e - 1 : L[i] # "="
  <2>1. \A i \in a .. e - 1 : i = a \/ i \in a + 1 .. e - 1
    OBVIOUS
  <2> QED
    BY <1>21, <1>22, <1>23, <2>1
<1>7. t \in Seq(S) /\ Len(t) = b - a + 1 /\ \A i \in 1 .. b - a + 1 : t[i] = L[a + i - 1]
  BY <1>1, <1>2, <1>5, <1>6, Stretch
<1> DEFINE n == e - a + 1
<1>8. n \in 2 .. Len(t) /\ t[1] = k /\ t[n] = "=" /\ \A i \in 1 .. n - 1 : t[i] # "="
  <2>1. n \in Nat /\ 2 <= n /\ n <= b - a + 1 /\ a + n - 1 = e /\ a + 1 - 1 = a
    BY <1>2, <1>6
  <2>2. t[1] = k /\ t[n] = "="
    BY <1>6, <1>7, <2>1
  <2>3. ASSUME NEW i \in 1 .. n - 1 PROVE t[i] # "="
    <3>1. a + i - 1 \in a .. e - 1 /\ i \in 1 .. b - a + 1
      BY <1>2, <1>21, <2>1
    <3> QED
      BY <1>6, <1>7, <3>1
  <2> QED
    BY <1>7, <2>1, <2>2, <2>3
<1>9. \A i \in 1 .. Len(t) : a + i - 1 = i + a - 1
  BY <1>7
<1> HIDE DEF n
<1>10. DOMAIN t = 1 .. Len(t) /\ t # <<>> /\ Len(t) \in Nat
  BY <1>7, <1>8
<1>11. SplitAt(t) = n
  <2> DEFINE X == Equals(t)
  <2>1. X \subseteq Int /\ n \in X /\ \A i \in X : n <= i
    BY <1>8, <1>10 DEF Equals
  <2> HIDE DEF X
  <2>2. Min(X) = n
    BY <2>1, ExtremeIs
  <2> QED
    BY <2>2 DEF SplitAt, X
<1>12. ~SetsNothing(t)
  <2>1. "=" \in ToSet(t)
    BY <1>8, <1>10 DEF ToSet
  <2>2. k \notin {"#", "semi", "["}
    BY <1>23
  <2> QED
    BY <1>8, <1>10, <2>1, <2>2 DEF SetsNothing
<1>13. Stripped(SubSeq(t, 1, n - 1)) = <<k>>
  <2> DEFINE s == SubSeq(t, 1, n - 1)
  <2>1. s \in Seq(S) /\ Len(s) = n - 1 /\ \A i \in 1 .. n - 1 : s[i] = t[1 + i - 1]
    BY <1>7, <1>8, Stretch
  <2>2. s[1] = k /\ \A i \in 2 .. n - 1 : s[i] = "sp"
    <3>1. ASSUME NEW i \in 2 .. n - 1 PROVE s[i] = "sp"
      <4>1. 1 + i - 1 = i /\ i \in 1 .. b - a + 1 /\ a + i - 1 \in a + 1 .. e - 1
        BY <1>2, <1>6, <1>7, <1>8 DEF n
      <4>2. L[a + i - 1] = "sp"
        BY <1>22, <4>1
      <4> QED
        BY <1>7, <1>8, <2>1, <4>1, <4>2
    <3> QED
      BY <1>8, <2>1, <3>1
  <2> HIDE DEF s
  <2>3. Ends(s, 1, 1)
    <3>1. n - 1 \in Nat /\ 1 <= n - 1 /\ Len(s) = n - 1
      BY <1>8, <2>1
    <3>2. 1 \in 1 .. Len(s) /\ (\A i \in 1 .. 1 - 1 : FALSE)
          /\ \A i \in 1 + 1 .. Len(s) : i \in 2 .. n - 1
      BY <3>1
    <3>3. s[1] # "sp"
      BY <1>23, <2>2
    <3> QED
      BY <2>2, <3>2, <3>3 DEF Ends
  <2>4. Stripped(s) = SubSeq(s, 1, 1)
    BY <2>1, <2>3, StripTo
  <2>5. SubSeq(s, 1, 1) = <<s[1]>>
    <3>1. Len(s) >= 1 /\ s \in Seq(S)
      BY <1>8, <2>1
    <3>2. /\ SubSeq(s, 1, 1) \in Seq(S) /\ Len(SubSeq(s, 1, 1)) = 1
          /\ SubSeq(s, 1, 1)[1] = s[1] /\ s[1] \in S
      BY <3>1
    <3> DEFINE r == SubSeq(s, 1, 1)
               x == s[1]
    <3> HIDE DEF r, x
    <3>3. r \in Seq(S) /\ Len(r) = 1 /\ r[1] = x /\ x \in S
      BY <3>2 DEF r, x
    <3>4. r = <<x>>
      BY <3>3
    <3> QED
      BY <3>4 DEF r, x
  <2> QED
    BY <2>2, <2>4, <2>5 DEF s
<1>14. Stripped(SubSeq(t, n + 1, Len(t))) = u
  <2> DEFINE s == SubSeq(t, n + 1, Len(t))
             c == Len(t)
  <2>1. s \in Seq(S) /\ Len(s) = c - n /\ \A i \in 1 .. c - n : s[i] = t[n + i]
    <3>1. n + 1 \in Nat /\ Len(t) \in Nat /\ 1 <= n + 1 /\ n + 1 <= Len(t) + 1
          /\ Len(t) - (n + 1) + 1 = Len(t) - n
          /\ \A i \in 1 .. Len(t) - n : n + 1 + i - 1 = n + i
      BY <1>8, <1>10
    <3> QED
      BY <1>7, <3>1, Stretch
  <2>2. c = b - a + 1 /\ c - n = b - e /\ c \in Nat /\ b - e \in Nat
    BY <1>2, <1>6, <1>7, <1>10 DEF n
  <2> HIDE DEF s, c
  <2>3. ASSUME NEW i \in 1 .. b - e PROVE s[i] = L[e + i]
    <3>1. n + i \in 1 .. b - a + 1 /\ a + (n + i) - 1 = e + i
      BY <1>2, <1>6, <1>8, <2>2 DEF n
    <3> QED
      BY <1>7, <2>1, <2>2, <3>1
  <2>4. CASE u = <<>>
    <3>1. Len(s) = 0
      BY <1>2, <1>3, <2>1, <2>2, <2>4
    <3>2. \A i \in 1 .. Len(s) : s[i] = "sp"
      BY <3>1
    <3>3. Stripped(s) = <<>>
      BY <2>1, <3>2, StripTo
    <3> QED
      BY <2>4, <3>3 DEF s
  <2>5. CASE u # <<>>
    <3>1. b = o + Len(u) /\ e <= o /\ o - e + 1 \in Nat /\ Len(u) >= 1
      BY <1>1, <1>3, <1>21, <2>5
    <3>2. \A i \in 1 .. o - e : s[i] = "sp"
      <4>1. \A i \in 1 .. o - e : i \in 1 .. b - e /\ e + i \in e + 1 .. o
        BY <1>1, <3>1
      <4> QED
        BY <1>24, <2>3, <4>1
    <3>3. \A i \in 1 .. Len(u) : s[o - e + i] = u[i]
      <4>1. \A i \in 1 .. Len(u) : o - e + i \in 1 .. b - e /\ e + (o - e + i) = o + i
        BY <1>1, <3>1
      <4> QED
        BY <1>25, <2>3, <4>1
    <3>4. u[1] # "sp" /\ u[Len(u)] # "sp"
      BY <1>26, <2>5
    <3>5. s[o - e + 1] # "sp" /\ s[b - e] # "sp"
      <4>1. 1 \in 1 .. Len(u) /\ Len(u) \in 1 .. Len(u) /\ o - e + Len(u) = b - e
        BY <1>1, <3>1
      <4> QED
        BY <3>3, <3>4, <4>1
    <3>6. Ends(s, o - e + 1, b - e)
      BY <1>1, <2>1, <2>2, <3>1, <3>2, <3>5 DEF Ends
    <3>7. Stripped(s) = SubSeq(s, o - e + 1, b - e)
      BY <2>1, <3>6, StripTo
    <3> DEFINE r == SubSeq(s, o - e + 1, b - e)
               d == o - e + 1
               f == b - e
    <3>8. d \in Nat /\ f \in Nat /\ 1 <= d /\ f <= Len(s) /\ d <= f + 1 /\ f - d + 1 = Len(u)
          /\ \A i \in 1 .. Len(u) : d + i - 1 = o - e + i
      BY <1>1, <2>1, <2>2, <3>1
    <3>9. r \in Seq(S) /\ Len(r) = Len(u) /\ \A i \in 1 .. Len(u) : r[i] = s[o - e + i]
      <4> HIDE DEF d, f
      <4>1. SubSeq(s, d, f) \in Seq(S) /\ Len(SubSeq(s, d, f)) = f - d + 1
            /\ \A i \in 1 .. f - d + 1 : SubSeq(s, d, f)[i] = s[d + i - 1]
        BY <2>1, <3>8, Stretch
      <4>2. r = SubSeq(s, d, f)
        BY DEF d, f
      <4> QED
        BY <3>8, <4>1, <4>2
    <3> HIDE DEF r
    <3>10. r = u
      BY <3>3, <3>9, SeqEqual
    <3> QED
      BY <3>7, <3>10 DEF r, s
  <2> QED
    BY <2>4, <2>5
<1> QED
  BY <1>11, <1>12, <1>13, <1>14

(* One character.                                                          *)
LEMMA One ==
  ASSUME NEW S, NEW x \in S
  PROVE  <<x>> \in Seq(S) /\ Len(<<x>>) = 1 /\ <<x>>[1] = x
OBVIOUS

(* Two characters.                                                         *)
LEMMA Two ==
  ASSUME NEW S, NEW x \in S, NEW y \in S
  PROVE  /\ <<x, y>> \in Seq(S) /\ Len(<<x, y>>) = 2
         /\ <<x, y>>[1] = x /\ <<x, y>>[2] = y
OBVIOUS

(* Three characters.                                                       *)
LEMMA Three ==
  ASSUME NEW S, NEW x \in S, NEW y \in S, NEW z \in S
  PROVE  /\ <<x, y, z>> \in Seq(S) /\ Len(<<x, y, z>>) = 3
         /\ <<x, y, z>>[1] = x /\ <<x, y, z>>[2] = y /\ <<x, y, z>>[3] = z
OBVIOUS

(* A text that is two others, and three, one after the other.              *)
Opening(p, q)  == p \o q
Joint(p, v, q) == (p \o v) \o q

IsOpening(S, t, p, q) ==
  /\ t \in Seq(S) /\ Len(t) = Len(p) + Len(q)
  /\ \A i \in 1 .. Len(p) : t[i] = p[i]
  /\ \A i \in 1 .. Len(q) : t[Len(p) + i] = q[i]
IsJoint(S, t, p, v, q) ==
  /\ t \in Seq(S) /\ Len(t) = Len(p) + Len(v) + Len(q)
  /\ \A i \in 1 .. Len(p) : t[i] = p[i]
  /\ \A i \in 1 .. Len(v) : t[Len(p) + i] = v[i]
  /\ \A i \in 1 .. Len(q) : t[Len(p) + Len(v) + i] = q[i]

(* Where the characters of two texts are in their concatenation.           *)
LEMMA Beside ==
  ASSUME NEW S, NEW p \in Seq(S), NEW q \in Seq(S)
  PROVE  IsOpening(S, Opening(p, q), p, q)
BY DEF Opening, IsOpening

(* The same of three texts.                                                *)
LEMMA Around ==
  ASSUME NEW S, NEW p \in Seq(S), NEW v \in Seq(S), NEW q \in Seq(S)
  PROVE  IsJoint(S, Joint(p, v, q), p, v, q)
<1>1. Len(p) \in Nat /\ Len(v) \in Nat /\ Len(q) \in Nat
  OBVIOUS
<1> DEFINE h == Opening(p, v)
           m == Opening(h, q)
<1>2. IsOpening(S, h, p, v)
  BY Beside
<1>3. h \in Seq(S)
  BY <1>2 DEF IsOpening
<1>4. Joint(p, v, q) = m
  BY DEF Joint, Opening
<1> HIDE DEF h
<1>5. IsOpening(S, m, h, q)
  BY <1>3, Beside
<1> HIDE DEF m
<1>6. /\ Len(h) = Len(p) + Len(v)
      /\ \A i \in 1 .. Len(p) : h[i] = p[i]
      /\ \A i \in 1 .. Len(v) : h[Len(p) + i] = v[i]
  BY <1>2 DEF IsOpening
<1>7. /\ m \in Seq(S) /\ Len(m) = Len(h) + Len(q)
      /\ \A i \in 1 .. Len(h) : m[i] = h[i]
      /\ \A i \in 1 .. Len(q) : m[Len(h) + i] = q[i]
  BY <1>5 DEF IsOpening
<1>8. \A i \in 1 .. Len(p) : i \in 1 .. Len(h)
  BY <1>1, <1>6
<1>9. \A i \in 1 .. Len(v) : Len(p) + i \in 1 .. Len(h)
  BY <1>1, <1>6
<1> QED
  BY <1>4, <1>6, <1>7, <1>8, <1>9 DEF IsJoint

(* Quotes go around a value and off again.                                 *)
LEMMA QuotesOff ==
  ASSUME NEW S, NEW v \in Seq(S), NEW d, d \in {"dq", "sq"}, d \in S, NEW u,
         u = Joint(<<d>>, v, <<d>>)
  PROVE  /\ u \in Seq(S) /\ Len(u) = Len(v) + 2 /\ u # <<>>
         /\ u[1] = d /\ u[Len(u)] = d
         /\ \A i \in 1 .. Len(v) : u[i + 1] = v[i]
         /\ Unquoted(u) = v
<1>1. <<d>> \in Seq(S) /\ Len(<<d>>) = 1 /\ <<d>>[1] = d /\ Len(v) \in Nat
  BY One
<1> DEFINE p == <<d>>
<1>2. p \in Seq(S) /\ Len(p) = 1 /\ p[1] = d /\ u = Joint(p, v, p)
  BY <1>1
<1> HIDE DEF p
<1>3. /\ u \in Seq(S) /\ Len(u) = Len(v) + 2
      /\ u[1] = d /\ u[Len(v) + 2] = d
      /\ \A i \in 1 .. Len(v) : u[i + 1] = v[i]
  <2>1. /\ u \in Seq(S) /\ Len(u) = Len(p) + Len(v) + Len(p)
        /\ \A i \in 1 .. Len(p) : u[i] = p[i]
        /\ \A i \in 1 .. Len(v) : u[Len(p) + i] = v[i]
        /\ \A i \in 1 .. Len(p) : u[Len(p) + Len(v) + i] = p[i]
    <3>1. IsJoint(S, u, p, v, p)
      BY <1>2, Around
    <3> QED
      BY <3>1 DEF IsJoint
  <2>2. 1 \in 1 .. Len(p) /\ Len(p) + Len(v) + 1 = Len(v) + 2 /\ Len(p) + Len(v) + Len(p) = Len(v) + 2
    BY <1>1, <1>2
  <2>3. \A i \in 1 .. Len(v) : Len(p) + i = i + 1
    BY <1>2
  <2> QED
    BY <1>2, <2>1, <2>2, <2>3
<1>4. SubSeq(u, 2, Len(u) - 1) = v
  <2> DEFINE r == SubSeq(u, 2, Len(u) - 1)
  <2>1. 2 \in Nat /\ Len(u) - 1 \in Nat /\ 2 <= Len(u) - 1 + 1 /\ Len(u) - 1 <= Len(u)
        /\ Len(u) - 1 - 2 + 1 = Len(v)
        /\ \A i \in 1 .. Len(v) : 2 + i - 1 = i + 1
    BY <1>1, <1>3
  <2>2. r \in Seq(S) /\ Len(r) = Len(v) /\ \A i \in 1 .. Len(v) : r[i] = u[i + 1]
    BY <1>3, <2>1, Stretch
  <2> HIDE DEF r
  <2>3. r = v
    BY <1>3, <2>2, SeqEqual
  <2> QED
    BY <2>3 DEF r
<1>5. u # <<>> /\ Last(u) = u[1]
  BY <1>1, <1>3 DEF Last
<1> QED
  BY <1>3, <1>4, <1>5 DEF Unquoted

(* A text that strip() does not change has no blanks around it.            *)
LEMMA Bare ==
  ASSUME NEW S, NEW v \in Seq(S), Stripped(v) = v, v # <<>>
  PROVE  v[1] # "sp" /\ v[Len(v)] # "sp"
<1>1. Len(v) \in Nat /\ Len(v) # 0
  OBVIOUS
<1>2. PICK a, b : Ends(v, a, b)
  BY StripTo
<1>3. a \in 1 .. Len(v) /\ b \in 1 .. Len(v) /\ a <= b /\ v[a] # "sp" /\ v[b] # "sp"
  BY <1>2 DEF Ends
<1>4. v = SubSeq(v, a, b)
  BY <1>2, StripTo
<1>5. Len(v) = b - a + 1
  <2>1. Len(SubSeq(v, a, b)) = b - a + 1
    BY <1>1, <1>3, Stretch
  <2> QED
    BY <1>4, <2>1
<1>6. a = 1 /\ b = Len(v)
  BY <1>1, <1>3, <1>5
<1> QED
  BY <1>3, <1>6

(* The four forms of a line that sets something, piece by piece.           *)
Word(S, k) == k \in S /\ k \notin {"sp", "=", "#", "semi", "[", "]", "dq", "sq"}
Signs      == {"sp", "=", "#", "semi", "[", "]", "dq", "sq"}

PlainLine(k, v)  == Joint(<<k>>, <<"=">>, v)
SpacedLine(k, v) == Joint(Joint(<<"sp">>, <<k>>, <<"sp", "=", "sp">>), v, <<"sp">>)
QuotedLine(k, v) == Joint(Opening(<<k>>, <<"=", "dq">>), v, <<"dq", "sp">>)
SingleLine(k, v) == Joint(Opening(<<k>>, <<"=", "sp", "sq">>), v, <<"sq">>)
InQuotes(d, v)   == Joint(<<d>>, v, <<d>>)

(* key=value is an entry.                                                  *)
LEMMA PlainRead ==
  ASSUME NEW S, Signs \subseteq S, NEW k, Word(S, k), NEW v \in Seq(S), Stripped(v) = v,
         NEW L, L = PlainLine(k, v)
  PROVE  L \in Seq(S) /\ Entry(L, k, 1, 2, 2, v)
<1> DEFINE p == <<k>>
           q == <<"=">>
<1>1. p \in Seq(S) /\ Len(p) = 1 /\ p[1] = k
  BY One DEF Word
<1>2. q \in Seq(S) /\ Len(q) = 1 /\ q[1] = "=" /\ Len(v) \in Nat
  BY One DEF Signs
<1>3. L = Joint(p, q, v)
  BY DEF PlainLine
<1> HIDE DEF p, q
<1>4. IsJoint(S, L, p, q, v)
  BY <1>1, <1>2, <1>3, Around
<1>5. /\ L \in Seq(S) /\ Len(L) = Len(p) + Len(q) + Len(v)
      /\ \A i \in 1 .. Len(p) : L[i] = p[i]
      /\ \A i \in 1 .. Len(q) : L[Len(p) + i] = q[i]
      /\ \A i \in 1 .. Len(v) : L[Len(p) + Len(q) + i] = v[i]
  BY <1>4 DEF IsJoint
<1>6. /\ Len(L) = 2 + Len(v) /\ L[1] = k /\ L[2] = "="
      /\ \A i \in 1 .. Len(v) : L[2 + i] = v[i]
  BY <1>1, <1>2, <1>5
<1>7. v # <<>> => v[1] # "sp" /\ v[Len(v)] # "sp"
  BY Bare
<1>8. /\ \A i \in 1 .. 1 - 1 : L[i] = "sp"
      /\ \A i \in 1 + 1 .. 2 - 1 : L[i] = "sp"
      /\ \A i \in 2 + 1 .. 2 : L[i] = "sp"
      /\ \A i \in 2 + Len(v) + 1 .. Len(L) : L[i] = "sp"
      /\ 1 <= 1 /\ 1 < 2 /\ 2 <= 2 /\ 2 + Len(v) <= Len(L)
  BY <1>2, <1>6
<1>9. Entry(L, k, 1, 2, 2, v)
  <2>1. k \notin {"sp", "=", "#", "semi", "[", "]", "dq", "sq"}
    BY DEF Word
  <2> QED
    BY <1>6, <1>7, <1>8, <2>1 DEF Entry
<1> QED
  BY <1>5, <1>9

(* So is one with blanks around the key and the value.                     *)
LEMMA SpacedRead ==
  ASSUME NEW S, Signs \subseteq S, NEW k, Word(S, k), NEW v \in Seq(S), Stripped(v) = v,
         NEW L, L = SpacedLine(k, v)
  PROVE  L \in Seq(S) /\ Entry(L, k, 2, 4, 5, v)
<1> DEFINE b == <<"sp">>
           p == <<k>>
           q == <<"sp", "=", "sp">>
           h == Joint(b, p, q)
<1>1. p \in Seq(S) /\ Len(p) = 1 /\ p[1] = k /\ Len(v) \in Nat
  BY One DEF Word
<1>2. /\ q \in Seq(S) /\ Len(q) = 3 /\ q[1] = "sp" /\ q[2] = "=" /\ q[3] = "sp"
      /\ b \in Seq(S) /\ Len(b) = 1 /\ b[1] = "sp"
  <2>1. "sp" \in S /\ "=" \in S
    BY DEF Signs
  <2> QED
    BY <2>1, One, Three
<1>3. L = Joint(h, v, b)
  BY DEF SpacedLine
<1> HIDE DEF p, q, b
<1>4. IsJoint(S, h, b, p, q)
  BY <1>1, <1>2, Around
<1> HIDE DEF h
<1>5. /\ h \in Seq(S) /\ Len(h) = Len(b) + Len(p) + Len(q)
      /\ \A i \in 1 .. Len(b) : h[i] = b[i]
      /\ \A i \in 1 .. Len(p) : h[Len(b) + i] = p[i]
      /\ \A i \in 1 .. Len(q) : h[Len(b) + Len(p) + i] = q[i]
  BY <1>4 DEF IsJoint
<1>6. Len(h) = 5 /\ h[1] = "sp" /\ h[2] = k /\ h[3] = "sp" /\ h[4] = "=" /\ h[5] = "sp"
  <2>1. \A i \in 1 .. 3 : h[2 + i] = q[i]
    BY <1>1, <1>2, <1>5
  <2> QED
    BY <1>1, <1>2, <1>5, <2>1
<1>7. IsJoint(S, L, h, v, b)
  BY <1>2, <1>3, <1>5, Around
<1>8. /\ L \in Seq(S) /\ Len(L) = Len(h) + Len(v) + Len(b)
      /\ \A i \in 1 .. Len(h) : L[i] = h[i]
      /\ \A i \in 1 .. Len(v) : L[Len(h) + i] = v[i]
      /\ \A i \in 1 .. Len(b) : L[Len(h) + Len(v) + i] = b[i]
  BY <1>7 DEF IsJoint
<1>9. /\ Len(L) = 6 + Len(v) /\ L[1] = "sp" /\ L[2] = k /\ L[3] = "sp" /\ L[4] = "=" /\ L[5] = "sp"
      /\ \A i \in 1 .. Len(v) : L[5 + i] = v[i]
      /\ L[5 + Len(v) + 1] = "sp"
  BY <1>1, <1>2, <1>6, <1>8
<1>10. v # <<>> => v[1] # "sp" /\ v[Len(v)] # "sp"
  BY Bare
<1>11. /\ \A i \in 1 .. 2 - 1 : L[i] = "sp"
       /\ \A i \in 2 + 1 .. 4 - 1 : L[i] = "sp"
       /\ \A i \in 4 + 1 .. 5 : L[i] = "sp"
       /\ \A i \in 5 + Len(v) + 1 .. Len(L) : L[i] = "sp"
       /\ 1 <= 2 /\ 2 < 4 /\ 4 <= 5 /\ 5 + Len(v) <= Len(L)
  BY <1>1, <1>9
<1>12. Entry(L, k, 2, 4, 5, v)
  <2>1. k \notin {"sp", "=", "#", "semi", "[", "]", "dq", "sq"}
    BY DEF Word
  <2>2. L[2] = k /\ L[4] = "=" /\ \A i \in 1 .. Len(v) : L[5 + i] = v[i]
    BY <1>9
  <2> QED
    BY <1>10, <1>11, <2>1, <2>2 DEF Entry
<1> QED
  BY <1>8, <1>12

(* So is one with a value in double quotes and a blank at the end.         *)
LEMMA QuotedRead ==
  ASSUME NEW S, Signs \subseteq S, NEW k, Word(S, k), NEW v \in Seq(S),
         NEW L, L = QuotedLine(k, v), NEW u, u = InQuotes("dq", v)
  PROVE  L \in Seq(S) /\ Entry(L, k, 1, 2, 2, u)
<1> DEFINE p == <<k>>
           q == <<"=", "dq">>
           r == <<"dq", "sp">>
           h == Opening(p, q)
<1>1. p \in Seq(S) /\ Len(p) = 1 /\ p[1] = k /\ Len(v) \in Nat
  BY One DEF Word
<1>2. /\ q \in Seq(S) /\ Len(q) = 2 /\ q[1] = "=" /\ q[2] = "dq"
      /\ r \in Seq(S) /\ Len(r) = 2 /\ r[1] = "dq" /\ r[2] = "sp"
  <2>1. "sp" \in S /\ "=" \in S /\ "dq" \in S
    BY DEF Signs
  <2> QED
    BY <2>1, Two
<1>3. /\ Len(u) = Len(v) + 2 /\ u # <<>> /\ u[1] = "dq" /\ u[Len(u)] = "dq"
      /\ \A i \in 1 .. Len(v) : u[i + 1] = v[i]
  <2> DEFINE d == "dq"
  <2>1. d \in {"dq", "sq"} /\ d \in S /\ u = Joint(<<d>>, v, <<d>>)
    BY DEF InQuotes, Signs
  <2> HIDE DEF d
  <2>2. /\ Len(u) = Len(v) + 2 /\ u # <<>> /\ u[1] = d /\ u[Len(u)] = d
        /\ \A i \in 1 .. Len(v) : u[i + 1] = v[i]
    BY <2>1, QuotesOff
  <2> QED
    BY <2>2 DEF d
<1>4. L = Joint(h, v, r)
  BY DEF QuotedLine
<1> HIDE DEF p, q, r
<1>5. h \in Seq(S) /\ Len(h) = 3 /\ h[1] = k /\ h[2] = "=" /\ h[3] = "dq"
  <2>1. IsOpening(S, h, p, q)
    BY <1>1, <1>2, Beside
  <2> HIDE DEF h
  <2>2. /\ h \in Seq(S) /\ Len(h) = Len(p) + Len(q)
        /\ \A i \in 1 .. Len(p) : h[i] = p[i]
        /\ \A i \in 1 .. Len(q) : h[Len(p) + i] = q[i]
    BY <2>1 DEF IsOpening
  <2> QED
    BY <1>1, <1>2, <2>2
<1> HIDE DEF h
<1>6. IsJoint(S, L, h, v, r)
  BY <1>2, <1>4, <1>5, Around
<1>7. /\ L \in Seq(S) /\ Len(L) = Len(h) + Len(v) + Len(r)
      /\ \A i \in 1 .. Len(h) : L[i] = h[i]
      /\ \A i \in 1 .. Len(v) : L[Len(h) + i] = v[i]
      /\ \A i \in 1 .. Len(r) : L[Len(h) + Len(v) + i] = r[i]
  BY <1>6 DEF IsJoint
<1>8. /\ Len(L) = Len(v) + 5 /\ L[1] = k /\ L[2] = "=" /\ L[3] = "dq"
      /\ \A i \in 1 .. Len(v) : L[3 + i] = v[i]
      /\ L[Len(v) + 4] = "dq" /\ L[Len(v) + 5] = "sp"
  BY <1>1, <1>2, <1>5, <1>7
<1>9. \A i \in 1 .. Len(u) : L[2 + i] = u[i]
  <2> SUFFICES ASSUME NEW i \in 1 .. Len(u) PROVE L[2 + i] = u[i]
    OBVIOUS
  <2>1. CASE i = 1
    BY <1>3, <1>8, <2>1
  <2>2. CASE i = Len(u)
    BY <1>1, <1>3, <1>8, <2>2
  <2>3. CASE i # 1 /\ i # Len(u)
    <3>1. i - 1 \in 1 .. Len(v) /\ (i - 1) + 1 = i /\ 3 + (i - 1) = 2 + i
      BY <1>1, <1>3, <2>3
    <3> QED
      BY <1>3, <1>8, <3>1
  <2> QED
    BY <2>1, <2>2, <2>3
<1>10. /\ \A i \in 1 .. 1 - 1 : L[i] = "sp"
       /\ \A i \in 1 + 1 .. 2 - 1 : L[i] = "sp"
       /\ \A i \in 2 + 1 .. 2 : L[i] = "sp"
       /\ \A i \in 2 + Len(u) + 1 .. Len(L) : L[i] = "sp"
  BY <1>1, <1>3, <1>8
<1>11. /\ 1 <= 1 /\ 1 < 2 /\ 2 <= 2 /\ 2 + Len(u) <= Len(L)
       /\ u # <<>> => u[1] # "sp" /\ u[Len(u)] # "sp"
  BY <1>1, <1>3, <1>8
<1>12. Entry(L, k, 1, 2, 2, u)
  <2>1. k \notin {"sp", "=", "#", "semi", "[", "]", "dq", "sq"}
    BY DEF Word
  <2>2. L[1] = k /\ L[2] = "="
    BY <1>8
  <2> QED
    BY <1>9, <1>10, <1>11, <2>1, <2>2 DEF Entry
<1> QED
  BY <1>7, <1>12

(* So is one with a value in single quotes after a blank.                  *)
LEMMA SingleRead ==
  ASSUME NEW S, Signs \subseteq S, NEW k, Word(S, k), NEW v \in Seq(S),
         NEW L, L = SingleLine(k, v), NEW u, u = InQuotes("sq", v)
  PROVE  L \in Seq(S) /\ Entry(L, k, 1, 2, 3, u)
<1> DEFINE p == <<k>>
           q == <<"=", "sp", "sq">>
           r == <<"sq">>
           h == Opening(p, q)
<1>1. p \in Seq(S) /\ Len(p) = 1 /\ p[1] = k /\ Len(v) \in Nat
  BY One DEF Word
<1>2. /\ q \in Seq(S) /\ Len(q) = 3 /\ q[1] = "=" /\ q[2] = "sp" /\ q[3] = "sq"
      /\ r \in Seq(S) /\ Len(r) = 1 /\ r[1] = "sq"
  <2>1. "sp" \in S /\ "=" \in S /\ "sq" \in S
    BY DEF Signs
  <2> QED
    BY <2>1, One, Three
<1>3. /\ Len(u) = Len(v) + 2 /\ u # <<>> /\ u[1] = "sq" /\ u[Len(u)] = "sq"
      /\ \A i \in 1 .. Len(v) : u[i + 1] = v[i]
  <2> DEFINE d == "sq"
  <2>1. d \in {"dq", "sq"} /\ d \in S /\ u = Joint(<<d>>, v, <<d>>)
    BY DEF InQuotes, Signs
  <2> HIDE DEF d
  <2>2. /\ Len(u) = Len(v) + 2 /\ u # <<>> /\ u[1] = d /\ u[Len(u)] = d
        /\ \A i \in 1 .. Len(v) : u[i + 1] = v[i]
    BY <2>1, QuotesOff
  <2> QED
    BY <2>2 DEF d
<1>4. L = Joint(h, v, r)
  BY DEF SingleLine
<1> HIDE DEF p, q, r
<1>5. h \in Seq(S) /\ Len(h) = 4 /\ h[1] = k /\ h[2] = "=" /\ h[3] = "sp" /\ h[4] = "sq"
  <2>1. IsOpening(S, h, p, q)
    BY <1>1, <1>2, Beside
  <2> HIDE DEF h
  <2>2. /\ h \in Seq(S) /\ Len(h) = Len(p) + Len(q)
        /\ \A i \in 1 .. Len(p) : h[i] = p[i]
        /\ \A i \in 1 .. Len(q) : h[Len(p) + i] = q[i]
    BY <2>1 DEF IsOpening
  <2> QED
    BY <1>1, <1>2, <2>2
<1> HIDE DEF h
<1>6. IsJoint(S, L, h, v, r)
  BY <1>2, <1>4, <1>5, Around
<1>7. /\ L \in Seq(S) /\ Len(L) = Len(h) + Len(v) + Len(r)
      /\ \A i \in 1 .. Len(h) : L[i] = h[i]
      /\ \A i \in 1 .. Len(v) : L[Len(h) + i] = v[i]
      /\ \A i \in 1 .. Len(r) : L[Len(h) + Len(v) + i] = r[i]
  BY <1>6 DEF IsJoint
<1>8. /\ Len(L) = Len(v) + 5 /\ L[1] = k /\ L[2] = "=" /\ L[3] = "sp" /\ L[4] = "sq"
      /\ \A i \in 1 .. Len(v) : L[4 + i] = v[i]
      /\ L[Len(v) + 5] = "sq"
  BY <1>1, <1>2, <1>5, <1>7
<1>9. \A i \in 1 .. Len(u) : L[3 + i] = u[i]
  <2> SUFFICES ASSUME NEW i \in 1 .. Len(u) PROVE L[3 + i] = u[i]
    OBVIOUS
  <2>1. CASE i = 1
    BY <1>3, <1>8, <2>1
  <2>2. CASE i = Len(u)
    BY <1>1, <1>3, <1>8, <2>2
  <2>3. CASE i # 1 /\ i # Len(u)
    <3>1. i - 1 \in 1 .. Len(v) /\ (i - 1) + 1 = i /\ 4 + (i - 1) = 3 + i
      BY <1>1, <1>3, <2>3
    <3> QED
      BY <1>3, <1>8, <3>1
  <2> QED
    BY <2>1, <2>2, <2>3
<1>10. /\ \A i \in 1 .. 1 - 1 : L[i] = "sp"
       /\ \A i \in 1 + 1 .. 2 - 1 : L[i] = "sp"
       /\ \A i \in 2 + 1 .. 3 : L[i] = "sp"
       /\ \A i \in 3 + Len(u) + 1 .. Len(L) : L[i] = "sp"
  BY <1>1, <1>3, <1>8
<1>11. /\ 1 <= 1 /\ 1 < 2 /\ 2 <= 3 /\ 3 + Len(u) <= Len(L)
       /\ u # <<>> => u[1] # "sp" /\ u[Len(u)] # "sp"
  BY <1>1, <1>3, <1>8
<1>12. Entry(L, k, 1, 2, 3, u)
  <2>1. k \notin {"sp", "=", "#", "semi", "[", "]", "dq", "sq"}
    BY DEF Word
  <2>2. L[1] = k /\ L[2] = "="
    BY <1>8
  <2> QED
    BY <1>9, <1>10, <1>11, <2>1, <2>2 DEF Entry
<1> QED
  BY <1>7, <1>12

(* A comment, with blanks before it or not, sets nothing.                  *)
LEMMA CommentSkipped ==
  ASSUME NEW S, NEW L \in Seq(S), NEW a \in 1 .. Len(L), L[a] \in {"#", "semi"},
         \A i \in 1 .. a - 1 : L[i] = "sp"
  PROVE  SetsNothing(Stripped(L))
<1>1. L[a] # "sp" /\ Len(L) \in Nat
  OBVIOUS
<1>2. PICK c, b : Ends(L, c, b)
  BY <1>1, StripTo
<1>3. c \in 1 .. Len(L) /\ b \in 1 .. Len(L) /\ c <= b /\ L[c] # "sp" /\ \A i \in 1 .. c - 1 : L[i] = "sp"
  BY <1>2 DEF Ends
<1>4. ~(c < a) /\ ~(a < c)
  <2>1. c < a => c \in 1 .. a - 1
    BY <1>1, <1>3
  <2>2. a < c => a \in 1 .. c - 1
    BY <1>1, <1>3
  <2> QED
    BY <1>1, <1>3, <2>1, <2>2
<1>5. c = a
  BY <1>1, <1>3, <1>4
<1> DEFINE t == SubSeq(L, c, b)
<1>6. t \in Seq(S) /\ Len(t) = b - c + 1 /\ \A i \in 1 .. b - c + 1 : t[i] = L[c + i - 1]
  BY <1>1, <1>3, Stretch
<1> HIDE DEF t
<1>7. 1 \in 1 .. b - c + 1 /\ c + 1 - 1 = c
  BY <1>1, <1>3
<1>8. t[1] = L[a]
  BY <1>5, <1>6, <1>7
<1>9. Stripped(L) = t
  BY <1>2, StripTo DEF t
<1> QED
  BY <1>8, <1>9 DEF SetsNothing

(* Nor does a section header.                                              *)
LEMMA SectionSkipped ==
  ASSUME NEW S, {"[", "]", "sp"} \subseteq S, NEW v \in Seq(S), NEW L,
         L = (<<"[">> \o v) \o <<"]", "sp">>
  PROVE  SetsNothing(Stripped(L))
<1> DEFINE p == <<"[">>
           q == <<"]", "sp">>
           m == Len(v)
<1>1. /\ p \in Seq(S) /\ Len(p) = 1 /\ p[1] = "["
      /\ q \in Seq(S) /\ Len(q) = 2 /\ q[1] = "]" /\ q[2] = "sp" /\ m \in Nat
  OBVIOUS
<1>2. L = (p \o v) \o q
  OBVIOUS
<1> HIDE DEF p, q
<1>3. /\ L \in Seq(S) /\ Len(L) = Len(p) + Len(v) + Len(q)
      /\ \A i \in 1 .. Len(p) : L[i] = p[i]
      /\ \A i \in 1 .. Len(q) : L[Len(p) + Len(v) + i] = q[i]
  BY <1>1, <1>2, Around
<1>4. Len(L) = m + 3 /\ L[1] = "[" /\ L[m + 2] = "]" /\ L[m + 3] = "sp"
  <2>1. 1 \in 1 .. Len(p) /\ 1 \in 1 .. Len(q) /\ 2 \in 1 .. Len(q)
        /\ Len(p) + Len(v) + 1 = m + 2 /\ Len(p) + Len(v) + 2 = m + 3
    BY <1>1
  <2> QED
    BY <1>1, <1>3, <2>1
<1> HIDE DEF m
<1>5. Ends(L, 1, m + 2)
  <2>1. 1 \in 1 .. Len(L) /\ m + 2 \in 1 .. Len(L) /\ 1 <= m + 2
        /\ (\A i \in 1 .. 1 - 1 : FALSE) /\ \A i \in (m + 2) + 1 .. Len(L) : i = m + 3
    BY <1>1, <1>4
  <2> QED
    BY <1>4, <2>1 DEF Ends
<1> DEFINE t == SubSeq(L, 1, m + 2)
<1>6. Stripped(L) = t
  BY <1>3, <1>5, StripTo
<1>7. t \in Seq(S) /\ Len(t) = m + 2 /\ \A i \in 1 .. m + 2 : t[i] = L[1 + i - 1]
  <2>1. 1 \in Nat /\ m + 2 \in Nat /\ 1 <= 1 /\ m + 2 <= Len(L) /\ 1 <= (m + 2) + 1
        /\ (m + 2) - 1 + 1 = m + 2
    BY <1>1, <1>4
  <2> QED
    BY <1>3, <2>1, Stretch
<1> HIDE DEF t
<1>8. t[1] = "[" /\ t[Len(t)] = "]"
  <2>1. 1 \in 1 .. m + 2 /\ m + 2 \in 1 .. m + 2 /\ 1 + 1 - 1 = 1 /\ 1 + (m + 2) - 1 = m + 2
    BY <1>1
  <2> QED
    BY <1>4, <1>7, <2>1
<1> QED
  BY <1>6, <1>8 DEF SetsNothing, Last

(* Nor does a line without "=".                                            *)
LEMMA WordsSkipped ==
  ASSUME NEW S, NEW L \in Seq(S), \A i \in 1 .. Len(L) : L[i] # "="
  PROVE  SetsNothing(Stripped(L))
<1>1. CASE \A i \in 1 .. Len(L) : L[i] = "sp"
  BY <1>1, StripTo DEF SetsNothing
<1>2. CASE ~ \A i \in 1 .. Len(L) : L[i] = "sp"
  <2>1. PICK a, b : Ends(L, a, b)
    BY <1>2, StripTo
  <2>2. a \in 1 .. Len(L) /\ b \in 1 .. Len(L) /\ a <= b /\ Len(L) \in Nat
    BY <2>1 DEF Ends
  <2> DEFINE t == SubSeq(L, a, b)
  <2>3. t \in Seq(S) /\ Len(t) = b - a + 1 /\ \A i \in 1 .. b - a + 1 : t[i] = L[a + i - 1]
    BY <2>2, Stretch
  <2> HIDE DEF t
  <2>4. ASSUME NEW i \in DOMAIN t PROVE t[i] # "="
    <3>1. i \in 1 .. b - a + 1 /\ a + i - 1 \in 1 .. Len(L)
      BY <2>2, <2>3
    <3> QED
      BY <2>3, <3>1
  <2>5. "=" \notin ToSet(t)
    BY <2>4 DEF ToSet
  <2>6. Stripped(L) = t
    BY <2>1, StripTo DEF t
  <2> QED
    BY <2>5, <2>6 DEF SetsNothing
<1> QED
  BY <1>1, <1>2

(* The key and the value of a line.                                        *)
KeyRead(t)   == Stripped(SubSeq(t, 1, SplitAt(t) - 1))
ValueRead(t) == Unquoted(Stripped(SubSeq(t, SplitAt(t) + 1, Len(t))))

(* What a line sets, in every form, is what was written.                   *)
LEMMA LineRead ==
  ASSUME NEW w, WellWritten(w), NEW t, t = Stripped(Line(w))
  PROVE  /\ SetsNothing(t) <=> ~Active(w)
         /\ Active(w) => KeyRead(t) = w.key /\ ValueRead(t) = w.value
<1> DEFINE k == w.key[1]
           v == w.value
           L == Line(w)
           S == ToSet(v) \union {k, "sp", "=", "#", "semi", "[", "]", "dq", "sq"}
<1>1. /\ w.key = <<k>> /\ k \notin {"sp", "=", "#", "semi", "[", "]", "dq", "sq"}
      /\ v \in Seq(ToSet(v))
  BY DEF WellWritten
<1>2. /\ w.form \in {"plain", "spaced"} => Stripped(v) = v /\ Unquoted(v) = v
      /\ w.form = "bare" => "=" \notin ToSet(v)
      /\ w.form \in {"plain", "spaced", "quoted", "single", "commented", "disabled", "section",
                     "bare", "blank"}
  BY DEF WellWritten
<1>3. v \in Seq(S) /\ k \in S /\ {"sp", "=", "#", "semi", "[", "]", "dq", "sq"} \subseteq S
  BY <1>1, SeqMonotonic
<1> HIDE DEF S
<1>14. Word(S, k) /\ Signs \subseteq S
  BY <1>1, <1>3 DEF Word, Signs
<1>4. ASSUME NEW a \in Nat, NEW e \in Nat, NEW o \in Nat, NEW u \in Seq(S), L \in Seq(S),
             Entry(L, k, a, e, o, u), Unquoted(u) = v
      PROVE  ~SetsNothing(t) /\ KeyRead(t) = w.key /\ ValueRead(t) = w.value
  <2> HIDE DEF L, k
  <2>1. t = Stripped(L)
    BY DEF L
  <2>2. /\ ~SetsNothing(t)
        /\ Stripped(SubSeq(t, 1, SplitAt(t) - 1)) = <<k>>
        /\ Stripped(SubSeq(t, SplitAt(t) + 1, Len(t))) = u
    BY <1>4, <2>1, EntryRead
  <2> QED
    BY <1>1, <1>4, <2>2 DEF KeyRead, ValueRead
<1>5. CASE w.form = "plain"
  <2>1. L = PlainLine(k, v)
    BY <1>1, <1>5 DEF Line, PlainLine, Joint
  <2> HIDE DEF L, k, v
  <2>2. Stripped(v) = v
    BY <1>2, <1>5
  <2>4. L \in Seq(S) /\ Entry(L, k, 1, 2, 2, v)
    BY <1>3, <1>14, <2>1, <2>2, PlainRead
  <2>3. ~SetsNothing(t) /\ KeyRead(t) = w.key /\ ValueRead(t) = w.value
    BY <1>2, <1>3, <1>4, <1>5, <2>4
  <2> QED
    BY <1>5, <2>3 DEF Active
<1>6. CASE w.form = "spaced"
  <2>1. L = SpacedLine(k, v)
    BY <1>1, <1>6 DEF Line, SpacedLine, Joint
  <2> HIDE DEF L, k, v
  <2>2. Stripped(v) = v
    BY <1>2, <1>6
  <2>4. L \in Seq(S) /\ Entry(L, k, 2, 4, 5, v)
    BY <1>3, <1>14, <2>1, <2>2, SpacedRead
  <2>3. ~SetsNothing(t) /\ KeyRead(t) = w.key /\ ValueRead(t) = w.value
    BY <1>2, <1>3, <1>4, <1>6, <2>4
  <2> QED
    BY <1>6, <2>3 DEF Active
<1>7. CASE w.form = "quoted"
  <2> DEFINE d == "dq"
             u == InQuotes(d, v)
  <2>1. L = QuotedLine(k, v)
    BY <1>1, <1>7 DEF Line, QuotedLine, Joint, Opening
  <2> HIDE DEF L, k, v
  <2>2. L \in Seq(S) /\ Entry(L, k, 1, 2, 2, u)
    BY <1>3, <1>14, <2>1, QuotedRead
  <2>5. d \in {"dq", "sq"} /\ d \in S /\ u = Joint(<<d>>, v, <<d>>)
    BY <1>3 DEF InQuotes
  <2> HIDE DEF d, u
  <2>3. u \in Seq(S) /\ Unquoted(u) = v
    BY <1>3, <2>5, QuotesOff
  <2>4. ~SetsNothing(t) /\ KeyRead(t) = w.key /\ ValueRead(t) = w.value
    BY <1>4, <2>2, <2>3
  <2> QED
    BY <1>7, <2>4 DEF Active
<1>8. CASE w.form = "single"
  <2> DEFINE d == "sq"
             u == InQuotes(d, v)
  <2>1. L = SingleLine(k, v)
    BY <1>1, <1>8 DEF Line, SingleLine, Joint, Opening
  <2> HIDE DEF L, k, v
  <2>2. L \in Seq(S) /\ Entry(L, k, 1, 2, 3, u)
    BY <1>3, <1>14, <2>1, SingleRead
  <2>5. d \in {"dq", "sq"} /\ d \in S /\ u = Joint(<<d>>, v, <<d>>)
    BY <1>3 DEF InQuotes
  <2> HIDE DEF d, u
  <2>3. u \in Seq(S) /\ Unquoted(u) = v
    BY <1>3, <2>5, QuotesOff
  <2>4. ~SetsNothing(t) /\ KeyRead(t) = w.key /\ ValueRead(t) = w.value
    BY <1>4, <2>2, <2>3
  <2> QED
    BY <1>8, <2>4 DEF Active
<1>9. CASE w.form = "commented"
  <2> DEFINE h == <<"sp", "#">>
             q == <<k>>
             r == <<"=">>
  <2>1. L = Joint(Opening(h, q), r, v)
    BY <1>1, <1>9 DEF Line, Joint, Opening
  <2>2. /\ h \in Seq(S) /\ Len(h) = 2 /\ h[1] = "sp" /\ h[2] = "#"
        /\ r \in Seq(S) /\ q \in Seq(S)
    BY <1>3, One, Two
  <2> HIDE DEF h, q, r, L, k, v
  <2>3. /\ L \in Seq(S) /\ Len(L) \in Nat /\ Len(L) >= 2
        /\ \A i \in 1 .. 2 : L[i] = h[i]
    <3> DEFINE g == Opening(h, q)
    <3>1. IsOpening(S, g, h, q)
      BY <2>2, Beside
    <3> HIDE DEF g
    <3>2. g \in Seq(S) /\ Len(g) = Len(h) + Len(q) /\ \A i \in 1 .. Len(h) : g[i] = h[i]
      BY <3>1 DEF IsOpening
    <3>3. IsJoint(S, L, g, r, v)
      BY <1>3, <2>1, <2>2, <3>2, Around DEF g
    <3>4. L \in Seq(S) /\ Len(L) = Len(g) + Len(r) + Len(v) /\ \A i \in 1 .. Len(g) : L[i] = g[i]
      BY <3>3 DEF IsJoint
    <3>5. Len(q) \in Nat /\ Len(r) \in Nat /\ Len(v) \in Nat
      BY <1>3, <2>2
    <3>6. Len(L) \in Nat /\ Len(L) >= 2 /\ \A i \in 1 .. 2 : i \in 1 .. Len(g) /\ i \in 1 .. Len(h)
      BY <2>2, <3>2, <3>4, <3>5
    <3> QED
      BY <3>2, <3>4, <3>6
  <2>4. SetsNothing(Stripped(L))
    <3>1. 2 \in 1 .. Len(L) /\ L[2] \in {"#", "semi"} /\ \A i \in 1 .. 2 - 1 : L[i] = "sp"
      BY <2>2, <2>3
    <3> QED
      BY <2>3, <3>1, CommentSkipped
  <2> QED
    BY <1>9, <2>4 DEF Active, L
<1>10. CASE w.form = "disabled"
  <2> DEFINE h == <<"semi">>
             q == <<k>>
             r == <<"=">>
  <2>1. L = Joint(Opening(h, q), r, v)
    BY <1>1, <1>10 DEF Line, Joint, Opening
  <2>2. /\ h \in Seq(S) /\ Len(h) = 1 /\ h[1] = "semi"
        /\ r \in Seq(S) /\ q \in Seq(S)
    BY <1>3, One, Two
  <2> HIDE DEF h, q, r, L, k, v
  <2>3. /\ L \in Seq(S) /\ Len(L) \in Nat /\ Len(L) >= 1
        /\ \A i \in 1 .. 1 : L[i] = h[i]
    <3> DEFINE g == Opening(h, q)
    <3>1. IsOpening(S, g, h, q)
      BY <2>2, Beside
    <3> HIDE DEF g
    <3>2. g \in Seq(S) /\ Len(g) = Len(h) + Len(q) /\ \A i \in 1 .. Len(h) : g[i] = h[i]
      BY <3>1 DEF IsOpening
    <3>3. IsJoint(S, L, g, r, v)
      BY <1>3, <2>1, <2>2, <3>2, Around DEF g
    <3>4. L \in Seq(S) /\ Len(L) = Len(g) + Len(r) + Len(v) /\ \A i \in 1 .. Len(g) : L[i] = g[i]
      BY <3>3 DEF IsJoint
    <3>5. Len(q) \in Nat /\ Len(r) \in Nat /\ Len(v) \in Nat
      BY <1>3, <2>2
    <3>6. Len(L) \in Nat /\ Len(L) >= 1 /\ \A i \in 1 .. 1 : i \in 1 .. Len(g) /\ i \in 1 .. Len(h)
      BY <2>2, <3>2, <3>4, <3>5
    <3> QED
      BY <3>2, <3>4, <3>6
  <2>4. SetsNothing(Stripped(L))
    <3>1. 1 \in 1 .. Len(L) /\ L[1] \in {"#", "semi"} /\ \A i \in 1 .. 1 - 1 : L[i] = "sp"
      BY <2>2, <2>3
    <3> QED
      BY <2>3, <3>1, CommentSkipped
  <2> QED
    BY <1>10, <2>4 DEF Active, L
<1>11. CASE w.form = "section"
  <2>1. L = (<<"[">> \o v) \o <<"]", "sp">>
    BY <1>11 DEF Line
  <2> HIDE DEF L, k
  <2>2. SetsNothing(Stripped(L))
    BY <1>3, <2>1, SectionSkipped
  <2> QED
    BY <1>11, <2>2 DEF Active, L
<1>12. CASE w.form = "bare"
  <2> DEFINE p == <<k>>
  <2>1. L = Opening(p, v)
    BY <1>1, <1>12 DEF Line, Opening
  <2>2. p \in Seq(S) /\ Len(p) = 1 /\ p[1] = k
    BY <1>3, One
  <2> HIDE DEF L, p
  <2>3. L \in Seq(S) /\ Len(L) = 1 + Len(v) /\ Len(v) \in Nat /\ L[1] = k
        /\ \A i \in 1 .. Len(v) : L[1 + i] = v[i]
    <3>1. IsOpening(S, L, p, v)
      BY <1>3, <2>1, <2>2, Beside
    <3> QED
      BY <1>3, <2>2, <3>1 DEF IsOpening
  <2>4. ASSUME NEW i \in 1 .. Len(L) PROVE L[i] # "="
    <3>1. CASE i = 1
      BY <1>1, <2>3, <3>1
    <3>2. CASE i # 1
      <4>1. i - 1 \in 1 .. Len(v) /\ 1 + (i - 1) = i
        BY <2>3, <3>2
      <4>2. L[i] = v[i - 1] /\ v[i - 1] \in ToSet(v)
        BY <1>1, <2>3, <4>1 DEF ToSet
      <4> QED
        BY <1>2, <1>12, <4>2
    <3> QED
      BY <3>1, <3>2
  <2>5. SetsNothing(Stripped(L))
    BY <2>3, <2>4, WordsSkipped
  <2> QED
    BY <1>12, <2>5 DEF Active, L
<1>13. CASE w.form = "blank"
  <2>1. L = <<"sp">>
    BY <1>13 DEF Line
  <2>2. L \in Seq(S) /\ \A i \in 1 .. Len(L) : L[i] # "="
    BY <1>3, <2>1
  <2> HIDE DEF L
  <2>3. SetsNothing(Stripped(L))
    BY <2>2, WordsSkipped
  <2> QED
    BY <1>13, <2>3 DEF Active, L
<1> QED
  BY <1>2, <1>5, <1>6, <1>7, <1>8, <1>9, <1>10, <1>11, <1>12, <1>13

(* The line i sets a key; it is the last one of n lines that does.         *)
Sets(i, name)       == Active(file[i]) /\ file[i].key = name
LastSet(n, name, i) == i \in 1 .. n /\ Sets(i, name) /\ \A j \in i + 1 .. n : ~Sets(j, name)

(* What is set is what the last line for each key sets.                    *)
ReadSoFar(n) ==
  /\ \A name \in DOMAIN conf : \E i \in 1 .. n : Sets(i, name)
  /\ \A name : \A i : LastSet(n, name, i) => name \in DOMAIN conf /\ conf[name] = file[i].value

(* The reader is at some line of the file, and reads it to its end before  *)
(* there is a client.                                                      *)
ConfigInv ==
  /\ file \in Seq(Settings) /\ rest \in Seq(Settings) /\ Len(rest) <= Len(file)
  /\ \A i \in 1 .. Len(rest) : rest[i] = file[Len(file) - Len(rest) + i]
  /\ ReadSoFar(Len(file) - Len(rest))
  /\ client.state \in {"none", "ValueError", "made"} /\ (client.state # "none" => rest = <<>>)
  /\ EndpointAsMeant

(* At first nothing is read.                                               *)
LEMMA InitConfig ==
  ASSUME SettingsGiven, ConfigInit
  PROVE  ConfigInv
<1>1. PICK n \in 0 .. MostLines : file \in [1 .. n -> Settings]
  BY DEF ConfigInit
<1>2. n \in Nat /\ rest = file /\ conf = <<>> /\ client = [state |-> "none"]
  BY DEF ConfigInit, SettingsGiven
<1>3. file \in Seq(Settings) /\ Len(file) - Len(rest) = 0
  BY <1>1, <1>2
<1>4. ReadSoFar(0)
  <2>1. DOMAIN conf = {} /\ \A i : i \notin 1 .. 0
    BY <1>2
  <2> QED
    BY <2>1 DEF ReadSoFar, LastSet
<1>5. client.state = "none"
  BY <1>2
<1>6. EndpointAsMeant
  BY <1>5 DEF EndpointAsMeant
<1> QED
  BY <1>2, <1>3, <1>4, <1>5, <1>6 DEF ConfigInv

(* Another line is read.                                                   *)
LEMMA ReadLineKeeps ==
  ASSUME SettingsGiven, ConfigInv, ReadLine
  PROVE  ConfigInv'
<1> PICK n : n = Len(file) - Len(rest)
  OBVIOUS
<1> DEFINE w == Head(rest)
           t == Stripped(Line(w))
<1>1. /\ file \in Seq(Settings) /\ rest \in Seq(Settings) /\ Len(rest) <= Len(file)
      /\ \A i \in 1 .. Len(rest) : rest[i] = file[n + i]
      /\ ReadSoFar(n)
  BY DEF ConfigInv
<1>2. /\ rest # <<>> /\ rest' = Tail(rest) /\ file' = file /\ client' = client
      /\ conf' = IF SetsNothing(t) THEN conf
                 ELSE [k \in DOMAIN conf \cup {KeyRead(t)} |->
                         IF k = KeyRead(t) THEN ValueRead(t) ELSE conf[k]]
  BY DEF ReadLine, KeyRead, ValueRead
<1>3. /\ Len(rest) \in Nat /\ Len(file) \in Nat /\ Len(rest) >= 1 /\ n \in Nat
      /\ rest' \in Seq(Settings) /\ Len(rest') = Len(rest) - 1
      /\ \A i \in 1 .. Len(rest) - 1 : rest'[i] = rest[i + 1]
  BY <1>1, <1>2
<1>4. w = file[n + 1] /\ w \in Settings
  <2>1. w = rest[1] /\ 1 \in 1 .. Len(rest)
    BY <1>1, <1>2, <1>3
  <2> QED
    BY <1>1, <2>1
<1>5. Len(file') - Len(rest') = n + 1
  BY <1>2, <1>3
<1> HIDE DEF w
<1>6. \A i \in 1 .. Len(rest') : rest'[i] = file'[n + 1 + i]
  <2> SUFFICES ASSUME NEW i \in 1 .. Len(rest') PROVE rest'[i] = file[n + 1 + i]
    BY <1>2
  <2>1. i \in 1 .. Len(rest) - 1 /\ i + 1 \in 1 .. Len(rest) /\ n + (i + 1) = n + 1 + i
    BY <1>3
  <2> QED
    BY <1>1, <1>3, <2>1
<1>7. /\ SetsNothing(t) <=> ~Active(w)
      /\ Active(w) => KeyRead(t) = w.key /\ ValueRead(t) = w.value
  <2>1. WellWritten(w)
    BY <1>4 DEF SettingsGiven
  <2> QED
    BY <2>1, LineRead
<1> HIDE DEF t
<1>8. \A name : Sets(n + 1, name) <=> Active(w) /\ w.key = name
  BY <1>4 DEF Sets
<1>9. ASSUME NEW name, NEW i, i # n + 1, LastSet(n + 1, name, i)
      PROVE  LastSet(n, name, i) /\ ~Sets(n + 1, name)
  <2>1. i \in 1 .. n + 1 /\ Sets(i, name) /\ \A j \in i + 1 .. n + 1 : ~Sets(j, name)
    BY <1>9 DEF LastSet
  <2>3. i \in 1 .. n + 1 /\ i # n + 1
    BY <1>9, <2>1
  <2>4. n \in Nat
    BY <1>3
  <2>2. i \in 1 .. n /\ n + 1 \in i + 1 .. n + 1 /\ \A j \in i + 1 .. n : j \in i + 1 .. n + 1
    BY <2>3, <2>4
  <2> QED
    BY <2>1, <2>2 DEF LastSet
<1>10. /\ \A name \in DOMAIN conf : \E i \in 1 .. n : Sets(i, name)
       /\ \A name : \A i : LastSet(n, name, i) => name \in DOMAIN conf /\ conf[name] = file[i].value
  BY <1>1 DEF ReadSoFar
<1>11. /\ \A name \in DOMAIN conf' : \E i \in 1 .. n + 1 : Sets(i, name)
       /\ \A name : \A i : LastSet(n + 1, name, i) => name \in DOMAIN conf' /\ conf'[name] = file[i].value
  <2>1. n + 1 \in 1 .. n + 1 /\ \A i \in 1 .. n : i \in 1 .. n + 1
    BY <1>3
  <2>2. CASE ~Active(w)
    <3>1. conf' = conf
      BY <1>2, <1>7, <2>2
    <3>2. \A name : ~LastSet(n + 1, name, n + 1)
      BY <1>8, <2>2 DEF LastSet
    <3>3. \A name : \A i : LastSet(n + 1, name, i) => LastSet(n, name, i)
      BY <1>9, <3>2
    <3> QED
      BY <1>10, <2>1, <3>1, <3>3
  <2>3. CASE Active(w)
    <3>1. conf' = [k \in DOMAIN conf \cup {w.key} |-> IF k = w.key THEN w.value ELSE conf[k]]
      BY <1>2, <1>7, <2>3
    <3>2. Sets(n + 1, w.key)
      BY <1>8, <2>3
    <3>3. \A name \in DOMAIN conf' : \E i \in 1 .. n + 1 : Sets(i, name)
      BY <1>10, <2>1, <3>1, <3>2
    <3>4. ASSUME NEW name, NEW i, LastSet(n + 1, name, i)
          PROVE  name \in DOMAIN conf' /\ conf'[name] = file[i].value
      <4>1. CASE i = n + 1
        <5>1. name = w.key /\ file[i] = w
          BY <1>4, <1>8, <3>4, <4>1 DEF LastSet
        <5> QED
          BY <3>1, <5>1
      <4>2. CASE i # n + 1
        <5>1. LastSet(n, name, i) /\ name # w.key
          BY <1>9, <3>2, <3>4, <4>2
        <5>2. name \in DOMAIN conf /\ conf[name] = file[i].value
          BY <1>10, <5>1
        <5> QED
          BY <3>1, <5>1, <5>2
      <4> QED
        BY <4>1, <4>2
    <3> QED
      BY <3>3, <3>4
  <2> QED
    BY <2>2, <2>3
<1>12. ReadSoFar(n + 1)'
  <2>1. \A i, name : Sets(i, name)' <=> Sets(i, name)
    BY <1>2 DEF Sets, Active
  <2>2. \A name, i : LastSet(n + 1, name, i)' <=> LastSet(n + 1, name, i)
    BY <2>1 DEF LastSet
  <2> QED
    BY <1>2, <1>11, <2>1, <2>2 DEF ReadSoFar
<1>13. client'.state = "none"
  BY <1>2 DEF ConfigInv
<1>14. EndpointAsMeant'
  BY <1>13 DEF EndpointAsMeant
<1> QED
  BY <1>1, <1>2, <1>3, <1>5, <1>6, <1>12, <1>13, <1>14 DEF ConfigInv

(* When the file is read, what is set is what is meant.                    *)
LEMMA AllRead ==
  ASSUME SettingsGiven, ConfigInv, rest = <<>>
  PROVE  /\ \A name \in DOMAIN conf : Len(name) = 1 /\ Lines(name[1]) # {}
         /\ \A word, default :
              Get(word, default) = IF Lines(word) = {} THEN default
                                          ELSE Meant(word)
         /\ \A word : Get(word, None) = Meant(word)
         /\ \A word : Meant(word) = None <=> Lines(word) = {}
<1>1. file \in Seq(Settings) /\ Len(file) \in Nat /\ DOMAIN file = 1 .. Len(file)
  BY DEF ConfigInv
<1>2. Len(file) - Len(rest) = Len(file)
  BY <1>1
<1>3. ReadSoFar(Len(file))
  BY <1>2 DEF ConfigInv
<1> DEFINE n == Len(file)
<1>4. /\ \A name \in DOMAIN conf : \E i \in 1 .. n : Sets(i, name)
      /\ \A name : \A i : LastSet(n, name, i) => name \in DOMAIN conf /\ conf[name] = file[i].value
  BY <1>3 DEF ReadSoFar
<1>5. \A i \in 1 .. n : file[i].key = <<file[i].key[1]>> /\ file[i].value # None
  <2> SUFFICES ASSUME NEW i \in 1 .. n
               PROVE  file[i].key = <<file[i].key[1]>> /\ file[i].value # None
    OBVIOUS
  <2>1. file[i] \in Settings
    BY <1>1
  <2> QED
    BY <2>1 DEF SettingsGiven, WellWritten
<1>6. n \in Nat /\ DOMAIN file = 1 .. n
  BY <1>1
<1> HIDE DEF n
<1>7. \A word : Lines(word) = {i \in 1 .. n : Sets(i, <<word>>)}
  BY <1>6 DEF Lines, Sets
<1>8. ASSUME NEW name \in DOMAIN conf PROVE Len(name) = 1 /\ Lines(name[1]) # {}
  <2>1. PICK i \in 1 .. n : Sets(i, name)
    BY <1>4
  <2>2. name = <<file[i].key[1]>>
    BY <1>5, <2>1 DEF Sets
  <2>3. Len(name) = 1 /\ name = <<name[1]>>
    BY <2>2
  <2>4. Sets(i, <<name[1]>>)
    BY <2>1, <2>3
  <2> QED
    BY <1>7, <2>3, <2>4
<1>9. ASSUME NEW word, Lines(word) # {}
      PROVE  /\ <<word>> \in DOMAIN conf /\ conf[<<word>>] = Meant(word)
             /\ Meant(word) # None
  <2> DEFINE X == Lines(word)
  <2>1. X \subseteq 1 .. n /\ X # {}
    BY <1>7, <1>9
  <2>2. \A i : i \in X <=> i \in 1 .. n /\ Sets(i, <<word>>)
    BY <1>7
  <2>3. Meant(word) = file[Max(X)].value
    BY <1>9 DEF Meant
  <2> HIDE DEF X
  <2>4. PICK m \in X : \A i \in X : i <= m
    BY <1>6, <2>1, Extremes
  <2>5. Max(X) = m
    <3>1. X \subseteq Int
      BY <2>1
    <3> QED
      BY <2>4, <3>1, ExtremeIs
  <2>6. LastSet(n, <<word>>, m)
    <3>1. m \in 1 .. n /\ Sets(m, <<word>>)
      BY <2>2
    <3>2. ASSUME NEW j \in m + 1 .. n, Sets(j, <<word>>) PROVE FALSE
      <4>1. j \in 1 .. n /\ ~(j <= m)
        BY <1>6, <3>1
      <4> QED
        BY <2>2, <2>4, <3>2, <4>1
    <3> QED
      BY <3>1, <3>2 DEF LastSet
  <2>7. <<word>> \in DOMAIN conf /\ conf[<<word>>] = file[m].value /\ m \in 1 .. n
    BY <1>4, <2>6 DEF LastSet
  <2> QED
    BY <1>5, <2>3, <2>5, <2>7
<1>10. ASSUME NEW word, Lines(word) = {}
       PROVE  <<word>> \notin DOMAIN conf /\ Meant(word) = None
  <2>1. <<word>>[1] = word
    OBVIOUS
  <2> QED
    BY <1>8, <1>10, <2>1 DEF Meant
<1>11. ASSUME NEW word, NEW default
       PROVE  Get(word, default) = IF Lines(word) = {} THEN default ELSE Meant(word)
  BY <1>9, <1>10 DEF Get
<1>12. \A word : Get(word, None) = Meant(word)
  BY <1>10, <1>11
<1> QED
  BY <1>8, <1>9, <1>10, <1>11, <1>12

(* What is meant is told by the file.                                      *)
LEMMA MeaningStays ==
  ASSUME file' = file
  PROVE  (\A word : Meant(word)' = Meant(word)) /\ Networks' = Networks
<1>1. \A word : Lines(word)' = Lines(word)
  BY DEF Lines, Active
<1>2. \A word : Meant(word)' = Meant(word)
  BY <1>1 DEF Meant
<1> QED
  BY <1>2 DEF Networks

(* The client is made from what is meant.                                  *)
LEMMA MakeClientKeeps ==
  ASSUME SettingsGiven, ConfigInv, NEW wallet, MakeClient(wallet)
  PROVE  ConfigInv'
<1> DEFINE port == Meant("rpcport")
           name == IF wallet \in {None, <<>>} THEN Meant("rpcwallet") ELSE wallet
<1>1. rest = <<>> /\ file' = file /\ rest' = rest /\ conf' = conf
  BY DEF MakeClient
<1>2. \A word : Get(word, None) = Meant(word)
  BY <1>1, AllRead
<1>3. \/ port # None /\ ~IsNumber(port) /\ client' = [state |-> "ValueError"]
      \/ /\ ~(port # None /\ ~IsNumber(port))
         /\ client'.state = "made" /\ client'.user = Meant("rpcuser")
         /\ client'.password = Meant("rpcpassword")
         /\ client'.port = IF port = None THEN DefaultPort
                           ELSE Numerals[Stripped(port)[1]]
         /\ client'.wallet = IF name = <<>> THEN None ELSE name
         /\ client'.argument = wallet
         /\ client'.host = Get("rpcconnect", <<"127.0.0.1">>)
  BY <1>2 DEF MakeClient
<1>4. \A word : Meant(word)' = Meant(word)
  BY <1>1, MeaningStays
<1>5. Networks' = Networks
  BY <1>1, MeaningStays
<1>6. DefaultPort \in IF Networks = {} THEN {8332}
                             ELSE {PortOf[n] : n \in Networks}
  <2> DEFINE On(n) == \/ Meant(n) \in {<<"1">>, <<"true">>}
                     \/ Meant("chain") \in ByChain(n)
  <2>1. \A flag, chains : Selected(flag, chains) <=>
          Meant(flag) \in {<<"1">>, <<"true">>} \/ Meant("chain") \in chains
    BY <1>2 DEF Selected
  <2>2. /\ ByChain("regtest") = {<<"regtest">>} /\ ByChain("signet") = {<<"signet">>}
        /\ ByChain("testnet") = {<<"test">>, <<"testnet3">>, <<"testnet4">>}
    BY DEF ByChain
  <2>3. DefaultPort = IF On("regtest") THEN 18443 ELSE IF On("testnet") THEN 18332
                             ELSE IF On("signet") THEN 38332 ELSE 8332
    BY <2>1, <2>2 DEF DefaultPort
  <2>4. Networks = {n \in {"testnet", "signet", "regtest"} : On(n)}
    BY DEF Networks
  <2> HIDE DEF On
  <2>5. /\ PortOf["testnet"] = 18332 /\ PortOf["signet"] = 38332
        /\ PortOf["regtest"] = 18443
    BY DEF PortOf
  <2> QED
    BY <2>3, <2>4, <2>5
<1>7. Get("rpcconnect", <<"127.0.0.1">>)
         = IF Meant("rpcconnect") = None THEN <<"127.0.0.1">> ELSE Meant("rpcconnect")
  BY <1>1, AllRead
<1>8. EndpointAsMeant'
  <2>1. CASE port # None /\ ~IsNumber(port) /\ client' = [state |-> "ValueError"]
    <3>1. client'.state = "ValueError"
      BY <2>1
    <3> QED
      BY <1>4, <2>1, <3>1 DEF EndpointAsMeant, IsNumber
  <2>2. CASE client'.state = "made"
    <3>1. port # None => IsNumber(port) /\ client'.port = Numerals[Stripped(port)[1]]
      BY <1>3, <2>2
    <3>2. port = None => client'.port \in IF Networks = {} THEN {8332}
                                               ELSE {PortOf[n] : n \in Networks}
      BY <1>3, <1>6, <2>2
    <3>3. /\ client'.wallet \in {client'.argument, Meant("rpcwallet"), None}
          /\ client'.argument \notin {None, <<>>} => client'.wallet = client'.argument
          /\ client'.wallet = None => Meant("rpcwallet") \in {None, <<>>}
          /\ client'.wallet # <<>>
          /\ client'.user = Meant("rpcuser") /\ client'.password = Meant("rpcpassword")
          /\ client'.host = IF Meant("rpcconnect") = None THEN <<"127.0.0.1">>
                            ELSE Meant("rpcconnect")
      <4>1. None # <<>>
        BY DEF None
      <4> QED
        BY <1>3, <1>7, <2>2, <4>1
    <3> QED
      BY <1>4, <1>5, <2>2, <3>1, <3>2, <3>3 DEF EndpointAsMeant, PortOf, IsNumber
  <2> QED
    BY <1>3, <2>1, <2>2
<1>9. ReadSoFar(Len(file) - Len(rest))'
  <2>1. ReadSoFar(Len(file) - Len(rest))
    BY DEF ConfigInv
  <2> QED
    BY <1>1, <2>1 DEF ReadSoFar, LastSet, Sets, Active
<1>10. client'.state \in {"ValueError", "made"}
  BY <1>3
<1> QED
  BY <1>1, <1>8, <1>9, <1>10 DEF ConfigInv

(* Every setting arrives as written, and the client is made from what is   *)
(* meant, for any files, lines of any length, wallets and numerals.        *)
THEOREM SettingsArrive ==
  ASSUME SettingsGiven
  PROVE  ConfigSpec => []ClientAsMeant
<1>1. ConfigInv /\ [ConfigNext]_(configVars) => ConfigInv'
  <2> SUFFICES ASSUME ConfigInv, [ConfigNext]_(configVars) PROVE ConfigInv'
    OBVIOUS
  <2>1. CASE UNCHANGED configVars
    <3>1. file' = file /\ rest' = rest /\ conf' = conf /\ client' = client
      BY <2>1 DEF configVars
    <3>2. (\A word : Meant(word)' = Meant(word)) /\ Networks' = Networks
      BY <3>1, MeaningStays
    <3>3. EndpointAsMeant'
      <4>1. EndpointAsMeant
        BY DEF ConfigInv
      <4>2. CASE client.state = "made"
        <5> DEFINE port  == Meant("rpcport")
                   ports == IF Networks = {} THEN {8332} ELSE {PortOf[n] : n \in Networks}
        <5>1. /\ IF port # None
                 THEN IsNumber(port) /\ client.port = Numerals[Stripped(port)[1]]
                 ELSE client.port \in ports
              /\ client.wallet \in {client.argument, Meant("rpcwallet"), None}
              /\ client.argument \notin {None, <<>>} => client.wallet = client.argument
              /\ client.wallet = None => Meant("rpcwallet") \in {None, <<>>}
              /\ client.wallet # <<>>
              /\ client.user = Meant("rpcuser") /\ client.password = Meant("rpcpassword")
              /\ client.host = IF Meant("rpcconnect") = None THEN <<"127.0.0.1">>
                               ELSE Meant("rpcconnect")
          BY <4>1, <4>2 DEF EndpointAsMeant
        <5> QED
          BY <3>1, <3>2, <4>2, <5>1 DEF EndpointAsMeant, PortOf, IsNumber
      <4>3. CASE client.state = "ValueError"
        BY <3>1, <3>2, <4>1, <4>3 DEF EndpointAsMeant, IsNumber
      <4>4. CASE client.state = "none"
        BY <3>1, <4>4 DEF EndpointAsMeant
      <4> QED
        BY <4>1, <4>2, <4>3, <4>4 DEF ConfigInv
    <3>4. ReadSoFar(Len(file) - Len(rest))'
      BY <3>1 DEF ConfigInv, ReadSoFar, LastSet, Sets, Active
    <3> QED
      BY <3>1, <3>3, <3>4 DEF ConfigInv
  <2> QED
    BY <2>1, ReadLineKeeps, MakeClientKeeps DEF ConfigNext
<1>2. ConfigInv => ClientAsMeant
  <2> SUFFICES ASSUME ConfigInv PROVE ClientAsMeant
    OBVIOUS
  <2>1. EndpointAsMeant
    BY DEF ConfigInv
  <2>2. ASSUME rest = <<>> PROVE SettingsAsWritten
    BY <2>2, AllRead DEF SettingsAsWritten
  <2>3. rest # <<>> => SettingsAsWritten
    BY DEF SettingsAsWritten
  <2> QED
    BY <2>1, <2>2, <2>3 DEF ClientAsMeant
<1>3. ConfigInit => ConfigInv
  BY InitConfig
<1> QED
  BY <1>1, <1>2, <1>3, PTL DEF ConfigSpec
-----------------------------------------------------------------------------
(* One notation for two parsers.                                           *)

(* How many positions there are up to one of them.                         *)
Rank(places, i) == Cardinality({j \in places : j <= i})

(* Later positions have higher ranks.                                      *)
LEMMA RankGrows ==
  ASSUME NEW X, X \subseteq Nat, IsFiniteSet(X)
  PROVE  /\ Cardinality(X) \in Nat
         /\ \A i \in X : Rank(X, i) \in 1 .. Cardinality(X)
         /\ \A i, j \in X : i < j => Rank(X, i) < Rank(X, j)
<1> DEFINE Upto(i) == {j \in X : j <= i}
<1>1. Cardinality(X) \in Nat
  BY FS_CardinalityType
<1>2. ASSUME NEW i PROVE IsFiniteSet(Upto(i)) /\ Rank(X, i) = Cardinality(Upto(i)) /\ Rank(X, i) \in Nat
                         /\ Rank(X, i) <= Cardinality(X)
  <2>1. Upto(i) \in SUBSET X
    OBVIOUS
  <2>2. IsFiniteSet(Upto(i)) /\ Cardinality(Upto(i)) <= Cardinality(X)
    <3> HIDE DEF Upto
    <3> QED
      BY <2>1, FS_Subset
  <2>3. Cardinality(Upto(i)) \in Nat
    <3> HIDE DEF Upto
    <3> QED
      BY <2>2, FS_CardinalityType
  <2> QED
    BY <2>2, <2>3 DEF Rank
<1>3. ASSUME NEW i \in X PROVE Rank(X, i) # 0
  <2>1. i \in Upto(i)
    BY <1>3
  <2> HIDE DEF Upto
  <2> QED
    BY <1>2, <2>1, FS_EmptySet
<1>4. ASSUME NEW i \in X, NEW j \in X, i < j PROVE Rank(X, i) < Rank(X, j)
  <2>1. Upto(i) \in SUBSET Upto(j) /\ j \in Upto(j) /\ j \notin Upto(i)
    <3>1. \A k \in X : k \in Nat
      OBVIOUS
    <3>2. i \in Nat /\ j \in Nat /\ i < j
      BY <1>4, <3>1
    <3>3. ASSUME NEW k \in X, k <= i PROVE k <= j
      BY <3>1, <3>2, <3>3
    <3>4. j \in Upto(j) /\ j \notin Upto(i)
      BY <3>2
    <3>5. ASSUME NEW k \in Upto(i) PROVE k \in Upto(j)
      BY <3>3
    <3> QED
      BY <3>4, <3>5
  <2>2. Cardinality(Upto(i)) <= Cardinality(Upto(j)) /\ Cardinality(Upto(j)) # Cardinality(Upto(i))
    <3>1. IsFiniteSet(Upto(j))
      BY <1>2
    <3> HIDE DEF Upto
    <3> QED
      BY <2>1, <3>1, FS_Subset
  <2>3. Rank(X, i) = Cardinality(Upto(i)) /\ Rank(X, j) = Cardinality(Upto(j))
        /\ Rank(X, i) \in Nat /\ Rank(X, j) \in Nat
    BY <1>2
  <2> HIDE DEF Upto
  <2> QED
    BY <2>2, <2>3
<1>5. \A i \in X : Rank(X, i) \in 1 .. Cardinality(X)
  <2> TAKE i \in X
  <2>1. Rank(X, i) \in Nat /\ Rank(X, i) <= Cardinality(X) /\ Rank(X, i) # 0
    BY <1>2, <1>3
  <2> QED
    BY <1>1, <2>1
<1> QED
  BY <1>1, <1>4, <1>5

(* There is exactly one position of each rank.                             *)
LEMMA NthRanks ==
  ASSUME NEW X, X \subseteq Nat, IsFiniteSet(X), NEW k \in 1 .. Cardinality(X)
  PROVE  /\ Nth(X, k) \in X /\ Rank(X, Nth(X, k)) = k
         /\ \A i \in X : Rank(X, i) = k => Nth(X, k) = i
<1> DEFINE n == Cardinality(X)
           f == [i \in X |-> Rank(X, i)]
<1>1. n \in Nat /\ (\A i \in X : Rank(X, i) \in 1 .. n)
      /\ \A i, j \in X : i < j => Rank(X, i) < Rank(X, j)
  BY RankGrows
<1>2. f \in Injection(X, 1 .. n)
  <2>1. \A i, j \in X : Rank(X, i) = Rank(X, j) => i = j
    <3> SUFFICES ASSUME NEW i \in X, NEW j \in X, Rank(X, i) = Rank(X, j), i # j PROVE FALSE
      OBVIOUS
    <3>1. i \in Nat /\ j \in Nat
      OBVIOUS
    <3>2. i < j \/ j < i
      BY <3>1
    <3>3. Rank(X, i) \in Nat /\ Rank(X, j) \in Nat
      BY <1>1
    <3> QED
      BY <1>1, <3>2, <3>3
  <2>2. f \in [X -> 1 .. n] /\ \A i, j \in X : f[i] = f[j] => i = j
    BY <1>1, <2>1
  <2> HIDE DEF f
  <2> QED
    BY <2>2, Fun_IsInj
<1>3. IsFiniteSet(1 .. n) /\ Cardinality(1 .. n) = n
  <2>1. n \in Int /\ n >= 0
    BY <1>1
  <2> HIDE DEF n
  <2>2. IsFiniteSet(1 .. n) /\ Cardinality(1 .. n) = IF 1 > n THEN 0 ELSE n - 1 + 1
    BY <2>1, FS_Interval
  <2> QED
    BY <2>1, <2>2
<1>4. f \in Surjection(X, 1 .. n)
  <2> HIDE DEF f
  <2> QED
    BY <1>2, <1>3, FS_Injection
<1>5. PICK i \in X : Rank(X, i) = k
  <2>1. \A t \in 1 .. n : \E s \in X : f[s] = t
    <3> HIDE DEF f
    <3> QED
      BY <1>4 DEF Surjection
  <2> QED
    BY <2>1
<1>6. Nth(X, k) \in X /\ Rank(X, Nth(X, k)) = k
  BY <1>5 DEF Nth, Rank
<1>7. ASSUME NEW j \in X, Rank(X, j) = k PROVE Nth(X, k) = j
  <2>1. Nth(X, k) \in Nat /\ j \in Nat
    BY <1>6
  <2> DEFINE h == Nth(X, k)
  <2>2. h \in X /\ Rank(X, h) = Rank(X, j) /\ Rank(X, h) \in Nat
    BY <1>1, <1>6, <1>7
  <2> HIDE DEF h
  <2>3. (h < j => Rank(X, h) < Rank(X, j)) /\ (j < h => Rank(X, j) < Rank(X, h))
    BY <1>1, <2>2
  <2>4. ~(h < j) /\ ~(j < h)
    BY <2>2, <2>3
  <2> QED
    BY <2>1, <2>4 DEF h
<1> QED
  BY <1>6, <1>7

(* A slash in front and the others moved on by as much.                    *)
Moved(places, c) == {c} \cup {i + c : i \in places}

(* It counts for one.                                                      *)
LEMMA MovedCounts ==
  ASSUME NEW W, W \subseteq Nat \ {0}, IsFiniteSet(W), NEW c \in Nat
  PROVE  IsFiniteSet(Moved(W, c)) /\ Cardinality(Moved(W, c)) = Cardinality(W) + 1
<1> DEFINE V == {i + c : i \in W}
           f == [i \in W |-> i + c]
<1>1. \A i \in W : i \in Nat /\ i # 0
  OBVIOUS
<1>2. f \in Bijection(W, V)
  <2>1. f \in [W -> V] /\ (\A i, j \in W : f[i] = f[j] => i = j) /\ \A v \in V : \E i \in W : f[i] = v
    BY <1>1
  <2> HIDE DEF f, V
  <2> QED
    BY <2>1, Fun_IsBij
<1>3. c \notin V /\ Moved(W, c) = V \cup {c}
  BY <1>1 DEF Moved
<1> HIDE DEF f, V
<1>4. IsFiniteSet(V) /\ Cardinality(V) = Cardinality(W)
  <2>1. ExistsBijection(W, V)
    BY <1>2 DEF ExistsBijection
  <2> QED
    BY <2>1, FS_Bijection
<1> QED
  BY <1>3, <1>4, FS_AddElement

(* The first of them is the one in front, the others follow as before.     *)
LEMMA MovedNth ==
  ASSUME NEW X, X \subseteq Nat \ {0}, IsFiniteSet(X), NEW c \in Nat
  PROVE  /\ IsFiniteSet(Moved(X, c)) /\ Cardinality(Moved(X, c)) = Cardinality(X) + 1
         /\ Nth(Moved(X, c), 1) = c
         /\ \A k \in 1 .. Cardinality(X) : Nth(Moved(X, c), k + 1) = Nth(X, k) + c
<1> DEFINE Y == Moved(X, c)
<1>1. IsFiniteSet(Y) /\ Cardinality(Y) = Cardinality(X) + 1 /\ Cardinality(X) \in Nat
  BY MovedCounts, FS_CardinalityType
<1>2. Y \subseteq Nat /\ c \in Y /\ (\A i \in X : i + c \in Y) /\ \A i \in X : i \in Nat /\ i # 0
  BY DEF Moved
<1>3. Rank(Y, c) = 1
  <2>1. {j \in Y : j <= c} = {c}
    BY <1>2 DEF Moved
  <2>2. Cardinality({c}) = 1
    BY FS_Singleton
  <2> QED
    BY <2>1, <2>2 DEF Rank
<1>4. ASSUME NEW i \in X PROVE Rank(Y, i + c) = Rank(X, i) + 1
  <2> DEFINE W == {j \in X : j <= i}
  <2>1. i \in Nat
    BY <1>2
  <2>2. {j \in Y : j <= i + c} = Moved(W, c)
    <3>1. ASSUME NEW j \in X PROVE j + c <= i + c <=> j <= i
      BY <1>2, <2>1
    <3>2. c <= i + c
      BY <2>1
    <3> QED
      BY <3>1, <3>2 DEF Moved
  <2>3. W \in SUBSET X
    OBVIOUS
  <2>4. Rank(X, i) = Cardinality(W)
    BY DEF Rank
  <2> HIDE DEF W
  <2>5. IsFiniteSet(W) /\ W \subseteq Nat \ {0}
    BY <2>3, FS_Subset
  <2>6. Cardinality(Moved(W, c)) = Cardinality(W) + 1
    BY <2>5, MovedCounts
  <2> QED
    BY <2>2, <2>4, <2>6 DEF Rank
<1>5. Nth(Y, 1) = c
  <2>1. 1 \in 1 .. Cardinality(Y)
    BY <1>1
  <2> HIDE DEF Y
  <2> QED
    BY <1>1, <1>2, <1>3, <2>1, NthRanks
<1>6. ASSUME NEW k \in 1 .. Cardinality(X) PROVE Nth(Y, k + 1) = Nth(X, k) + c
  <2> DEFINE i == Nth(X, k)
  <2>1. i \in X /\ Rank(X, i) = k
    BY NthRanks
  <2>2. k + 1 \in 1 .. Cardinality(Y)
    BY <1>1
  <2> HIDE DEF i
  <2>3. i + c \in Y /\ Rank(Y, i + c) = k + 1
    BY <1>2, <1>4, <2>1
  <2> HIDE DEF Y
  <2> QED
    BY <1>1, <1>2, <2>2, <2>3, NthRanks DEF i
<1> QED
  BY <1>1, <1>5, <1>6

(* Where the k-th part of a split text begins and ends.                    *)
PartStart(t, k) == IF k = 1 THEN 1 ELSE Nth(Slashes(t), k - 1) + 1
PartEnd(t, k)   == IF k = Cardinality(Slashes(t)) + 1 THEN Len(t) ELSE Nth(Slashes(t), k) - 1

(* The slashes are some of the positions.                                  *)
LEMMA SlashesFinite ==
  ASSUME NEW S, NEW t \in Seq(S)
  PROVE  /\ Slashes(t) \subseteq 1 .. Len(t) /\ Slashes(t) \subseteq Nat \ {0}
         /\ IsFiniteSet(Slashes(t)) /\ Cardinality(Slashes(t)) \in Nat
<1>1. DOMAIN t = 1 .. Len(t) /\ Len(t) \in Nat
  OBVIOUS
<1>2. Slashes(t) \subseteq 1 .. Len(t)
  BY <1>1 DEF Slashes
<1>3. IsFiniteSet(1 .. Len(t))
  BY <1>1, FS_Interval
<1> QED
  BY <1>1, <1>2, <1>3, FS_Subset, FS_CardinalityType

(* The parts of a split text.                                              *)
LEMMA PartIs ==
  ASSUME NEW S, NEW t \in Seq(S)
  PROVE  /\ Split(t) \in Seq(Seq(S)) /\ Len(Split(t)) = Cardinality(Slashes(t)) + 1
         /\ Len(Split(t)) \in Nat /\ Len(Split(t)) >= 1
         /\ \A k \in 1 .. Len(Split(t)) :
              /\ Split(t)[k] = SubSeq(t, PartStart(t, k), PartEnd(t, k))
              /\ PartStart(t, k) \in Nat /\ PartEnd(t, k) \in Nat
              /\ 1 <= PartStart(t, k) /\ PartEnd(t, k) <= Len(t)
              /\ PartStart(t, k) <= PartEnd(t, k) + 1
              /\ Len(Split(t)[k]) = PartEnd(t, k) - PartStart(t, k) + 1
<1> DEFINE X == Slashes(t)
           n == Cardinality(X)
<1>1. X \subseteq 1 .. Len(t) /\ X \subseteq Nat \ {0} /\ IsFiniteSet(X) /\ n \in Nat
      /\ X \subseteq Nat /\ Len(t) \in Nat
  BY SlashesFinite
<1>2. ASSUME NEW k \in 1 .. n PROVE Nth(X, k) \in X /\ Nth(X, k) \in 1 .. Len(t) /\ Rank(X, Nth(X, k)) = k
  <2> HIDE DEF X
  <2> QED
    BY <1>1, NthRanks
<1>3. ASSUME NEW k \in 1 .. n, k # 1 PROVE Nth(X, k - 1) < Nth(X, k)
  <2>1. k - 1 \in 1 .. n
    BY <1>1, <1>3
  <2> DEFINE i == Nth(X, k - 1)
             j == Nth(X, k)
  <2>2. i \in X /\ j \in X /\ Rank(X, i) = k - 1 /\ Rank(X, j) = k /\ i \in Nat /\ j \in Nat
    BY <1>1, <1>2, <2>1
  <2> HIDE DEF i, j, X
  <2>3. j < i => Rank(X, j) < Rank(X, i)
    BY <1>1, <2>2, RankGrows
  <2>4. k - 1 < k /\ ~(k < k - 1) /\ k - 1 # k
    BY <1>1
  <2> QED
    BY <2>2, <2>3, <2>4 DEF i, j
<1>4. ASSUME NEW k \in 1 .. n + 1
      PROVE  /\ PartStart(t, k) \in Nat /\ PartEnd(t, k) \in Nat
             /\ 1 <= PartStart(t, k) /\ PartEnd(t, k) <= Len(t)
             /\ PartStart(t, k) <= PartEnd(t, k) + 1
  <2>1. k = 1 \/ (k # 1 /\ k - 1 \in 1 .. n)
    BY <1>1
  <2>2. k = n + 1 \/ (k # n + 1 /\ k \in 1 .. n)
    BY <1>1
  <2>3. PartStart(t, k) = IF k = 1 THEN 1 ELSE Nth(X, k - 1) + 1
    BY DEF PartStart
  <2>4. PartEnd(t, k) = IF k = n + 1 THEN Len(t) ELSE Nth(X, k) - 1
    BY DEF PartEnd
  <2>5. k # 1 => Nth(X, k - 1) \in 1 .. Len(t)
    BY <1>2, <2>1
  <2>6. k # n + 1 => Nth(X, k) \in 1 .. Len(t)
    BY <1>2, <2>2
  <2>7. k # 1 /\ k # n + 1 => Nth(X, k - 1) < Nth(X, k)
    BY <1>3, <2>2
  <2> HIDE DEF X, n
  <2> QED
    BY <1>1, <2>3, <2>4, <2>5, <2>6, <2>7
<1>5. Split(t) = [k \in 1 .. n + 1 |-> SubSeq(t, PartStart(t, k), PartEnd(t, k))]
  BY DEF Split, PartStart, PartEnd
<1>6. ASSUME NEW k \in 1 .. n + 1
      PROVE  /\ SubSeq(t, PartStart(t, k), PartEnd(t, k)) \in Seq(S)
             /\ Len(SubSeq(t, PartStart(t, k), PartEnd(t, k))) = PartEnd(t, k) - PartStart(t, k) + 1
  BY <1>4, Stretch
<1>7. Split(t) \in [1 .. n + 1 -> Seq(S)]
  BY <1>5, <1>6
<1>8. n + 1 \in Nat /\ n + 1 >= 1
  BY <1>1
<1> HIDE DEF n
<1>9. Split(t) \in Seq(Seq(S)) /\ Len(Split(t)) = n + 1
  BY <1>7, <1>8
<1>10. \A k \in 1 .. n + 1 : Split(t)[k] = SubSeq(t, PartStart(t, k), PartEnd(t, k))
  BY <1>5
<1> QED
  BY <1>4, <1>6, <1>8, <1>9, <1>10 DEF n

(* The text begins with its first part and ends with its last one.         *)
LEMMA PartsAtEnds ==
  ASSUME NEW S, NEW t \in Seq(S)
  PROVE  LET first == Split(t)[1]
             last  == Split(t)[Len(Split(t))]
         IN  /\ first # <<>> => t # <<>> /\ t[1] = first[1]
             /\ last # <<>> => t # <<>> /\ t[Len(t)] = Last(last)
<1> DEFINE n == Len(Split(t))
<1>1. /\ n = Cardinality(Slashes(t)) + 1 /\ n \in Nat /\ n >= 1 /\ Len(t) \in Nat
      /\ Split(t) \in Seq(Seq(S))
  BY PartIs
<1>2. ASSUME NEW k \in 1 .. n
      PROVE  LET a == PartStart(t, k)
                 b == PartEnd(t, k)
             IN  /\ a \in Nat /\ b \in Nat /\ 1 <= a /\ b <= Len(t) /\ a <= b + 1
                 /\ Split(t)[k] \in Seq(S) /\ Len(Split(t)[k]) = b - a + 1
                 /\ \A i \in 1 .. b - a + 1 : Split(t)[k][i] = t[a + i - 1]
  <2> DEFINE a == PartStart(t, k)
             b == PartEnd(t, k)
  <2>1. Split(t)[k] = SubSeq(t, a, b) /\ a \in Nat /\ b \in Nat /\ 1 <= a /\ b <= Len(t) /\ a <= b + 1
    BY PartIs
  <2> HIDE DEF a, b
  <2>2. /\ SubSeq(t, a, b) \in Seq(S) /\ Len(SubSeq(t, a, b)) = b - a + 1
        /\ \A i \in 1 .. b - a + 1 : SubSeq(t, a, b)[i] = t[a + i - 1]
    BY <2>1, Stretch
  <2> QED
    BY <2>1, <2>2 DEF a, b
<1>3. ASSUME Split(t)[1] # <<>> PROVE t # <<>> /\ t[1] = Split(t)[1][1]
  <2> DEFINE part == Split(t)[1]
             b == PartEnd(t, 1)
  <2>1. PartStart(t, 1) = 1
    BY DEF PartStart
  <2>2. /\ b \in Nat /\ b <= Len(t) /\ part \in Seq(S) /\ Len(part) = b
        /\ \A i \in 1 .. b : part[i] = t[i]
    <3>1. 1 \in 1 .. n
      BY <1>1
    <3>2. /\ b \in Nat /\ b <= Len(t) /\ part \in Seq(S) /\ Len(part) = b - 1 + 1
          /\ \A i \in 1 .. b - 1 + 1 : part[i] = t[1 + i - 1]
      BY <1>2, <2>1, <3>1
    <3> HIDE DEF part, b
    <3> QED
      BY <3>2
  <2>3. part # <<>>
    BY <1>3
  <2> HIDE DEF part, b
  <2>4. b >= 1
    BY <2>2, <2>3
  <2> QED
    BY <1>1, <2>2, <2>4 DEF part
<1>4. ASSUME Split(t)[n] # <<>> PROVE t # <<>> /\ t[Len(t)] = Last(Split(t)[n])
  <2> DEFINE part == Split(t)[n]
             a == PartStart(t, n)
             l == Len(t)
  <2>1. PartEnd(t, n) = l
    BY <1>1 DEF PartEnd
  <2>2. /\ a \in Nat /\ 1 <= a /\ a <= l + 1 /\ part \in Seq(S) /\ Len(part) = l - a + 1
        /\ \A i \in 1 .. l - a + 1 : part[i] = t[a + i - 1]
    <3>1. n \in 1 .. n
      BY <1>1
    <3> HIDE DEF n
    <3> QED
      BY <1>2, <2>1, <3>1
  <2>3. part # <<>>
    BY <1>4
  <2> HIDE DEF part, a
  <2>4. l - a + 1 \in 1 .. l - a + 1 /\ a + (l - a + 1) - 1 = l /\ l >= 1
    BY <1>1, <2>2, <2>3
  <2>5. part[Len(part)] = t[l]
    BY <2>2, <2>4
  <2> QED
    BY <1>1, <2>4, <2>5 DEF part, Last
<1> QED
  BY <1>3, <1>4

(* A text without a slash is its only part.                                *)
LEMMA LoneMarker ==
  Split(<<"m">>) = <<<<"m">>>>
<1> DEFINE t == <<"m">>
<1>1. t \in Seq({"m"}) /\ Len(t) = 1 /\ t[1] = "m" /\ DOMAIN t = {1}
  OBVIOUS
<1>2. Slashes(t) = {}
  BY <1>1 DEF Slashes
<1> HIDE DEF t
<1>3. Cardinality(Slashes(t)) = 0
  BY <1>2, FS_EmptySet
<1>4. Split(t) \in Seq(Seq({"m"})) /\ Len(Split(t)) = 1
      /\ Split(t)[1] = SubSeq(t, PartStart(t, 1), PartEnd(t, 1))
  <2>1. Len(Split(t)) = 1 /\ Split(t) \in Seq(Seq({"m"}))
    BY <1>1, <1>3, PartIs
  <2>2. 1 \in 1 .. Len(Split(t))
    BY <2>1
  <2> QED
    BY <1>1, <2>1, <2>2, PartIs
<1>5. PartStart(t, 1) = 1 /\ PartEnd(t, 1) = 1
  BY <1>1, <1>3 DEF PartStart, PartEnd
<1>6. SubSeq(t, 1, 1) = t
  BY <1>1
<1>7. Split(t) = <<t>>
  BY <1>4, <1>5, <1>6
<1> QED
  BY <1>7 DEF t

(* A marker and a slash in front are a part more; the others stay.         *)
LEMMA MarkerSplit ==
  ASSUME NEW S, NEW t \in Seq(S), Len(t) >= 2, t[1] = "m", t[2] = "/"
  PROVE  LET u == SubSeq(t, 3, Len(t))
         IN  /\ u \in Seq(S)
             /\ Len(Split(t)) = Len(Split(u)) + 1
             /\ Split(t)[1] = <<"m">>
             /\ \A k \in 1 .. Len(Split(u)) : Split(t)[k + 1] = Split(u)[k]
<1> DEFINE u == SubSeq(t, 3, Len(t))
           l == Len(t)
<1>1. l \in Nat /\ l >= 2 /\ u \in Seq(S) /\ Len(u) = l - 2 /\ DOMAIN t = 1 .. l /\ DOMAIN u = 1 .. l - 2
      /\ \A i \in 1 .. l - 2 : u[i] = t[i + 2]
  <2>1. l \in Nat /\ l >= 2 /\ 3 <= l + 1
    OBVIOUS
  <2>2. /\ u \in Seq(S) /\ Len(u) = l - 3 + 1
        /\ \A i \in 1 .. l - 3 + 1 : u[i] = t[3 + i - 1]
    <3> HIDE DEF l
    <3>1. l = Len(t) /\ 3 \in Nat /\ 1 <= 3
      BY DEF l
    <3> QED
      BY <2>1, <3>1, Stretch
  <2> HIDE DEF u
  <2> QED
    BY <2>1, <2>2
<1> DEFINE X == Slashes(u)
           Y == Slashes(t)
           n == Cardinality(X)
<1>2. X \subseteq Nat \ {0} /\ X \subseteq 1 .. l - 2 /\ IsFiniteSet(X) /\ n \in Nat
  BY <1>1, SlashesFinite
<1>3. Y = Moved(X, 2)
  <2>1. ASSUME NEW i \in X PROVE i + 2 \in Y
    <3>1. i \in 1 .. l - 2 /\ u[i] = "/"
      BY <1>1 DEF Slashes
    <3>2. i + 2 \in 1 .. l /\ t[i + 2] = "/"
      BY <1>1, <3>1
    <3> DEFINE j == i + 2
    <3>3. j \in DOMAIN t /\ t[j] = "/"
      BY <1>1, <3>2
    <3> HIDE DEF j
    <3>4. j \in Slashes(t)
      BY <3>3 DEF Slashes
    <3> QED
      BY <3>4 DEF j
  <2>2. 2 \in Y
    <3>1. 2 \in 1 .. l
      BY <1>1
    <3> QED
      BY <1>1, <3>1 DEF Slashes
  <2>3. ASSUME NEW j \in Y, j # 2 PROVE j - 2 \in X /\ j = (j - 2) + 2
    <3>1. j \in 1 .. l /\ t[j] = "/" /\ j # 1
      BY <1>1 DEF Slashes
    <3>2. j - 2 \in 1 .. l - 2 /\ (j - 2) + 2 = j
      BY <1>1, <2>3, <3>1
    <3> QED
      BY <1>1, <3>1, <3>2 DEF Slashes
  <2> HIDE DEF X, Y
  <2> QED
    BY <2>1, <2>2, <2>3 DEF Moved
<1>4. Cardinality(Y) = n + 1 /\ Nth(Y, 1) = 2 /\ \A k \in 1 .. n : Nth(Y, k + 1) = Nth(X, k) + 2
  <2> HIDE DEF X, Y, u
  <2> QED
    BY <1>2, <1>3, MovedNth DEF n
<1>5. Len(Split(u)) = n + 1 /\ Len(Split(t)) = n + 2
  <2>1. Len(Split(u)) = n + 1
    BY <1>1, PartIs
  <2>2. Len(Split(t)) = Cardinality(Y) + 1
    BY PartIs
  <2> QED
    BY <1>2, <1>4, <2>1, <2>2
<1>6. Split(t)[1] = <<"m">>
  <2>1. PartStart(t, 1) = 1 /\ PartEnd(t, 1) = 1
    BY <1>2, <1>4 DEF PartStart, PartEnd
  <2>2. Split(t)[1] = SubSeq(t, 1, 1)
    <3>1. 1 \in 1 .. Len(Split(t))
      BY <1>2, <1>5
    <3> QED
      BY <2>1, <3>1, PartIs
  <2>3. SubSeq(t, 1, 1) = <<t[1]>>
    <3>1. SubSeq(t, 1, 1) \in Seq(S) /\ Len(SubSeq(t, 1, 1)) = 1 /\ SubSeq(t, 1, 1)[1] = t[1]
      <4>1. 1 - 1 + 1 = 1 /\ 1 \in 1 .. 1 /\ 1 <= Len(t) /\ 1 + 1 - 1 = 1
        BY <1>1
      <4> DEFINE s == SubSeq(t, 1, 1)
      <4>2. 1 \in Nat /\ 1 <= 1 /\ 1 <= 1 + 1 /\ 1 <= Len(t)
        BY <1>1
      <4>3. s \in Seq(S) /\ Len(s) = 1 - 1 + 1 /\ \A i \in 1 .. 1 - 1 + 1 : s[i] = t[1 + i - 1]
        BY <4>2, Stretch
      <4> HIDE DEF s
      <4>4. 1 \in 1 .. 1 - 1 + 1
        OBVIOUS
      <4>5. s[1] = t[1] /\ Len(s) = 1 /\ s \in Seq(S)
        BY <4>1, <4>3, <4>4
      <4> QED
        BY <4>5 DEF s
    <3>2. ASSUME NEW s, s \in Seq(S), Len(s) = 1, s[1] = t[1] PROVE s = <<t[1]>>
      BY <3>2
    <3> QED
      BY <3>1, <3>2
  <2> QED
    BY <2>2, <2>3
<1>7. ASSUME NEW k \in 1 .. n + 1 PROVE Split(t)[k + 1] = Split(u)[k]
  <2> DEFINE a == PartStart(u, k)
             b == PartEnd(u, k)
  <2>1. k + 1 \in 1 .. n + 2 /\ k \in Nat /\ k + 1 # 1 /\ (k + 1) - 1 = k
    BY <1>2
  <2>2. PartStart(t, k + 1) = a + 2
    <3>1. PartStart(t, k + 1) = Nth(Y, k) + 1
      BY <2>1 DEF PartStart
    <3>2. CASE k = 1
      BY <1>4, <3>1, <3>2 DEF PartStart
    <3>3. CASE k # 1
      <4>1. k - 1 \in 1 .. n /\ (k - 1) + 1 = k
        BY <1>2, <3>3
      <4>2. Nth(Y, k) = Nth(X, k - 1) + 2 /\ Nth(X, k - 1) \in Nat
        <5>1. Nth(X, k - 1) \in X
          <6> HIDE DEF X
          <6> QED
            BY <1>2, <4>1, NthRanks
        <5> QED
          BY <1>2, <1>4, <4>1, <5>1
      <4>3. a = Nth(X, k - 1) + 1
        BY <3>3 DEF PartStart
      <4> HIDE DEF a, X, Y
      <4> QED
        BY <3>1, <4>2, <4>3
    <3> QED
      BY <3>2, <3>3
  <2>3. PartEnd(t, k + 1) = b + 2
    <3>1. CASE k = n + 1
      <4>1. k + 1 = Cardinality(Y) + 1
        BY <1>4, <3>1
      <4>2. PartEnd(t, k + 1) = l /\ b = l - 2
        BY <1>1, <3>1, <4>1 DEF PartEnd
      <4> QED
        BY <1>1, <4>2
    <3>2. CASE k # n + 1
      <4>1. k \in 1 .. n /\ k + 1 # Cardinality(Y) + 1
        BY <1>2, <1>4, <3>2
      <4>2. PartEnd(t, k + 1) = Nth(Y, k + 1) - 1 /\ b = Nth(X, k) - 1
        BY <3>2, <4>1 DEF PartEnd
      <4>3. Nth(Y, k + 1) = Nth(X, k) + 2 /\ Nth(X, k) \in Nat
        <5>1. Nth(X, k) \in X
          <6> HIDE DEF X
          <6> QED
            BY <1>2, <4>1, NthRanks
        <5> QED
          BY <1>2, <1>4, <4>1, <5>1
      <4> HIDE DEF b, X, Y
      <4> QED
        BY <4>2, <4>3
    <3> QED
      BY <3>1, <3>2
  <2>4. /\ Split(u)[k] = SubSeq(u, a, b) /\ Split(t)[k + 1] = SubSeq(t, a + 2, b + 2)
        /\ a \in Nat /\ b \in Nat /\ 1 <= a /\ b <= l - 2 /\ a <= b + 1
    <3>1. /\ Split(u)[k] = SubSeq(u, a, b)
          /\ a \in Nat /\ b \in Nat /\ 1 <= a /\ b <= Len(u) /\ a <= b + 1
      BY <1>1, <1>5, PartIs
    <3>2. Split(t)[k + 1] = SubSeq(t, a + 2, b + 2)
      <4> DEFINE j == k + 1
      <4>1. j \in 1 .. Len(Split(t))
        BY <1>5, <2>1
      <4>2. PartStart(t, j) = a + 2 /\ PartEnd(t, j) = b + 2
        BY <2>2, <2>3
      <4> HIDE DEF a, b, j
      <4>3. Split(t)[j] = SubSeq(t, PartStart(t, j), PartEnd(t, j))
        BY <4>1, PartIs
      <4>4. Split(t)[j] = SubSeq(t, a + 2, b + 2)
        BY <4>2, <4>3
      <4> QED
        BY <4>4 DEF j
    <3> QED
      BY <1>1, <3>1, <3>2
  <2> HIDE DEF a, b, u
  <2>5. SubSeq(u, a, b) = SubSeq(t, a + 2, b + 2)
    <3>1. /\ SubSeq(u, a, b) \in Seq(S) /\ Len(SubSeq(u, a, b)) = b - a + 1
          /\ \A i \in 1 .. b - a + 1 : SubSeq(u, a, b)[i] = u[a + i - 1]
      BY <1>1, <2>4, Stretch
    <3>2. a + 2 \in Nat /\ b + 2 \in Nat /\ 1 <= a + 2 /\ b + 2 <= l /\ a + 2 <= (b + 2) + 1
          /\ (b + 2) - (a + 2) + 1 = b - a + 1
      BY <1>1, <2>4
    <3>3. /\ SubSeq(t, a + 2, b + 2) \in Seq(S) /\ Len(SubSeq(t, a + 2, b + 2)) = b - a + 1
          /\ \A i \in 1 .. b - a + 1 : SubSeq(t, a + 2, b + 2)[i] = t[(a + 2) + i - 1]
      BY <3>2, Stretch DEF l
    <3>4. ASSUME NEW i \in 1 .. b - a + 1 PROVE u[a + i - 1] = t[(a + 2) + i - 1]
      <4>1. a + i - 1 \in 1 .. l - 2 /\ (a + 2) + i - 1 = (a + i - 1) + 2
        BY <1>1, <2>4
      <4> QED
        BY <1>1, <4>1
    <3> DEFINE s == SubSeq(u, a, b)
               v == SubSeq(t, a + 2, b + 2)
    <3>5. /\ s \in Seq(S) /\ v \in Seq(S) /\ Len(s) = b - a + 1 /\ Len(v) = b - a + 1
          /\ \A i \in 1 .. b - a + 1 : s[i] = v[i]
      BY <3>1, <3>3, <3>4
    <3> HIDE DEF s, v
    <3>6. s = v
      BY <3>5, SeqEqual
    <3> QED
      BY <3>6 DEF s, v
  <2> QED
    BY <2>4, <2>5
<1> QED
  BY <1>1, <1>2, <1>5, <1>6, <1>7

(* A step that KeyOrigin.parse() takes is one that derive_path() takes.    *)
Step(part) ==
  Number(part) # <<>> /\ IsInt(part) /\ Decimal(part) \in 0 .. Hardened - 1
LEMMA StepTaken ==
  ASSUME NEW S, NEW part \in Seq(S), Step(part)
  PROVE  /\ part # <<>> /\ part # <<"m">>
         /\ part[1] # "sp" /\ Last(part) # "sp"
         /\ Fault(part) = "none"
<1>1. DOMAIN DigitValue = {"0", "1", "2"}
  BY DEF DigitValue
<1>2. Number(part) # <<>> /\ (\A i \in DOMAIN Number(part) : Number(part)[i] \in {"0", "1", "2"})
      /\ Decimal(part) \in 0 .. Hardened - 1 /\ IsInt(part)
  BY <1>1 DEF Step, IsInt, AllIn
<1> DEFINE number == Number(part)
<1>3. number = Number(part)
  OBVIOUS
<1>4. \A i \in DOMAIN number : number[i] \in {"0", "1", "2"}
  BY <1>2
<1> HIDE DEF number
<1>5. part # <<>>
  <2>1. <<>> = <<>> /\ Number(<<>>) = <<>>
    BY DEF Number, Marked
  <2> QED
    BY <1>2, <2>1
<1>6. Len(part) \in Nat /\ Len(part) >= 1 /\ Last(part) = part[Len(part)]
  BY <1>5 DEF Last
<1>7. ASSUME Marked(part) PROVE part[1] # "sp" /\ Last(part) # "sp"
  <2>1. Last(part) = "h" /\ Number(part) = Front(part)
    BY <1>7 DEF Marked, Number
  <2>2. /\ Front(part) \in Seq(S) /\ Len(Front(part)) = Len(part) - 1
        /\ \A i \in 1 .. Len(part) - 1 : Front(part)[i] = part[i]
    <3> DEFINE l == Len(part)
    <3>1. 1 \in Nat /\ l - 1 \in Nat /\ 1 <= 1 /\ l - 1 <= l /\ 1 <= (l - 1) + 1 /\ (l - 1) - 1 + 1 = l - 1
      BY <1>6
    <3>2. \A i \in 1 .. l - 1 : 1 + i - 1 = i
      BY <3>1
    <3>3. /\ SubSeq(part, 1, l - 1) \in Seq(S) /\ Len(SubSeq(part, 1, l - 1)) = (l - 1) - 1 + 1
          /\ \A i \in 1 .. (l - 1) - 1 + 1 : SubSeq(part, 1, l - 1)[i] = part[1 + i - 1]
      BY <3>1, Stretch
    <3>4. Front(part) = SubSeq(part, 1, l - 1)
      BY DEF Front
    <3> QED
      BY <3>1, <3>2, <3>3, <3>4
  <2>3. Len(part) - 1 >= 1 /\ part[1] = Front(part)[1] /\ 1 \in DOMAIN Front(part)
    <3> DEFINE s == Front(part)
    <3>1. s \in Seq(S) /\ s # <<>> /\ Len(s) = Len(part) - 1
      BY <1>2, <2>1, <2>2
    <3> HIDE DEF s
    <3>2. Len(s) >= 1 /\ 1 \in DOMAIN s
      BY <3>1
    <3>3. 1 \in 1 .. Len(part) - 1
      BY <1>6, <3>1, <3>2
    <3> QED
      BY <2>2, <3>1, <3>2, <3>3 DEF s
  <2>4. part[1] \in {"0", "1", "2"}
    <3>1. number = Front(part)
      BY <1>3, <2>1
    <3>2. 1 \in DOMAIN number /\ number[1] = part[1]
      BY <2>3, <3>1
    <3> QED
      BY <1>4, <3>2
  <2> QED
    BY <2>1, <2>4
<1>8. ASSUME ~Marked(part) PROVE part[1] # "sp" /\ Last(part) # "sp"
  <2>1. Number(part) = part
    BY <1>8 DEF Number
  <2>2. 1 \in DOMAIN part /\ Len(part) \in DOMAIN part
    BY <1>6
  <2>3. part[1] \in {"0", "1", "2"} /\ part[Len(part)] \in {"0", "1", "2"}
    BY <1>3, <1>4, <2>1, <2>2
  <2> QED
    BY <1>6, <2>3
<1>9. part # <<"m">>
  <2>1. ASSUME part = <<"m">> PROVE FALSE
    <3>1. Len(part) = 1 /\ part[1] = "m"
      BY <2>1
    <3>2. Last(part) = "m"
      BY <1>6, <3>1
    <3>3. ~Marked(part)
      BY <3>2 DEF Marked
    <3>4. part[1] \in {"0", "1", "2"}
      <4>1. Number(part) = part /\ 1 \in DOMAIN part
        BY <1>6, <3>3 DEF Number
      <4> QED
        BY <1>2, <4>1
    <3> QED
      BY <3>1, <3>4
  <2> QED
    BY <2>1
<1>10. Fault(part) = "none"
  <2>1. IsDigit(part)
    BY <1>1, <1>2 DEF IsDigit, AllIn
  <2>2. ~(Decimal(part) >= Hardened)
    BY <1>2, KeyAssumption
  <2> QED
    BY <1>2, <2>1, <2>2 DEF Fault
<1> QED
  BY <1>5, <1>7, <1>8, <1>9, <1>10

(* A text without blanks at its ends is stripped of nothing.               *)
LEMMA Unstripped ==
  ASSUME NEW S, NEW t \in Seq(S), t # <<>>, t[1] # "sp", t[Len(t)] # "sp"
  PROVE  Strip(t) = t
<1> DEFINE l == Len(t)
<1>1. l \in Nat /\ l >= 1
  OBVIOUS
<1>2. Ends(t, 1, l)
  BY <1>1 DEF Ends
<1>3. Stripped(t) = SubSeq(t, 1, l)
  BY <1>2, StripTo
<1>4. SubSeq(t, 1, l) = t
  OBVIOUS
<1> QED
  BY <1>3, <1>4 DEF Strip, Stripped

(* The parts of a text after d markers are the steps of an origin.         *)
Alike(parted, steps, d) ==
  /\ d \in {0, 1} /\ Len(steps) \in Nat /\ Len(parted) = Len(steps) + d
  /\ DOMAIN parted = 1 .. Len(parted) /\ DOMAIN steps = 1 .. Len(steps)
  /\ d = 1 => parted[1] = <<"m">>
  /\ \A k \in 1 .. Len(steps) :
       parted[k + d] = steps[k] /\ steps[k] # <<>> /\ steps[k] # <<"m">> /\ Fault(steps[k]) = "none"

(* A text that KeyOrigin.parse() takes has the same steps for both.        *)
LEMMA OriginRead ==
  ASSUME NEW S, NEW t \in Seq(S), OriginParses(t)
  PROVE  \E d : Alike(Split(Strip(t)), OriginSteps(t), d)
<1> DEFINE steps == OriginSteps(t)
<1>1. ASSUME NEW k \in DOMAIN steps PROVE Step(steps[k])
  BY DEF OriginParses, Step
<1>2. CASE t = <<"m">>
  <2>1. steps = <<>> /\ Len(<<>>) = 0 /\ DOMAIN <<>> = {}
    BY <1>2 DEF OriginSteps
  <2>2. Strip(t) = t
    <3>1. t # <<>> /\ t[1] = "m" /\ Len(t) = 1 /\ "m" # "sp"
      BY <1>2
    <3> QED
      BY <3>1, Unstripped
  <2>3. Split(Strip(t)) = <<<<"m">>>>
    BY <1>2, <2>2, LoneMarker
  <2>4. ASSUME NEW none, none = <<>>, NEW one, one = <<<<"m">>>> PROVE Alike(one, none, 1)
    BY <2>4 DEF Alike
  <2> QED
    BY <2>1, <2>3, <2>4
<1>3. CASE t # <<"m">> /\ Len(t) >= 2 /\ t[1] = "m" /\ t[2] = "/"
  <2> DEFINE u == SubSeq(t, 3, Len(t))
  <2>1. steps = Split(u)
    BY <1>3 DEF OriginSteps
  <2>2. /\ u \in Seq(S) /\ Len(Split(t)) = Len(Split(u)) + 1 /\ Split(t)[1] = <<"m">>
        /\ \A k \in 1 .. Len(Split(u)) : Split(t)[k + 1] = Split(u)[k]
    BY <1>3, MarkerSplit
  <2>3. /\ Split(u) \in Seq(Seq(S)) /\ Len(Split(u)) \in Nat /\ Len(Split(u)) >= 1
        /\ Split(t) \in Seq(Seq(S)) /\ Len(Split(t)) \in Nat
    <3> HIDE DEF u
    <3> QED
      BY <2>2, PartIs
  <2>4. ASSUME NEW k \in 1 .. Len(Split(u)) PROVE Step(Split(u)[k]) /\ Split(u)[k] \in Seq(S)
    <3>1. k \in DOMAIN Split(u)
      BY <2>3
    <3> QED
      BY <1>1, <2>1, <2>3, <3>1
  <2> HIDE DEF steps
  <2>5. t[Len(t)] # "sp"
    <3> DEFINE last == Split(u)[Len(Split(u))]
    <3>1. Step(last) /\ last \in Seq(S)
      <4>1. Len(Split(u)) \in 1 .. Len(Split(u))
        BY <2>3
      <4> QED
        BY <2>4, <4>1
    <3>2. last # <<>> /\ Last(last) # "sp"
      <4> HIDE DEF last
      <4> QED
        BY <3>1, StepTaken
    <3>3. u # <<>> /\ u[Len(u)] = Last(last)
      <4> HIDE DEF u
      <4> QED
        BY <2>2, <3>2, PartsAtEnds
    <3>4. u[Len(u)] = t[Len(t)]
      <4> DEFINE l == Len(t)
      <4>1. l \in Nat /\ l >= 2 /\ 3 \in Nat /\ 1 <= 3 /\ l <= l /\ 3 <= l + 1 /\ l - 3 + 1 = l - 2
        BY <1>3
      <4>2. /\ u \in Seq(S) /\ Len(u) = l - 3 + 1
            /\ \A i \in 1 .. l - 3 + 1 : u[i] = t[3 + i - 1]
        <5> HIDE DEF l
        <5>1. l = Len(t)
          BY DEF l
        <5>2. /\ SubSeq(t, 3, l) \in Seq(S) /\ Len(SubSeq(t, 3, l)) = l - 3 + 1
              /\ \A i \in 1 .. l - 3 + 1 : SubSeq(t, 3, l)[i] = t[3 + i - 1]
          BY <4>1, <5>1, Stretch
        <5> QED
          BY <5>1, <5>2
      <4> HIDE DEF u
      <4>3. Len(u) # 0
        BY <3>3, <4>2
      <4>4. l - 2 \in 1 .. l - 3 + 1 /\ 3 + (l - 2) - 1 = l /\ Len(u) = l - 2
        BY <4>1, <4>2, <4>3
      <4> QED
        BY <4>2, <4>4
    <3> QED
      BY <3>2, <3>3, <3>4
  <2>6. Strip(t) = t
    <3>1. t # <<>> /\ t[1] # "sp"
      BY <1>3
    <3> QED
      BY <2>5, <3>1, Unstripped
  <2>7. \A k \in 1 .. Len(Split(u)) :
          Split(u)[k] # <<>> /\ Split(u)[k] # <<"m">> /\ Fault(Split(u)[k]) = "none"
    <3> HIDE DEF u
    <3> QED
      BY <2>4, StepTaken
  <2>8. Alike(Split(t), Split(u), 1)
    <3>1. DOMAIN Split(t) = 1 .. Len(Split(t)) /\ DOMAIN Split(u) = 1 .. Len(Split(u))
      BY <2>3
    <3> HIDE DEF u
    <3> QED
      BY <2>2, <2>3, <2>7, <3>1 DEF Alike
  <2> QED
    BY <2>1, <2>6, <2>8 DEF steps
<1>4. CASE ~(t = <<"m">>) /\ ~(Len(t) >= 2 /\ t[1] = "m" /\ t[2] = "/")
  <2>1. steps = Split(t)
    BY <1>4 DEF OriginSteps
  <2>2. Split(t) \in Seq(Seq(S)) /\ Len(Split(t)) \in Nat /\ Len(Split(t)) >= 1
    BY PartIs
  <2>3. ASSUME NEW k \in 1 .. Len(Split(t)) PROVE Step(Split(t)[k]) /\ Split(t)[k] \in Seq(S)
    <3>1. k \in DOMAIN Split(t)
      BY <2>2
    <3> QED
      BY <1>1, <2>1, <2>2, <3>1
  <2> HIDE DEF steps
  <2>4. t # <<>> /\ t[1] # "sp" /\ t[Len(t)] # "sp"
    <3> DEFINE first == Split(t)[1]
               last  == Split(t)[Len(Split(t))]
    <3>1. Step(first) /\ first \in Seq(S) /\ Step(last) /\ last \in Seq(S)
      <4>1. 1 \in 1 .. Len(Split(t)) /\ Len(Split(t)) \in 1 .. Len(Split(t))
        BY <2>2
      <4> QED
        BY <2>3, <4>1
    <3>2. first # <<>> /\ first[1] # "sp" /\ last # <<>> /\ Last(last) # "sp"
      <4> HIDE DEF first, last
      <4> QED
        BY <3>1, StepTaken
    <3> QED
      BY <3>2, PartsAtEnds
  <2>5. Strip(t) = t
    BY <2>4, Unstripped
  <2>6. \A k \in 1 .. Len(Split(t)) :
          Split(t)[k] # <<>> /\ Split(t)[k] # <<"m">> /\ Fault(Split(t)[k]) = "none"
    BY <2>3, StepTaken
  <2>7. Alike(Split(t), Split(t), 0)
    <3>1. DOMAIN Split(t) = 1 .. Len(Split(t)) /\ Len(Split(t)) = Len(Split(t)) + 0
      BY <2>2
    <3>2. \A k \in 1 .. Len(Split(t)) : k + 0 = k
      BY <2>2
    <3> QED
      BY <2>2, <2>6, <3>1, <3>2 DEF Alike
  <2> QED
    BY <2>1, <2>5, <2>7 DEF steps
<1> QED
  BY <1>2, <1>3, <1>4

(* What is left of a split text after n parts, and the indexes of the      *)
(* first m steps.                                                          *)
Left(ahead, parted, n) ==
  /\ IsSeq(ahead) /\ Len(ahead) = Len(parted) - n
  /\ \A k \in 1 .. Len(parted) - n : ahead[k] = [at |-> n + k, part |-> parted[n + k]]
Taken(taken, steps, m) ==
  /\ IsSeq(taken) /\ Len(taken) = m
  /\ \A k \in 1 .. m : taken[k] = Index(steps[k])

(* One part less is left.                                                  *)
LEMMA OneLess ==
  ASSUME NEW s, NEW parted, Len(parted) \in Nat, NEW n \in 0 .. Len(parted), Left(s, parted, n)
  PROVE  /\ s = <<>> <=> n = Len(parted)
         /\ s # <<>> => /\ n + 1 \in 1 .. Len(parted)
                        /\ Head(s) = [at |-> n + 1, part |-> parted[n + 1]]
                        /\ Left(Tail(s), parted, n + 1)
<1> DEFINE l == Len(parted)
<1>1. PICK S : s \in Seq(S)
  BY DEF Left, IsSeq
<1>2. /\ l \in Nat /\ n \in Nat /\ n <= l /\ Len(s) = l - n
      /\ \A k \in 1 .. l - n : s[k] = [at |-> n + k, part |-> parted[n + k]]
  BY DEF Left
<1> HIDE DEF l
<1>3. s = <<>> <=> n = l
  BY <1>1, <1>2
<1>4. ASSUME s # <<>>
      PROVE  /\ n + 1 \in 1 .. l /\ Head(s) = [at |-> n + 1, part |-> parted[n + 1]]
             /\ IsSeq(Tail(s)) /\ Len(Tail(s)) = l - (n + 1)
             /\ \A k \in 1 .. l - (n + 1) : Tail(s)[k] = [at |-> (n + 1) + k, part |-> parted[(n + 1) + k]]
  <2>1. n < l
    BY <1>2, <1>3, <1>4
  <2>2. /\ Head(s) = s[1] /\ Tail(s) \in Seq(S) /\ Len(Tail(s)) = Len(s) - 1
        /\ \A k \in 1 .. Len(s) - 1 : Tail(s)[k] = s[k + 1]
    BY <1>1, <1>4
  <2>3. 1 \in 1 .. l - n /\ n + 1 \in 1 .. l
    BY <1>2, <2>1
  <2>4. (l - n) - 1 = l - (n + 1)
    BY <1>2
  <2>5. ASSUME NEW k \in 1 .. l - (n + 1)
        PROVE  Tail(s)[k] = [at |-> (n + 1) + k, part |-> parted[(n + 1) + k]]
    <3>1. k + 1 \in 1 .. l - n /\ n + (k + 1) = (n + 1) + k /\ k \in 1 .. Len(s) - 1
      BY <1>2
    <3>2. Tail(s)[k] = s[k + 1]
      BY <2>2, <3>1
    <3>3. s[k + 1] = [at |-> n + (k + 1), part |-> parted[n + (k + 1)]]
      BY <1>2, <3>1
    <3> QED
      BY <3>1, <3>2, <3>3
  <2> QED
    BY <1>2, <2>2, <2>3, <2>4, <2>5 DEF IsSeq
<1>5. s # <<>> => Left(Tail(s), parted, n + 1)
  BY <1>4 DEF Left, l
<1> QED
  BY <1>3, <1>4, <1>5 DEF l

(* One index more is taken.                                                *)
LEMMA OneMore ==
  ASSUME NEW s, NEW steps, NEW m \in Nat, Taken(s, steps, m)
  PROVE  Taken(Append(s, Index(steps[m + 1])), steps, m + 1)
<1> DEFINE x == Index(steps[m + 1])
           t == Append(s, x)
<1>1. PICK S : s \in Seq(S)
  BY DEF Taken, IsSeq
<1>2. IsSeq(t) /\ Len(t) = m + 1
  BY Lengthened DEF Taken
<1>3. Len(s) = m /\ \A k \in 1 .. m : s[k] = Index(steps[k])
  BY DEF Taken
<1>4. t[m + 1] = x /\ \A k \in 1 .. m : t[k] = s[k]
  <2> DEFINE U == S \cup {x}
  <2>1. s \in Seq(U) /\ x \in U
    BY <1>1, SeqMonotonic
  <2> HIDE DEF U, x
  <2> QED
    BY <1>3, <2>1
<1>5. ASSUME NEW k \in 1 .. m + 1 PROVE t[k] = Index(steps[k])
  <2>1. k = m + 1 \/ k \in 1 .. m
    OBVIOUS
  <2> HIDE DEF t
  <2> QED
    BY <1>3, <1>4, <2>1
<1> HIDE DEF t
<1> QED
  BY <1>2, <1>5 DEF Taken, t

(* The indexes of the first steps begin the indexes of all.                *)
LEMMA TakenBegins ==
  ASSUME NEW t, DOMAIN OriginSteps(t) = 1 .. Len(OriginSteps(t)), Len(OriginSteps(t)) \in Nat,
         NEW m \in 0 .. Len(OriginSteps(t)), NEW s, Taken(s, OriginSteps(t), m)
  PROVE  /\ IsPrefix(s, OriginPath(t)) /\ Len(s) = m
         /\ m = Len(OriginSteps(t)) => s = OriginPath(t)
         /\ m < Len(OriginSteps(t)) =>
              /\ IsStrictPrefix(s, OriginPath(t))
              /\ OriginPath(t)[m + 1] = Index(OriginSteps(t)[m + 1])
<1> DEFINE n == Len(OriginSteps(t))
           o == OriginPath(t)
<1>1. o = [k \in 1 .. n |-> Index(OriginSteps(t)[k])]
  BY DEF OriginPath
<1>2. n \in Nat /\ m \in Nat /\ m <= n
  OBVIOUS
<1>3. PICK S : s \in Seq(S)
  BY DEF Taken, IsSeq
<1>4. Len(s) = m /\ \A k \in 1 .. m : s[k] = Index(OriginSteps(t)[k])
  BY DEF Taken
<1> DEFINE U == S \cup {Index(OriginSteps(t)[k]) : k \in 1 .. n}
<1>5. s \in Seq(U)
  BY <1>3, SeqMonotonic
<1> HIDE DEF o
<1>6. o \in [1 .. n -> U]
  BY <1>1
<1> HIDE DEF n, U
<1>7. o \in Seq(U) /\ Len(o) = n
  BY <1>2, <1>6
<1>8. \A k \in 1 .. n : o[k] = Index(OriginSteps(t)[k])
  BY <1>1
<1>9. \A k \in 1 .. m : s[k] = o[k]
  BY <1>2, <1>4, <1>8
<1>10. SubSeq(s, 1, m) = s
  BY <1>2, <1>4, <1>5
<1>11. SubSeq(o, 1, m) = s
  <2> DEFINE p == SubSeq(o, 1, m)
  <2>1. /\ p \in Seq(U) /\ Len(p) = m - 1 + 1 /\ \A i \in 1 .. m - 1 + 1 : p[i] = o[1 + i - 1]
    <3>1. 1 \in Nat /\ 1 <= 1 /\ m <= Len(o) /\ 1 <= m + 1
      BY <1>2, <1>7
    <3> QED
      BY <1>2, <1>7, <3>1, Stretch
  <2> HIDE DEF p
  <2>2. Len(p) = m /\ \A i \in 1 .. m : p[i] = o[i]
    <3>1. m - 1 + 1 = m /\ \A i \in 1 .. m : 1 + i - 1 = i
      BY <1>2
    <3> QED
      BY <2>1, <3>1
  <2>3. p = s
    BY <1>4, <1>5, <1>9, <2>1, <2>2, SeqEqual
  <2> QED
    BY <2>3 DEF p
<1>12. IsPrefix(s, o)
  BY <1>2, <1>4, <1>7, <1>10, <1>11 DEF IsPrefix
<1>13. m = n => s = o
  BY <1>4, <1>5, <1>7, <1>9, SeqEqual
<1>14. m < n => IsStrictPrefix(s, o) /\ o[m + 1] = Index(OriginSteps(t)[m + 1])
  <2>1. ASSUME m < n PROVE s # o /\ m + 1 \in 1 .. n
    BY <1>2, <1>4, <1>7, <2>1
  <2> QED
    BY <1>8, <1>12, <2>1 DEF IsStrictPrefix
<1> QED
  BY <1>4, <1>12, <1>13, <1>14 DEF o, n

(* During a call on an origin's text, the parts that are left and the      *)
(* indexes taken are those after and up to one position; a missing child   *)
(* ends it before the last one.                                            *)
Midway(n, d) ==
  /\ pc = "derive" /\ n \in 0 .. Len(Split(Strip(text)))
  /\ Left(parts, Split(Strip(text)), n)
  /\ Taken(path, OriginSteps(text), IF n < d THEN 0 ELSE n - d)
Childless ==
  /\ pc = "DerivationError"
  /\ IsStrictPrefix(path, OriginPath(text))
  /\ ~HasChild(node, OriginPath(text)[Len(path) + 1])
ParsersInv ==
  /\ \E S : text \in Seq(S)
  /\ OriginParses(text) =>
       \/ pc = "idle" /\ path = OriginPath(text)
       \/ \E d : Alike(Split(Strip(text)), OriginSteps(text), d) /\ \E n : Midway(n, d)
       \/ Childless

(* Before a call the text is that of no step.                              *)
LEMMA NoSteps ==
  /\ \E S : <<"m">> \in Seq(S)
  /\ OriginPath(<<"m">>) = <<>>
<1>1. <<"m">> \in Seq({"m"})
  OBVIOUS
<1>2. OriginSteps(<<"m">>) = <<>>
  BY DEF OriginSteps
<1>3. DOMAIN <<>> = {}
  OBVIOUS
<1>4. OriginPath(<<"m">>) = [k \in {} |-> Index(OriginSteps(<<"m">>)[k])]
  BY <1>2, <1>3 DEF OriginPath
<1>5. ASSUME NEW o, o = [k \in {} |-> Index(OriginSteps(<<"m">>)[k])] PROVE o = <<>>
  BY <1>5
<1> QED
  BY <1>1, <1>4, <1>5

(* Where a call stands: before a marker, or before a step.                 *)
LEMMA StandsAt ==
  ASSUME NEW d, Alike(Split(Strip(text)), OriginSteps(text), d), NEW n, Midway(n, d)
  PROVE  LET parted == Split(Strip(text))
             steps  == OriginSteps(text)
         IN  /\ n \in Nat /\ d \in {0, 1}
             /\ parts = <<>> => n = Len(steps) + d
             /\ parts # <<>> => n + 1 \in 1 .. Len(parted) /\ Left(Tail(parts), parted, n + 1)
             /\ parts # <<>> /\ n < d => n = 0 /\ d = 1 /\ Skipped(Head(parts))
             /\ parts # <<>> /\ ~(n < d) =>
                  /\ n - d \in 0 .. Len(steps) - 1
                  /\ Head(parts).part = steps[n - d + 1]
                  /\ ~Skipped(Head(parts)) /\ Fault(Head(parts).part) = "none"
<1> DEFINE parted == Split(Strip(text))
           steps  == OriginSteps(text)
<1>1. /\ d \in {0, 1} /\ Len(steps) \in Nat /\ Len(parted) = Len(steps) + d /\ Len(parted) \in Nat
      /\ d = 1 => parted[1] = <<"m">>
      /\ \A k \in 1 .. Len(steps) :
           parted[k + d] = steps[k] /\ steps[k] # <<>> /\ steps[k] # <<"m">> /\ Fault(steps[k]) = "none"
  BY DEF Alike
<1>2. n \in 0 .. Len(parted) /\ Left(parts, parted, n)
  BY DEF Midway
<1> HIDE DEF parted, steps
<1>3. /\ parts = <<>> <=> n = Len(parted)
      /\ parts # <<>> => /\ n + 1 \in 1 .. Len(parted)
                         /\ Head(parts) = [at |-> n + 1, part |-> parted[n + 1]]
                         /\ Left(Tail(parts), parted, n + 1)
  BY <1>1, <1>2, OneLess
<1>4. n \in Nat
  BY <1>2
<1>5. ASSUME parts # <<>>, n < d PROVE n = 0 /\ d = 1 /\ Skipped(Head(parts))
  <2>1. n = 0 /\ d = 1 /\ n + 1 = 1
    BY <1>1, <1>4, <1>5
  <2>2. Head(parts) = [at |-> 1, part |-> <<"m">>]
    BY <1>1, <1>3, <1>5, <2>1
  <2> QED
    BY <2>1, <2>2 DEF Skipped
<1>6. ASSUME parts # <<>>, ~(n < d)
      PROVE  /\ n - d \in 0 .. Len(steps) - 1
             /\ Head(parts).part = steps[n - d + 1]
             /\ ~Skipped(Head(parts)) /\ Fault(Head(parts).part) = "none"
  <2> DEFINE k == n - d + 1
  <2>1. n - d \in 0 .. Len(steps) - 1 /\ k \in 1 .. Len(steps) /\ k + d = n + 1
    BY <1>1, <1>3, <1>4, <1>6
  <2>2. parted[n + 1] = steps[k] /\ steps[k] # <<>> /\ steps[k] # <<"m">> /\ Fault(steps[k]) = "none"
    <3> HIDE DEF k
    <3> QED
      BY <1>1, <2>1
  <2>3. Head(parts).part = steps[k]
    BY <1>3, <1>6, <2>2
  <2> QED
    BY <2>1, <2>2, <2>3 DEF Skipped
<1> QED
  BY <1>1, <1>3, <1>4, <1>5, <1>6 DEF parted, steps

(* A conversion and the first state.                                       *)
LEMMA IdleAgrees ==
  ASSUME text = <<"m">>, path = <<>>, pc = "idle"
  PROVE  ParsersInv
BY NoSteps DEF ParsersInv

(* A call starts with all parts left.                                      *)
LEMMA CallAgrees ==
  ASSUME TextsGiven, NEW t \in Texts, DerivePath(t)
  PROVE  ParsersInv'
<1> DEFINE parted == Split(Strip(t))
<1>1. pc' = "derive" /\ text' = t /\ parts' = Positioned(parted) /\ path' = <<>>
  BY DEF DerivePath
<1>2. t \in Seq(ToSet(t))
  BY DEF TextsGiven
<1>3. ASSUME OriginParses(t)
      PROVE  \E d : Alike(parted, OriginSteps(t), d) /\ \E n : Midway(n, d)'
  <2>1. PICK d : Alike(parted, OriginSteps(t), d)
    BY <1>2, <1>3, OriginRead
  <2>2. d \in {0, 1} /\ Len(parted) \in Nat /\ DOMAIN parted = 1 .. Len(parted)
    BY <2>1 DEF Alike
  <2> DEFINE l == Len(parted)
  <2>3. Left(parts', parted, 0)
    <3> DEFINE s == Positioned(parted)
               U == {[at |-> k, part |-> parted[k]] : k \in 1 .. l}
    <3>1. s = [k \in 1 .. l |-> [at |-> k, part |-> parted[k]]]
      BY <2>2 DEF Positioned
    <3>2. s \in [1 .. l -> U] /\ \A k \in 1 .. l : s[k] = [at |-> k, part |-> parted[k]]
      BY <3>1
    <3>3. l \in Nat /\ l - 0 = l /\ \A k \in 1 .. l : 0 + k = k
      BY <2>2
    <3> HIDE DEF s, U, l
    <3>4. s \in Seq(U) /\ Len(s) = l
      BY <3>2, <3>3
    <3>5. IsSeq(s)
      BY <3>4 DEF IsSeq
    <3> QED
      BY <1>1, <3>2, <3>3, <3>4, <3>5 DEF Left, s, l
  <2>4. Taken(path', OriginSteps(t), 0)
    <3>1. <<>> \in Seq({}) /\ Len(<<>>) = 0 /\ 1 .. 0 = {}
      OBVIOUS
    <3> QED
      BY <1>1, <3>1 DEF Taken, IsSeq
  <2>5. (IF 0 < d THEN 0 ELSE 0 - d) = 0 /\ 0 \in 0 .. l
    BY <2>2
  <2> HIDE DEF parted
  <2>6. Midway(0, d)'
    BY <1>1, <2>3, <2>4, <2>5 DEF Midway, parted
  <2> QED
    BY <2>1, <2>6
<1> QED
  BY <1>1, <1>2, <1>3 DEF ParsersInv

(* A part that is skipped is the marker.                                   *)
LEMMA SkipAgrees ==
  ASSUME ParsersInv, Skip
  PROVE  ParsersInv'
<1>1. /\ pc = "derive" /\ pc' = pc /\ text' = text /\ path' = path /\ parts # <<>>
      /\ Skipped(Head(parts)) /\ parts' = Tail(parts)
  BY DEF Skip, NextPart
<1>2. ASSUME OriginParses(text)
      PROVE  \E d : Alike(Split(Strip(text)), OriginSteps(text), d) /\ \E n : Midway(n, d)'
  <2>1. PICK d : Alike(Split(Strip(text)), OriginSteps(text), d) /\ \E n : Midway(n, d)
    BY <1>1, <1>2 DEF ParsersInv, Childless
  <2>2. PICK n : Midway(n, d)
    BY <2>1
  <2>3. n = 0 /\ d = 1 /\ 1 \in 1 .. Len(Split(Strip(text))) /\ Left(parts', Split(Strip(text)), 1)
    BY <1>1, <2>1, <2>2, StandsAt
  <2>4. Taken(path, OriginSteps(text), 0)
    BY <2>2, <2>3 DEF Midway
  <2>5. Midway(1, d)'
    BY <1>1, <2>3, <2>4 DEF Midway
  <2> QED
    BY <2>1, <2>5
<1> QED
  BY <1>1, <1>2 DEF ParsersInv

(* No step of an origin is refused.                                        *)
LEMMA RefuseAgrees ==
  ASSUME ParsersInv, Refuse
  PROVE  ParsersInv'
<1>1. /\ pc = "derive" /\ text' = text /\ parts # <<>> /\ ~Skipped(Head(parts))
      /\ Fault(Head(parts).part) # "none"
  BY DEF Refuse, NextPart
<1>2. ASSUME OriginParses(text) PROVE FALSE
  <2>1. PICK d : Alike(Split(Strip(text)), OriginSteps(text), d) /\ \E n : Midway(n, d)
    BY <1>1, <1>2 DEF ParsersInv, Childless
  <2>2. PICK n : Midway(n, d)
    BY <2>1
  <2> QED
    BY <1>1, <2>1, <2>2, StandsAt
<1> QED
  BY <1>1, <1>2 DEF ParsersInv

(* A child is derived at the next index of the origin, or there is none.   *)
LEMMA ChildAgrees ==
  ASSUME ParsersInv, DeriveChild
  PROVE  ParsersInv'
<1> DEFINE index == Index(Head(parts).part)
<1>1. /\ pc = "derive" /\ text' = text /\ parts # <<>> /\ ~Skipped(Head(parts))
      /\ \/ path' = Append(path, index) /\ parts' = Tail(parts) /\ pc' = pc
         \/ ~HasChild(node, index) /\ pc' = "DerivationError" /\ node' = node /\ path' = path
  BY DEF DeriveChild, NextPart
<1>2. ASSUME OriginParses(text)
      PROVE  \/ \E d : Alike(Split(Strip(text)), OriginSteps(text), d) /\ \E n : Midway(n, d)'
             \/ Childless'
  <2>1. PICK d : Alike(Split(Strip(text)), OriginSteps(text), d) /\ \E n : Midway(n, d)
    BY <1>1, <1>2 DEF ParsersInv, Childless
  <2>2. PICK n : Midway(n, d)
    BY <2>1
  <2> DEFINE steps == OriginSteps(text)
             m == n - d
  <2>3. /\ n \in Nat /\ d \in {0, 1} /\ ~(n < d) /\ n + 1 \in 1 .. Len(Split(Strip(text)))
        /\ Left(Tail(parts), Split(Strip(text)), n + 1)
        /\ m \in 0 .. Len(steps) - 1 /\ Head(parts).part = steps[m + 1]
    BY <1>1, <2>1, <2>2, StandsAt
  <2>4. Taken(path, steps, m)
    BY <2>2, <2>3 DEF Midway
  <2>5. index = Index(steps[m + 1])
    BY <2>3
  <2>6. CASE path' = Append(path, index) /\ parts' = Tail(parts) /\ pc' = pc
    <3>1. Taken(path', steps, m + 1)
      <4> HIDE DEF index, steps, m
      <4>1. m \in Nat
        BY <2>3
      <4> QED
        BY <2>4, <2>5, <2>6, <4>1, OneMore
    <3>2. (IF n + 1 < d THEN 0 ELSE (n + 1) - d) = m + 1 /\ n + 1 \in 0 .. Len(Split(Strip(text)))
      BY <2>3
    <3> HIDE DEF m
    <3>3. Midway(n + 1, d)'
      BY <1>1, <2>3, <2>6, <3>1, <3>2 DEF Midway
    <3> QED
      BY <2>1, <3>3
  <2>7. CASE ~HasChild(node, index) /\ pc' = "DerivationError" /\ node' = node /\ path' = path
    <3>1. DOMAIN steps = 1 .. Len(steps) /\ Len(steps) \in Nat
      BY <2>1 DEF Alike
    <3>2. m \in 0 .. Len(steps) /\ m < Len(steps)
      BY <2>3, <3>1
    <3>3. /\ Len(path) = m /\ IsStrictPrefix(path, OriginPath(text))
          /\ OriginPath(text)[m + 1] = Index(steps[m + 1])
      <4> HIDE DEF m
      <4> QED
        BY <2>4, <3>1, <3>2, TakenBegins
    <3> HIDE DEF m, index, steps
    <3>4. Childless'
      <4>1. ~HasChild(node', OriginPath(text)[Len(path') + 1])
        BY <2>5, <2>7, <3>3
      <4> QED
        BY <1>1, <2>7, <3>3, <4>1 DEF Childless
    <3> QED
      BY <3>4
  <2> QED
    BY <1>1, <2>6, <2>7
<1> QED
  BY <1>1, <1>2 DEF ParsersInv

(* A call ends when all indexes are taken.                                 *)
LEMMA ReturnAgrees ==
  ASSUME ParsersInv, Return
  PROVE  ParsersInv'
<1>1. pc = "derive" /\ parts = <<>> /\ pc' = "idle" /\ text' = text /\ path' = path
  BY DEF Return
<1>2. ASSUME OriginParses(text) PROVE path = OriginPath(text)
  <2>1. PICK d : Alike(Split(Strip(text)), OriginSteps(text), d) /\ \E n : Midway(n, d)
    BY <1>1, <1>2 DEF ParsersInv, Childless
  <2>2. PICK n : Midway(n, d)
    BY <2>1
  <2> DEFINE l == Len(OriginSteps(text))
  <2>3. n = l + d /\ d \in {0, 1}
    BY <1>1, <2>1, <2>2, StandsAt
  <2>4. DOMAIN OriginSteps(text) = 1 .. l /\ l \in Nat
    BY <2>1 DEF Alike
  <2>5. (IF n < d THEN 0 ELSE n - d) = l /\ l \in 0 .. l
    BY <2>3, <2>4
  <2>6. Taken(path, OriginSteps(text), l)
    BY <2>2, <2>5 DEF Midway
  <2> QED
    BY <2>4, <2>5, <2>6, TakenBegins
<1> QED
  BY <1>1, <1>2 DEF ParsersInv

(* derive_path() and KeyOrigin.parse() read one notation alike, for texts  *)
(* of any length and any numbers of calls: a text that is an origin's      *)
(* leads through the origin's indexes, to the end or to one that has no    *)
(* child.                                                                  *)
THEOREM ParsersReadAlike ==
  ASSUME TextsGiven
  PROVE  Spec => []ParsersAgree
<1>1. Init => ParsersInv
  BY IdleAgrees DEF Init
<1>2. ParsersInv /\ [Next]_vars => ParsersInv'
  <2> SUFFICES ASSUME ParsersInv, [Next]_vars PROVE ParsersInv'
    OBVIOUS
  <2>1. CASE Convert
    <3>1. text' = <<"m">> /\ path' = <<>> /\ pc' = "idle"
      BY <2>1 DEF Convert, Call
    <3> QED
      BY <3>1, NoSteps DEF ParsersInv
  <2>2. CASE UNCHANGED vars
    <3>1. UNCHANGED <<pc, text, parts, path, node>>
      BY <2>2 DEF vars
    <3> QED
      BY <3>1 DEF ParsersInv, Midway, Childless
  <2> QED
    BY <2>1, <2>2, CallAgrees, SkipAgrees, RefuseAgrees, ChildAgrees, ReturnAgrees DEF Next
<1>3. ParsersInv => ParsersAgree
  <2> SUFFICES ASSUME ParsersInv, OriginParses(text)
               PROVE  CASE pc = "idle"            -> path = OriginPath(text)
                        [] pc = "derive"          -> IsPrefix(path, OriginPath(text))
                        [] pc = "DerivationError" ->
                             /\ IsStrictPrefix(path, OriginPath(text))
                             /\ ~HasChild(node, OriginPath(text)[Len(path) + 1])
                        [] OTHER                  -> FALSE
    BY DEF ParsersAgree
  <2>1. CASE pc = "idle" /\ path = OriginPath(text)
    BY <2>1
  <2>2. CASE Childless
    BY <2>2 DEF Childless
  <2>3. ASSUME NEW d, Alike(Split(Strip(text)), OriginSteps(text), d), NEW n, Midway(n, d)
        PROVE  pc = "derive" /\ IsPrefix(path, OriginPath(text))
    <3> DEFINE l == Len(OriginSteps(text))
               m == IF n < d THEN 0 ELSE n - d
    <3>1. d \in {0, 1} /\ l \in Nat /\ Len(Split(Strip(text))) = l + d
          /\ DOMAIN OriginSteps(text) = 1 .. l
      BY <2>3 DEF Alike
    <3>2. n \in 0 .. l + d /\ Taken(path, OriginSteps(text), m) /\ pc = "derive"
      BY <2>3, <3>1 DEF Midway
    <3>3. m \in 0 .. l
      BY <3>1, <3>2
    <3> HIDE DEF m
    <3> QED
      BY <3>1, <3>2, <3>3, TakenBegins
  <2>4. CASE pc = "derive" /\ IsPrefix(path, OriginPath(text))
    BY <2>4
  <2> QED
    BY <2>1, <2>2, <2>3, <2>4 DEF ParsersInv
<1> QED
  BY <1>1, <1>2, <1>3, PTL DEF Spec
=============================================================================
