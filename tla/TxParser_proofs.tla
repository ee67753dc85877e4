--------------------------- MODULE TxParser_proofs ---------------------------
(***************************************************************************)
(* Proofs about TxParser: what parse_transaction() accepts is the one      *)
(* serialization of the transaction it returns, the bytes it hashes for    *)
(* the txid are that serialization without witness, and nothing that       *)
(* begins the serialization of a transaction of its length is rejected.    *)
(* And about UnsignedTx: the same with inputs written by create_psbt(),    *)
(* and that those are read as what was asked for.                          *)
(***************************************************************************)
EXTENDS UnsignedTx, SequenceTheorems, WellFoundedInduction, TLAPS

-----------------------------------------------------------------------------
(* Induction and recursion.                                                *)

(* Induction over a set of numbers, by a least counterexample.             *)
LEMMA AllNumbers ==
  ASSUME NEW T, 0 \in T, \A k \in Nat : k \in T => k + 1 \in T
  PROVE  \A k \in Nat : k \in T
<1> DEFINE Others == {k \in Nat : k \notin T}
<1>1. ASSUME Others # {} PROVE FALSE
  <2>1. Others \subseteq Nat
    OBVIOUS
  <2>2. PICK m \in Others : \A i \in Others : ~(<<i, m>> \in OpToRel(<, Nat))
    <3> HIDE DEF Others
    <3> QED
      BY <1>1, <2>1, NatLessThanWellFounded, WFMin
  <2>3. \A i \in Others : ~(i < m)
    BY <2>1, <2>2 DEF OpToRel
  <2>4. m \in Nat /\ m \notin T /\ m # 0
    OBVIOUS
  <2>5. m - 1 \in Nat /\ m - 1 < m /\ (m - 1) + 1 = m
    BY <2>4
  <2>6. m - 1 \in T
    BY <2>3, <2>5
  <2> QED
    BY <2>4, <2>5, <2>6
<1> QED
  BY <1>1

(* f goes from a, by g[k] in step k.                                       *)
Steppers(S) == [Nat -> [S -> S]]
Steps(f, S, a, g, n) ==
  f \in [0 .. n -> S] /\ f[0] = a /\ \A k \in 1 .. n : f[k] = g[k][f[k - 1]]

(* A function that is defined step by step exists, as far as one likes.    *)
LEMMA StepByStep ==
  ASSUME NEW S, NEW a \in S, NEW g \in Steppers(S), NEW n \in Nat
  PROVE  \E f : Steps(f, S, a, g, n)
<1> USE DEF Steppers, Steps
<1> DEFINE Reaches(m) == \E f : Steps(f, S, a, g, m)
           T == {m \in Nat : Reaches(m)}
<1>1. 0 \in T
  <2> DEFINE z == [k \in 0 .. 0 |-> a]
  <2>1. z \in [0 .. 0 -> S] /\ z[0] = a /\ \A k \in 1 .. 0 : z[k] = g[k][z[k - 1]]
    OBVIOUS
  <2> HIDE DEF z
  <2>2. Reaches(0)
    BY <2>1
  <2> QED
    BY <2>2
<1>2. ASSUME NEW m \in Nat, m \in T PROVE m + 1 \in T
  <2>1. PICK f : Steps(f, S, a, g, m)
    BY <1>2
  <2> DEFINE h == [k \in 0 .. (m + 1) |-> IF k = m + 1 THEN g[m + 1][f[m]] ELSE f[k]]
  <2>2. f[m] \in S /\ g[m + 1] \in [S -> S]
    BY <2>1
  <2>3. h \in [0 .. (m + 1) -> S]
    BY <2>1, <2>2
  <2>4. h[0] = a
    BY <2>1
  <2>5. ASSUME NEW k \in 1 .. (m + 1) PROVE h[k] = g[k][h[k - 1]]
    <3>1. h[k - 1] = f[k - 1]
      OBVIOUS
    <3>2. CASE k = m + 1
      BY <3>1, <3>2
    <3>3. CASE k # m + 1
      BY <2>1, <3>1, <3>3
    <3> QED
      BY <3>2, <3>3
  <2> HIDE DEF h
  <2>6. Reaches(m + 1)
    BY <2>3, <2>4, <2>5
  <2> HIDE DEF Reaches
  <2> QED
    BY <2>6
<1>3. n \in T
  <2> HIDE DEF T
  <2> QED
    BY <1>1, <1>2, AllNumbers
<1> QED
  BY <1>3

(* Two such functions agree as far as both go.                             *)
LEMMA StepsAgree ==
  ASSUME NEW S, NEW a, NEW g \in Steppers(S), NEW n \in Nat, NEW m \in Nat, n <= m,
         NEW f, Steps(f, S, a, g, n), NEW h, Steps(h, S, a, g, m)
  PROVE  \A k \in 0 .. n : f[k] = h[k]
<1> DEFINE T == {k \in Nat : k <= n => f[k] = h[k]}
<1>1. 0 \in T
  BY DEF Steps
<1>2. ASSUME NEW k \in Nat, k \in T PROVE k + 1 \in T
  <2>1. SUFFICES ASSUME k + 1 <= n PROVE f[k + 1] = h[k + 1]
    OBVIOUS
  <2>2. f[k] = h[k] /\ k + 1 \in 1 .. n /\ k + 1 \in 1 .. m /\ (k + 1) - 1 = k
    BY <1>2, <2>1
  <2> QED
    BY <2>2 DEF Steps
<1>3. \A k \in Nat : k \in T
  <2> HIDE DEF T
  <2> QED
    BY <1>1, <1>2, AllNumbers
<1> QED
  BY <1>3

-----------------------------------------------------------------------------
(* Concatenations.                                                         *)

(* f[k] is the concatenation of the first k sequences.                     *)
Concatenates(f, S, seqs) ==
  /\ f \in [0 .. Len(seqs) -> Seq(S)]
  /\ f[0] = <<>> /\ \A k \in 1 .. Len(seqs) : f[k] = f[k - 1] \o seqs[k]
  /\ FlattenSeq(seqs) = f[Len(seqs)]

(* The function behind FlattenSeq.                                         *)
LEMMA Flattened ==
  ASSUME NEW S, NEW seqs \in Seq(Seq(S))
  PROVE  \E f : Concatenates(f, S, seqs)
<1> DEFINE n == Len(seqs)
           Z == Seq(S)
           g == [k \in Nat |-> [v \in Z |-> IF k \in 1 .. n THEN v \o seqs[k] ELSE v]]
           none == <<>>
<1>1. n \in Nat /\ \A k \in 1 .. n : seqs[k] \in Z
  OBVIOUS
<1>2. none \in Z /\ \A v \in Z, w \in Z : v \o w \in Z
  OBVIOUS
<1>3. g \in Steppers(Z)
  <2> HIDE DEF Z, n
  <2> QED
    BY <1>1, <1>2 DEF Steppers
<1>4. PICK f : f \in [0 .. n -> Z] /\ f[0] = none /\ \A k \in 1 .. n : f[k] = g[k][f[k - 1]]
  <2> HIDE DEF g, Z, n, none
  <2>1. PICK f : Steps(f, Z, none, g, n)
    BY <1>1, <1>2, <1>3, StepByStep
  <2> QED
    BY <2>1 DEF Steps
<1>5. \A k \in 1 .. n : f[k] = f[k - 1] \o seqs[k]
  <2>1. SUFFICES ASSUME NEW k \in 1 .. n PROVE f[k] = f[k - 1] \o seqs[k]
    OBVIOUS
  <2>2. k \in Nat /\ k - 1 \in 0 .. n /\ f[k] = g[k][f[k - 1]]
    <3> HIDE DEF Z, n, g
    <3> QED
      BY <1>1, <1>4
  <2>3. f[k - 1] \in Z
    BY <1>4, <2>2
  <2> HIDE DEF Z, n
  <2> QED
    BY <2>2, <2>3
<1>6. CASE n = 0
  <2>1. seqs = <<>>
    BY <1>6
  <2>2. FlattenSeq(seqs) = f[n]
    BY <1>4, <1>6, <2>1 DEF FlattenSeq
  <2> QED
    BY <1>4, <1>5, <2>2 DEF Concatenates
<1>7. CASE n # 0
  <2> DEFINE Fills(e) == e = [i \in 1 .. n |-> IF i = 1 THEN seqs[1] ELSE e[i - 1] \o seqs[i]]
             h == [i \in 1 .. n |-> f[i]]
             e == CHOOSE e : Fills(e)
  <2>1. f[1] = seqs[1]
    <3>1. 1 \in 1 .. n
      BY <1>1, <1>7
    <3>2. f[1] = f[1 - 1] \o seqs[1]
      BY <1>5, <3>1
    <3>3. f[1 - 1] = <<>> /\ seqs[1] \in Seq(S)
      BY <1>1, <1>4, <3>1
    <3> QED
      BY <3>2, <3>3
  <2>2. ASSUME NEW i \in 1 .. n
        PROVE  h[i] = IF i = 1 THEN seqs[1] ELSE h[i - 1] \o seqs[i]
    <3>1. i # 1 => i - 1 \in 1 .. n
      BY <1>1
    <3> HIDE DEF n
    <3> QED
      BY <1>5, <2>1, <3>1
  <2>3. Fills(h)
    <3>1. h = [i \in 1 .. n |-> h[i]]
      OBVIOUS
    <3> HIDE DEF n, h
    <3> QED
      BY <2>2, <3>1
  <2>4. Fills(e)
    <3> HIDE DEF Fills
    <3> QED
      BY <2>3
  <2>5. FlattenSeq(seqs) = e[n]
    BY <1>7 DEF FlattenSeq
  <2> HIDE DEF e, h, n
  <2>6. \A i \in 1 .. n : e[i] = IF i = 1 THEN seqs[1] ELSE e[i - 1] \o seqs[i]
    BY <2>4
  <2> DEFINE T == {k \in Nat : k + 1 \in 1 .. n => e[k + 1] = f[k + 1]}
  <2>7. 0 \in T
    BY <2>1, <2>6
  <2>8. ASSUME NEW k \in Nat, k \in T PROVE k + 1 \in T
    <3>1. SUFFICES ASSUME k + 2 \in 1 .. n PROVE e[k + 2] = f[k + 2]
      OBVIOUS
    <3>2. e[k + 1] = f[k + 1]
      BY <1>1, <2>8, <3>1
    <3>3. (k + 2) - 1 = k + 1 /\ k + 2 # 1
      OBVIOUS
    <3>4. e[k + 2] = e[k + 1] \o seqs[k + 2]
      BY <2>6, <3>1, <3>3
    <3>5. f[k + 2] = f[k + 1] \o seqs[k + 2]
      BY <1>5, <3>1, <3>3
    <3> QED
      BY <3>2, <3>4, <3>5
  <2>9. n - 1 \in Nat
    BY <1>1, <1>7
  <2>10. n - 1 \in T
    <3> HIDE DEF T
    <3> QED
      BY <2>7, <2>8, <2>9, AllNumbers
  <2>11. e[n] = f[n]
    BY <1>1, <1>7, <2>10
  <2> QED
    BY <1>4, <1>5, <2>5, <2>11 DEF n, Concatenates
<1> QED
  BY <1>6, <1>7

(* A concatenation grows at its end.                                       *)
LEMMA FlattenAppend ==
  ASSUME NEW S, NEW seqs \in Seq(Seq(S)), NEW seq \in Seq(S)
  PROVE  /\ FlattenSeq(seqs) \in Seq(S)
         /\ FlattenSeq(Append(seqs, seq)) = FlattenSeq(seqs) \o seq
<1> DEFINE n == Len(seqs)
           more == Append(seqs, seq)
<1>1. n \in Nat /\ more \in Seq(Seq(S)) /\ Len(more) = n + 1 /\ more[n + 1] = seq
      /\ \A k \in 1 .. n : more[k] = seqs[k]
  BY AppendProperties, LenProperties
<1>2. PICK f : /\ f \in [0 .. n -> Seq(S)]
               /\ f[0] = <<>> /\ \A k \in 1 .. n : f[k] = f[k - 1] \o seqs[k]
               /\ FlattenSeq(seqs) = f[n]
  BY Flattened DEF Concatenates
<1>3. PICK h : /\ h \in [0 .. (n + 1) -> Seq(S)]
               /\ h[0] = <<>> /\ \A k \in 1 .. (n + 1) : h[k] = h[k - 1] \o more[k]
               /\ FlattenSeq(more) = h[n + 1]
  <2> HIDE DEF more
  <2>1. PICK h : Concatenates(h, S, more)
    BY <1>1, Flattened
  <2> QED
    BY <1>1, <2>1 DEF Concatenates
<1> HIDE DEF more
<1> DEFINE T == {k \in Nat : k <= n => h[k] = f[k]}
<1>4. 0 \in T
  BY <1>2, <1>3
<1>5. ASSUME NEW k \in Nat, k \in T PROVE k + 1 \in T
  <2>1. SUFFICES ASSUME k + 1 <= n PROVE h[k + 1] = f[k + 1]
    OBVIOUS
  <2>2. h[k] = f[k]
    BY <1>1, <1>5, <2>1
  <2>3. k + 1 \in 1 .. n /\ k + 1 \in 1 .. (n + 1) /\ (k + 1) - 1 = k
    BY <1>1, <2>1
  <2>4. more[k + 1] = seqs[k + 1]
    BY <1>1, <2>3
  <2> QED
    BY <1>2, <1>3, <2>2, <2>3, <2>4
<1>6. n \in T
  <2> HIDE DEF T
  <2> QED
    BY <1>1, <1>4, <1>5, AllNumbers
<1>7. h[n] = f[n] /\ n + 1 \in 1 .. (n + 1) /\ (n + 1) - 1 = n
  BY <1>1, <1>6
<1>8. FlattenSeq(more) = FlattenSeq(seqs) \o seq
  BY <1>1, <1>2, <1>3, <1>7
<1>9. FlattenSeq(seqs) \in Seq(S)
  <2>1. n \in 0 .. n
    BY <1>1
  <2> QED
    BY <1>2, <2>1
<1> QED
  BY <1>8, <1>9 DEF more
-----------------------------------------------------------------------------
(* Numbers and CompactSizes.                                               *)

(* Below(w) is Base ^ w.                                                   *)
Times == [k \in Nat |-> [v \in Nat |-> Base * v]]

(* The function behind Below.                                              *)
LEMMA Powers ==
  ASSUME NEW w \in Nat
  PROVE  \E b : Steps(b, Nat, 1, Times, w) /\ Below(w) = b[w]
<1> DEFINE Fills(b) == b = [k \in 0 .. w |-> IF k = 0 THEN 1 ELSE Base * b[k - 1]]
           c == CHOOSE b : Fills(b)
<1>1. Times \in Steppers(Nat)
  BY FormatAssumption DEF Times, Steppers
<1>2. PICK b : Steps(b, Nat, 1, Times, w)
  BY <1>1, StepByStep
<1>3. b \in [0 .. w -> Nat] /\ b[0] = 1 /\ \A k \in 1 .. w : b[k] = Base * b[k - 1]
  <2>1. ASSUME NEW k \in 1 .. w PROVE b[k] = Base * b[k - 1]
    <3>1. b[k - 1] \in Nat /\ k \in Nat /\ b[k] = Times[k][b[k - 1]]
      BY <1>2 DEF Steps
    <3> QED
      BY <3>1 DEF Times
  <2> QED
    BY <1>2, <2>1 DEF Steps
<1>4. Fills(b)
  <2>1. b = [k \in 0 .. w |-> b[k]]
    BY <1>3
  <2>2. \A k \in 0 .. w : b[k] = IF k = 0 THEN 1 ELSE Base * b[k - 1]
    BY <1>3
  <2> QED
    BY <2>1, <2>2
<1>5. Fills(c)
  <2> HIDE DEF Fills
  <2> QED
    BY <1>4
<1>6. Below(w) = c[w]
  BY DEF Below
<1> HIDE DEF c
<1>7. DOMAIN c = 0 .. w /\ c[0] = 1 /\ \A k \in 1 .. w : c[k] = Base * c[k - 1]
  BY <1>5
<1> DEFINE T == {k \in Nat : k <= w => c[k] = b[k]}
<1>8. 0 \in T
  BY <1>3, <1>7
<1>9. ASSUME NEW k \in Nat, k \in T PROVE k + 1 \in T
  <2>1. SUFFICES ASSUME k + 1 <= w PROVE c[k + 1] = b[k + 1]
    OBVIOUS
  <2>2. c[k] = b[k] /\ k + 1 \in 1 .. w /\ (k + 1) - 1 = k
    BY <1>9, <2>1
  <2> QED
    BY <1>3, <1>7, <2>2
<1>10. w \in T
  <2> HIDE DEF T
  <2> QED
    BY <1>8, <1>9, AllNumbers
<1> QED
  BY <1>2, <1>6, <1>10

(* Below, one byte at a time.                                              *)
LEMMA BelowStep ==
  ASSUME NEW w \in Nat
  PROVE  Below(w) \in Nat /\ Below(0) = 1 /\ Below(w + 1) = Base * Below(w)
<1>1. Times \in Steppers(Nat)
  BY FormatAssumption DEF Times, Steppers
<1>2. PICK b : Steps(b, Nat, 1, Times, w) /\ Below(w) = b[w]
  BY Powers
<1>3. PICK c : Steps(c, Nat, 1, Times, w + 1) /\ Below(w + 1) = c[w + 1]
  BY Powers
<1>4. PICK z : Steps(z, Nat, 1, Times, 0) /\ Below(0) = z[0]
  BY Powers
<1>5. b[w] = c[w] /\ b[w] \in Nat
  <2>1. w <= w + 1 /\ w + 1 \in Nat /\ w \in 0 .. w
    OBVIOUS
  <2>2. b[w] = c[w]
    BY <1>1, <1>2, <1>3, <2>1, StepsAgree
  <2> QED
    BY <1>2, <2>1, <2>2 DEF Steps
<1>6. c[w + 1] = Base * c[w]
  <2>1. w + 1 \in 1 .. (w + 1) /\ (w + 1) - 1 = w /\ w + 1 \in Nat
    OBVIOUS
  <2>2. c[w + 1] = Times[w + 1][c[w]]
    BY <1>3, <2>1 DEF Steps
  <2> QED
    BY <1>5, <2>1, <2>2 DEF Times
<1> QED
  BY <1>2, <1>3, <1>4, <1>5, <1>6 DEF Steps

(* More bytes hold more numbers.                                           *)
LEMMA BelowGrows ==
  ASSUME NEW v \in Nat, NEW w \in Nat, v <= w
  PROVE  /\ Below(v) \in Nat /\ Below(v) >= 1 /\ Below(v) <= Below(w)
         /\ v >= 1 => Below(v) >= Base
<1> DEFINE T == {k \in Nat : Below(k) >= 1}
           U == {k \in Nat : Below(v) <= Below(v + k)}
<1>1. 0 \in T
  BY BelowStep
<1>2. ASSUME NEW k \in Nat, k \in T PROVE k + 1 \in T
  <2>1. Below(k) \in Nat /\ Below(k + 1) = Base * Below(k) /\ Below(k) >= 1
    BY <1>2, BelowStep
  <2>2. Base * Below(k) >= 1
    BY <2>1, FormatAssumption
  <2> QED
    BY <2>1, <2>2
<1>3. \A k \in Nat : k \in T
  <2> HIDE DEF T
  <2> QED
    BY <1>1, <1>2, AllNumbers
<1>4. \A k \in Nat : Below(k) \in Nat /\ Below(k) >= 1
  BY <1>3, BelowStep
<1>5. \A k \in Nat : Below(k + 1) = Base * Below(k) /\ Below(k + 1) >= Below(k)
                    /\ Below(k + 1) >= Base
  <2>1. SUFFICES ASSUME NEW k \in Nat
                 PROVE  /\ Below(k + 1) = Base * Below(k) /\ Below(k + 1) >= Below(k)
                        /\ Below(k + 1) >= Base
    OBVIOUS
  <2> DEFINE p == Below(k)
  <2>2. p \in Nat /\ p >= 1 /\ Below(k + 1) = Base * p
    BY <1>4, BelowStep
  <2> HIDE DEF p
  <2>3. Base * p >= p /\ Base * p >= Base
    BY <2>2, FormatAssumption
  <2> QED
    BY <2>2, <2>3 DEF p
<1>6. 0 \in U
  BY <1>4
<1>7. ASSUME NEW k \in Nat, k \in U PROVE k + 1 \in U
  <2>1. v + k \in Nat /\ v + (k + 1) = (v + k) + 1
    OBVIOUS
  <2>2. Below((v + k) + 1) >= Below(v + k)
    BY <1>5, <2>1
  <2>3. /\ Below(v) \in Nat /\ Below(v + k) \in Nat /\ Below((v + k) + 1) \in Nat
        /\ Below(v) <= Below(v + k)
    BY <1>4, <1>7, <2>1
  <2> QED
    BY <2>1, <2>2, <2>3
<1>8. w - v \in U
  <2>1. w - v \in Nat
    OBVIOUS
  <2> HIDE DEF U
  <2> QED
    BY <1>6, <1>7, <2>1, AllNumbers
<1>9. v >= 1 => Below(v) >= Base
  <2>1. v >= 1 => v - 1 \in Nat /\ (v - 1) + 1 = v
    OBVIOUS
  <2> QED
    BY <1>5, <2>1
<1>10. v + (w - v) = w
  OBVIOUS
<1> QED
  BY <1>4, <1>8, <1>9, <1>10

(* The range of a byte.                                                    *)
LEMMA ByteAt ==
  ASSUME NEW bs \in Seq(Byte), NEW i \in 1 .. Len(bs)
  PROVE  bs[i] \in Byte /\ bs[i] \in Nat /\ bs[i] < Base
<1>1. bs[i] \in Byte
  OBVIOUS
<1>2. \A b \in Byte : b \in Nat /\ b < Base
  BY FormatAssumption DEF Byte
<1> QED
  BY <1>1, <1>2

(* f[k] is the number of the last k bytes.                                 *)
Adds(bs) == [k \in Nat |-> [v \in Nat |->
              IF k \in 1 .. Len(bs) THEN bs[Len(bs) - k + 1] + Base * v ELSE v]]
Digits(f, bs) ==
  /\ f \in [0 .. Len(bs) -> Nat] /\ f[0] = 0
  /\ \A k \in 1 .. Len(bs) : f[k] = bs[Len(bs) - k + 1] + Base * f[k - 1]
  /\ Number(bs) = f[Len(bs)]

(* The function behind Number.                                             *)
LEMMA Numbered ==
  ASSUME NEW bs \in Seq(Byte)
  PROVE  \E f : Digits(f, bs)
<1> DEFINE w == Len(bs)
           g == Adds(bs)
           Fills(b) == b = [k \in 0 .. w |-> IF k = 0 THEN 0 ELSE bs[w - k + 1] + Base * b[k - 1]]
           c == CHOOSE b : Fills(b)
<1>1. w \in Nat /\ Base \in Nat /\ \A k \in 1 .. w : bs[w - k + 1] \in Nat
  <2>1. \A k \in 1 .. w : w - k + 1 \in 1 .. w
    OBVIOUS
  <2> QED
    BY <2>1, ByteAt, FormatAssumption
<1>2. g \in Steppers(Nat)
  <2>1. ASSUME NEW k \in Nat, NEW v \in Nat
        PROVE  (IF k \in 1 .. w THEN bs[w - k + 1] + Base * v ELSE v) \in Nat
    <3>1. Base * v \in Nat
      BY <1>1
    <3> QED
      BY <1>1, <3>1
  <2> HIDE DEF w
  <2> QED
    BY <2>1 DEF Adds, Steppers, w
<1> HIDE DEF g
<1>3. PICK b : Steps(b, Nat, 0, g, w)
  BY <1>1, <1>2, StepByStep
<1>4. b \in [0 .. w -> Nat] /\ b[0] = 0 /\ \A k \in 1 .. w : b[k] = bs[w - k + 1] + Base * b[k - 1]
  <2>1. ASSUME NEW k \in 1 .. w PROVE b[k] = bs[w - k + 1] + Base * b[k - 1]
    <3>1. b[k - 1] \in Nat /\ k \in Nat /\ b[k] = g[k][b[k - 1]]
      <4> HIDE DEF w
      <4> QED
        BY <1>1, <1>3 DEF Steps
    <3> QED
      BY <3>1 DEF g, Adds
  <2> QED
    BY <1>3, <2>1 DEF Steps
<1>5. Fills(b)
  <2>1. b = [k \in 0 .. w |-> b[k]]
    BY <1>4
  <2>2. \A k \in 0 .. w : b[k] = IF k = 0 THEN 0 ELSE bs[w - k + 1] + Base * b[k - 1]
    BY <1>1, <1>4
  <2> HIDE DEF w
  <2> QED
    BY <2>1, <2>2
<1>6. Fills(c)
  <2> HIDE DEF Fills
  <2> QED
    BY <1>5
<1>7. Number(bs) = c[w]
  BY DEF Number
<1> HIDE DEF c
<1>8. DOMAIN c = 0 .. w /\ c[0] = 0 /\ \A k \in 1 .. w : c[k] = bs[w - k + 1] + Base * c[k - 1]
  <2> HIDE DEF w
  <2> QED
    BY <1>1, <1>6
<1> DEFINE T == {k \in Nat : k <= w => c[k] = b[k]}
<1>9. 0 \in T
  BY <1>4, <1>8
<1>10. ASSUME NEW k \in Nat, k \in T PROVE k + 1 \in T
  <2>1. SUFFICES ASSUME k + 1 <= w PROVE c[k + 1] = b[k + 1]
    OBVIOUS
  <2>2. c[k] = b[k] /\ k + 1 \in 1 .. w /\ (k + 1) - 1 = k
    BY <1>1, <1>10, <2>1
  <2> HIDE DEF w
  <2> QED
    BY <1>4, <1>8, <2>2
<1>11. w \in T
  <2> HIDE DEF T, w
  <2> QED
    BY <1>1, <1>9, <1>10, AllNumbers
<1> QED
  BY <1>4, <1>7, <1>11 DEF Digits

(* A digit in front of a number can be told from it.                       *)
LEMMA DigitSplits ==
  ASSUME NEW b \in Byte, NEW c \in Byte, NEW v \in Nat, NEW w \in Nat,
         b + Base * v = c + Base * w
  PROVE  b = c /\ v = w
<1>1. Base \in Nat /\ b \in Nat /\ c \in Nat /\ b < Base /\ c < Base
  BY FormatAssumption DEF Byte
<1>2. ASSUME v < w PROVE FALSE
  <2>1. Base * w >= Base * (v + 1)
    BY <1>1, <1>2
  <2>2. Base * (v + 1) = Base * v + Base
    BY <1>1
  <2> QED
    BY <1>1, <2>1, <2>2
<1>3. ASSUME w < v PROVE FALSE
  <2>1. Base * v >= Base * (w + 1)
    BY <1>1, <1>3
  <2>2. Base * (w + 1) = Base * w + Base
    BY <1>1
  <2> QED
    BY <1>1, <2>1, <2>2
<1>4. v = w
  BY <1>2, <1>3
<1> QED
  BY <1>1, <1>4

(* A number of w bytes is below Base ^ w.                                  *)
LEMMA NumberRange ==
  ASSUME NEW bs \in Seq(Byte)
  PROVE  Number(bs) \in Nat /\ Number(bs) < Below(Len(bs))
<1> DEFINE w == Len(bs)
<1>1. PICK f : Digits(f, bs)
  BY Numbered
<1> DEFINE T == {k \in Nat : k <= w => f[k] \in Nat /\ f[k] < Below(k)}
<1>2. 0 \in T
  <2>1. f[0] = 0 /\ Below(0) = 1
    BY <1>1, BelowStep DEF Digits
  <2> QED
    BY <2>1
<1>3. ASSUME NEW k \in Nat, k \in T PROVE k + 1 \in T
  <2>1. SUFFICES ASSUME k + 1 <= w PROVE f[k + 1] \in Nat /\ f[k + 1] < Below(k + 1)
    OBVIOUS
  <2> DEFINE v == f[k]
             p == Below(k)
             b == bs[w - (k + 1) + 1]
  <2>2. v \in Nat /\ p \in Nat /\ v < p /\ Below(k + 1) = Base * p
    <3>1. k <= w
      BY <2>1
    <3> HIDE DEF w
    <3> QED
      BY <1>3, <3>1, BelowStep
  <2>3. w - (k + 1) + 1 \in 1 .. w /\ k + 1 \in 1 .. w /\ (k + 1) - 1 = k
    BY <2>1
  <2>4. b \in Nat /\ b < Base /\ Base \in Nat
    BY <2>3, ByteAt, FormatAssumption
  <2>5. f[k + 1] = b + Base * v
    BY <1>1, <2>3 DEF Digits
  <2> HIDE DEF v, p, b
  <2>6. Base * p >= Base * (v + 1)
    BY <2>2, <2>4
  <2>7. Base * (v + 1) = Base * v + Base /\ Base * v \in Nat
    BY <2>2, <2>4
  <2> QED
    BY <2>2, <2>4, <2>5, <2>6, <2>7
<1>4. w \in T
  <2>1. w \in Nat
    OBVIOUS
  <2> HIDE DEF T, w
  <2> QED
    BY <1>2, <1>3, <2>1, AllNumbers
<1> QED
  BY <1>1, <1>4 DEF Digits

(* Different bytes, as many, are different numbers.                        *)
LEMMA NumberTells ==
  ASSUME NEW bs \in Seq(Byte), NEW cs \in Seq(Byte), Len(bs) = Len(cs),
         Number(bs) = Number(cs)
  PROVE  bs = cs
<1> DEFINE w == Len(bs)
<1>1. PICK f : Digits(f, bs)
  BY Numbered
<1>2. PICK h : Digits(h, cs)
  BY Numbered
<1>3. ASSUME NEW k \in 1 .. w, f[k] = h[k]
      PROVE  bs[w - k + 1] = cs[w - k + 1] /\ f[k - 1] = h[k - 1]
  <2>1. /\ f[k] = bs[w - k + 1] + Base * f[k - 1]
        /\ h[k] = cs[w - k + 1] + Base * h[k - 1]
        /\ f[k - 1] \in Nat /\ h[k - 1] \in Nat
    <3>1. k - 1 \in 0 .. w
      OBVIOUS
    <3> HIDE DEF w
    <3> QED
      BY <1>1, <1>2, <3>1 DEF Digits, w
  <2>2. bs[w - k + 1] \in Byte /\ cs[w - k + 1] \in Byte
    <3>1. w - k + 1 \in 1 .. w
      OBVIOUS
    <3> QED
      BY <3>1, ByteAt
  <2> DEFINE b == bs[w - k + 1]
             c == cs[w - k + 1]
             u == f[k - 1]
             v == h[k - 1]
  <2>3. b \in Byte /\ c \in Byte /\ u \in Nat /\ v \in Nat /\ b + Base * u = c + Base * v
    BY <1>3, <2>1, <2>2
  <2> HIDE DEF b, c, u, v
  <2>4. b = c /\ u = v
    BY <2>3, DigitSplits
  <2> QED
    BY <2>4 DEF b, c, u, v
<1> DEFINE T == {j \in Nat : j <= w => f[w - j] = h[w - j]}
<1>4. 0 \in T
  <2>1. f[w] = h[w] /\ w - 0 = w
    <3>1. w \in Nat /\ w = Len(bs) /\ w = Len(cs)
      OBVIOUS
    <3> HIDE DEF w
    <3>2. Number(bs) = f[w] /\ Number(cs) = h[w]
      BY <1>1, <1>2, <3>1 DEF Digits
    <3>3. w - 0 = w
      BY <3>1
    <3>4. f[w] = h[w]
      BY <3>2, Zenon
    <3> QED
      BY <3>3, <3>4
  <2> QED
    BY <2>1
<1>5. ASSUME NEW j \in Nat, j \in T PROVE j + 1 \in T
  <2>1. SUFFICES ASSUME j + 1 <= w PROVE f[w - (j + 1)] = h[w - (j + 1)]
    OBVIOUS
  <2>2. w - j \in 1 .. w /\ f[w - j] = h[w - j] /\ (w - j) - 1 = w - (j + 1)
    BY <1>5, <2>1
  <2> HIDE DEF w
  <2> QED
    BY <1>3, <2>2
<1>6. \A j \in Nat : j \in T
  <2> HIDE DEF T
  <2> QED
    BY <1>4, <1>5, AllNumbers
<1>7. ASSUME NEW i \in 1 .. w PROVE bs[i] = cs[i]
  <2> DEFINE k == w - i + 1
  <2>1. k \in 1 .. w /\ w - k + 1 = i /\ w - (i - 1) = k /\ i - 1 \in Nat /\ i - 1 <= w
    OBVIOUS
  <2>2. f[k] = h[k]
    BY <1>6, <2>1
  <2> HIDE DEF k, w
  <2> QED
    BY <1>3, <2>1, <2>2
<1> QED
  BY <1>7

(* The bytes after a wide prefix.                                          *)
Announced(cs, bs) ==
  /\ cs.form \in 1 .. 3
  /\ bs \in Seq(Byte) /\ Len(bs) = Width[cs.form]
  /\ cs.bytes = <<Prefix(cs.form)>> \o bs
  /\ cs.value = Number(bs)

(* The two kinds of CompactSize.                                           *)
LEMMA SizeKinds ==
  ASSUME NEW cs \in CompactSizes
  PROVE  \/ cs.form = 0 /\ cs.value \in 0 .. (Base - 4) /\ cs.bytes = <<cs.value>>
         \/ \E bs : Announced(cs, bs)
<1>1. CASE cs \in OneByte
  BY <1>1 DEF OneByte
<1>2. ASSUME NEW j \in 1 .. 3, cs \in Wide(j) PROVE \E bs : Announced(cs, bs)
  <2>1. PICK bs \in [1 .. Width[j] -> Byte] :
          cs = [bytes |-> <<Prefix(j)>> \o bs, value |-> Number(bs), form |-> j]
    BY <1>2 DEF Wide
  <2>2. Width[j] \in Nat
    BY FormatAssumption
  <2>3. bs \in Seq(Byte) /\ Len(bs) = Width[j]
    <3> DEFINE w == Width[j]
    <3>1. w \in Nat /\ bs \in [1 .. w -> Byte]
      BY <2>1, <2>2
    <3> HIDE DEF w
    <3>2. bs \in Seq(Byte) /\ Len(bs) = w
      BY <3>1, IsASeq, LenProperties
    <3> QED
      BY <3>2 DEF w
  <2>4. /\ cs.bytes = <<Prefix(j)>> \o bs /\ cs.value = Number(bs) /\ cs.form = j
    BY <2>1
  <2> QED
    BY <2>3, <2>4 DEF Announced
<1> QED
  BY <1>1, <1>2 DEF CompactSizes

(* What is known of a CompactSize without its bytes.                       *)
LEMMA SizeFacts ==
  ASSUME NEW cs \in CompactSizes
  PROVE  /\ cs.bytes \in Seq(Byte) /\ Len(cs.bytes) \in Nat /\ Len(cs.bytes) >= 1
         /\ cs.value \in Nat /\ cs.form \in 0 .. 3
         /\ cs.form = 0 => cs.value < Base - 3 /\ cs.bytes = <<cs.value>>
         /\ cs.form # 0 => cs.value < Below(Width[cs.form])
<1>1. CASE cs.form = 0 /\ cs.value \in 0 .. (Base - 4) /\ cs.bytes = <<cs.value>>
  <2>1. cs.value \in Byte
    BY <1>1, FormatAssumption DEF Byte
  <2>2. cs.bytes \in Seq(Byte) /\ Len(cs.bytes) = 1
    BY <1>1, <2>1
  <2> QED
    BY <1>1, <2>2, FormatAssumption
<1>2. ASSUME NEW bs, Announced(cs, bs)
      PROVE  /\ cs.bytes \in Seq(Byte) /\ Len(cs.bytes) \in Nat /\ Len(cs.bytes) >= 1
             /\ cs.value \in Nat /\ cs.form \in 1 .. 3
             /\ cs.value < Below(Width[cs.form])
  <2>1. cs.form \in 1 .. 3 /\ bs \in Seq(Byte) /\ Len(bs) = Width[cs.form]
        /\ cs.bytes = <<Prefix(cs.form)>> \o bs /\ cs.value = Number(bs)
    BY <1>2 DEF Announced
  <2>2. Prefix(cs.form) \in Byte
    <3>1. Base \in Nat /\ Base >= 5 /\ cs.form \in 1 .. 3
      BY <2>1, FormatAssumption
    <3> QED
      BY <3>1 DEF Prefix, Byte
  <2>3. cs.bytes \in Seq(Byte) /\ Len(cs.bytes) = 1 + Len(bs) /\ Len(bs) \in Nat
    BY <2>1, <2>2
  <2>4. cs.value \in Nat /\ cs.value < Below(Width[cs.form])
    BY <2>1, NumberRange
  <2> QED
    BY <2>1, <2>3, <2>4
<1>3. CASE \E bs : Announced(cs, bs)
  BY <1>2, <1>3
<1> QED
  BY <1>1, <1>3, SizeKinds

(* The widths are positive and grow, so do the numbers they hold.          *)
LEMMA Widths ==
  /\ Below(Width[1]) \in Nat /\ Below(Width[2]) \in Nat /\ Below(Width[3]) \in Nat
  /\ Base <= Below(Width[1]) /\ Below(Width[1]) <= Below(Width[2])
  /\ Below(Width[2]) <= Below(Width[3])
<1>1. Width[1] \in Nat /\ Width[2] \in Nat /\ Width[3] \in Nat /\ Width[1] >= 1
      /\ Width[1] <= Width[2] /\ Width[2] <= Width[3]
  BY FormatAssumption
<1> QED
  BY <1>1, BelowGrows

(* A value has one canonical CompactSize: the ranges of the four forms do  *)
(* not overlap, and in one form the bytes can be told from the number.     *)
LEMMA CanonicalOnce ==
  ASSUME NEW cs \in CompactSizes, NEW ds \in CompactSizes,
         Canonical(cs), Canonical(ds), cs.value = ds.value
  PROVE  cs.bytes = ds.bytes
<1>1. ASSUME NEW es \in CompactSizes, Canonical(es)
      PROVE  /\ es.value \in Nat /\ es.form \in {0, 1, 2, 3}
             /\ es.form = 0 => es.value < Base - 3
             /\ es.form = 1 => es.value >= Base - 3 /\ es.value < Below(Width[1])
             /\ es.form = 2 => es.value >= Below(Width[1]) /\ es.value < Below(Width[2])
             /\ es.form = 3 => es.value >= Below(Width[2])
  <2>1. es.value >= Minimum(es.form)
    BY <1>1 DEF Canonical
  <2>2. /\ es.form = 1 => Minimum(es.form) = Base - 3
        /\ es.form = 2 => Minimum(es.form) = Below(Width[1])
        /\ es.form = 3 => Minimum(es.form) = Below(Width[2])
    BY DEF Minimum
  <2> QED
    BY <2>1, <2>2, SizeFacts
<1>2. cs.form = ds.form
  <2>1. Base \in Nat
    BY FormatAssumption
  <2> QED
    BY <1>1, <2>1, Widths
<1>3. CASE cs.form = 0
  BY <1>2, <1>3, SizeFacts
<1>4. CASE cs.form # 0
  <2>1. PICK bs : Announced(cs, bs)
    BY <1>4, SizeKinds
  <2>2. PICK es : Announced(ds, es)
    BY <1>2, <1>4, SizeKinds
  <2>3. bs \in Seq(Byte) /\ es \in Seq(Byte) /\ Len(bs) = Len(es) /\ Number(bs) = Number(es)
    BY <1>2, <2>1, <2>2 DEF Announced
  <2>4. bs = es
    BY <2>3, NumberTells
  <2> QED
    BY <1>2, <2>1, <2>2, <2>4 DEF Announced
<1> QED
  BY <1>3, <1>4

(* A canonical CompactSize is what the wire format writes for its value.   *)
LEMMA EncOf ==
  ASSUME NEW cs \in CompactSizes, Canonical(cs)
  PROVE  Enc(cs.value) = cs.bytes
<1> DEFINE P(ds) == ds.value = cs.value /\ Canonical(ds)
           e == CHOOSE ds \in CompactSizes : P(ds)
<1>1. e \in CompactSizes /\ P(e)
  OBVIOUS
<1>2. Enc(cs.value) = e.bytes
  BY DEF Enc
<1> HIDE DEF e
<1> QED
  BY <1>1, <1>2, CanonicalOnce

-----------------------------------------------------------------------------
(* The parts of a serialization.                                           *)

(* Lengths and counts that a canonical CompactSize announces.              *)
Sizes == {cs.value : cs \in {c \in CompactSizes : Canonical(c)}}

InBytes(is)   == FlattenSeq([k \in DOMAIN is |-> InputOf(is[k])])
OutBytes(os)  == FlattenSeq([k \in DOMAIN os |-> OutputOf(os[k])])
BlobBytes(w)  == FlattenSeq([k \in DOMAIN w |-> Blob(w[k])])
WitBytes(ws)  == FlattenSeq([k \in DOMAIN ws |-> ItemsOf(ws[k])])

(* A run of zeros.                                                         *)
LEMMA ZerosRun ==
  ASSUME NEW n \in Nat
  PROVE  Zeros(n) \in Seq(Byte) /\ Len(Zeros(n)) = n
<1>1. 0 \in Byte
  BY FormatAssumption DEF Byte
<1>2. Zeros(n) \in [1 .. n -> Byte]
  BY <1>1 DEF Zeros
<1> QED
  BY <1>2

(* The encoding of a size is bytes.                                        *)
LEMMA EncBytes ==
  ASSUME NEW n \in Sizes
  PROVE  /\ n \in Nat /\ Enc(n) \in Seq(Byte) /\ Len(Enc(n)) >= 1
         /\ \E cs \in CompactSizes : Canonical(cs) /\ cs.value = n /\ cs.bytes = Enc(n)
<1>1. PICK cs \in CompactSizes : Canonical(cs) /\ cs.value = n
  BY DEF Sizes
<1>2. Enc(n) = cs.bytes
  BY <1>1, EncOf
<1> QED
  BY <1>1, <1>2, SizeFacts

(* A byte below the prefixes is a size, encoded as it is.                  *)
LEMMA SmallSize ==
  ASSUME NEW b \in 0 .. (Base - 4)
  PROVE  b \in Sizes /\ Enc(b) = <<b>>
<1> DEFINE cs == [bytes |-> <<b>>, value |-> b, form |-> 0]
<1>1. cs \in CompactSizes /\ cs.value = b /\ cs.bytes = <<b>> /\ cs.form = 0
  BY DEF CompactSizes, OneByte
<1> HIDE DEF cs
<1>2. Canonical(cs)
  BY <1>1, FormatAssumption DEF Canonical, Minimum
<1> QED
  BY <1>1, <1>2, EncOf DEF Sizes

(* Two byte strings joined.                                                *)
LEMMA Cat ==
  ASSUME NEW u \in Seq(Byte), NEW v \in Seq(Byte)
  PROVE  /\ u \o v \in Seq(Byte) /\ Len(u \o v) = Len(u) + Len(v)
         /\ Len(u) \in Nat /\ Len(v) \in Nat
  OBVIOUS

(* Three byte strings joined, in either order.                             *)
LEMMA Assoc ==
  ASSUME NEW u \in Seq(Byte), NEW v \in Seq(Byte), NEW w \in Seq(Byte)
  PROVE  v \o w \in Seq(Byte) /\ u \o v \o w = u \o (v \o w)
  OBVIOUS

(* A blob, an input and an output are bytes, as many as their parts.       *)
LEMMA BlobBytesOf ==
  ASSUME NEW n \in Sizes
  PROVE  /\ Blob(n) \in Seq(Byte) /\ InputOf(n) \in Seq(Byte) /\ OutputOf(n) \in Seq(Byte)
         /\ Len(Blob(n)) = Len(Enc(n)) + n
         /\ Len(InputOf(n)) = OutpointSize + Len(Enc(n)) + n + SequenceSize
         /\ Len(OutputOf(n)) = AmountSize + Len(Enc(n)) + n
<1>1. Enc(n) \in Seq(Byte) /\ n \in Nat
  BY EncBytes
<1>2. OutpointSize \in Nat /\ SequenceSize \in Nat /\ AmountSize \in Nat
  BY FormatAssumption
<1> DEFINE z == Zeros(n)
           o == Zeros(OutpointSize)
           q == Zeros(SequenceSize)
           a == Zeros(AmountSize)
           e == Enc(n)
<1>3. /\ z \in Seq(Byte) /\ o \in Seq(Byte) /\ q \in Seq(Byte) /\ a \in Seq(Byte)
      /\ Len(z) = n /\ Len(o) = OutpointSize /\ Len(q) = SequenceSize /\ Len(a) = AmountSize
  BY <1>1, <1>2, ZerosRun
<1>4. Blob(n) = e \o z /\ InputOf(n) = o \o (e \o z) \o q /\ OutputOf(n) = a \o (e \o z)
  BY DEF Blob, InputOf, OutputOf
<1> HIDE DEF z, o, q, a, e
<1>5. e \in Seq(Byte)
  BY <1>1 DEF e
<1>6. /\ e \o z \in Seq(Byte) /\ o \o (e \o z) \o q \in Seq(Byte) /\ a \o (e \o z) \in Seq(Byte)
      /\ Len(e \o z) = Len(e) + n
      /\ Len(o \o (e \o z) \o q) = OutpointSize + Len(e) + n + SequenceSize
      /\ Len(a \o (e \o z)) = AmountSize + Len(e) + n
  <2>1. e \o z \in Seq(Byte) /\ Len(e \o z) = Len(e) + n
    BY <1>3, <1>5, Cat
  <2> DEFINE y == e \o z
             r == o \o y
  <2>2. y \in Seq(Byte) /\ Len(y) = Len(e) + n
    BY <2>1
  <2> HIDE DEF y
  <2>3. r \in Seq(Byte) /\ Len(r) = OutpointSize + Len(y)
    BY <1>3, <2>2, Cat
  <2>4. a \o y \in Seq(Byte) /\ Len(a \o y) = AmountSize + Len(y)
    BY <1>3, <2>2, Cat
  <2> HIDE DEF r
  <2>6. r \o q \in Seq(Byte) /\ Len(r \o q) = OutpointSize + Len(y) + SequenceSize
    BY <1>3, <2>3, Cat
  <2>5. Len(e) \in Nat
    BY <1>5
  <2> QED
    BY <1>1, <1>2, <2>2, <2>4, <2>5, <2>6 DEF r, y
<1> QED
  BY <1>4, <1>6 DEF e

(* The encodings of the elements of a list, one after the other.           *)
Joined(F, s) == FlattenSeq([k \in DOMAIN s |-> F[s[k]]])

(* One element more, its bytes at the end.                                 *)
LEMMA JoinedAppend ==
  ASSUME NEW D, NEW F \in [D -> Seq(Byte)], NEW s \in Seq(D), NEW x \in D
  PROVE  /\ Joined(F, s) \in Seq(Byte)
         /\ Joined(F, Append(s, x)) = Joined(F, s) \o F[x]
<1> DEFINE B == Seq(Byte)
           m == [k \in DOMAIN s |-> F[s[k]]]
           t == Append(s, x)
           u == [k \in DOMAIN t |-> F[t[k]]]
           n == Len(s)
<1>1. n \in Nat /\ DOMAIN s = 1 .. n /\ DOMAIN t = 1 .. (n + 1) /\ t[n + 1] = x
      /\ (\A k \in 1 .. n : t[k] = s[k]) /\ \A k \in 1 .. n : s[k] \in D
  OBVIOUS
<1> HIDE DEF n, t, B
<1>2. F \in [D -> B]
  BY DEF B
<1>3. m \in [1 .. n -> B]
  BY <1>1, <1>2
<1>4. m \in Seq(B) /\ Len(m) = n
  <2> HIDE DEF m
  <2> QED
    BY <1>1, <1>3
<1>5. F[x] \in B
  BY <1>2
<1>6. u = Append(m, F[x])
  <2> DEFINE v == F[x]
  <2>1. u = [k \in 1 .. (n + 1) |-> F[t[k]]]
    BY <1>1
  <2>2. \A k \in 1 .. (n + 1) : u[k] = IF k = n + 1 THEN v ELSE m[k]
    <3>1. \A k \in 1 .. n : u[k] = m[k]
      BY <1>1
    <3>2. u[n + 1] = v
      BY <1>1
    <3> QED
      BY <1>1, <3>1, <3>2
  <2>3. DOMAIN u = 1 .. (n + 1)
    BY <1>1
  <2> HIDE DEF u, m, v
  <2>4. v \in B /\ \A k \in 1 .. n : m[k] \in B
    BY <1>3, <1>5 DEF v
  <2>5. u \in Seq(B) /\ Len(u) = n + 1
    <3>1. \A k \in 1 .. (n + 1) : u[k] \in B
      BY <1>1, <2>2, <2>4
    <3>2. u \in [1 .. (n + 1) -> B]
      BY <2>1, <3>1 DEF u
    <3> QED
      BY <1>1, <3>2
  <2>6. Append(m, v) \in Seq(B) /\ Len(Append(m, v)) = n + 1
        /\ Append(m, v)[n + 1] = v /\ \A k \in 1 .. n : Append(m, v)[k] = m[k]
    BY <1>4, <2>4, AppendProperties
  <2>7. \A k \in 1 .. (n + 1) : u[k] = Append(m, v)[k]
    BY <1>1, <2>2, <2>6
  <2> QED
    BY <2>5, <2>6, <2>7, SeqEqual DEF v
<1>7. Joined(F, s) = FlattenSeq(m) /\ Joined(F, t) = FlattenSeq(u)
  BY DEF Joined, m, u
<1> HIDE DEF m, u
<1>8. FlattenSeq(m) \in B /\ FlattenSeq(Append(m, F[x])) = FlattenSeq(m) \o F[x]
  BY <1>4, <1>5, FlattenAppend DEF B
<1> QED
  BY <1>6, <1>7, <1>8 DEF B, t

(* The lists of a transaction grow element by element.                     *)
InputFn  == [n \in Sizes |-> InputOf(n)]
OutputFn == [n \in Sizes |-> OutputOf(n)]
BlobFn   == [n \in Sizes |-> Blob(n)]

(* The elements of the three lists are byte strings.                       *)
LEMMA FnTypes ==
  /\ InputFn \in [Sizes -> Seq(Byte)]
  /\ OutputFn \in [Sizes -> Seq(Byte)]
  /\ BlobFn \in [Sizes -> Seq(Byte)]
BY BlobBytesOf DEF InputFn, OutputFn, BlobFn

(* The three lists of sizes are written element by element.                *)
LEMMA AreJoined ==
  ASSUME NEW s \in Seq(Sizes)
  PROVE  /\ InBytes(s) = Joined(InputFn, s) /\ OutBytes(s) = Joined(OutputFn, s)
         /\ BlobBytes(s) = Joined(BlobFn, s)
<1>1. \A k \in DOMAIN s : s[k] \in Sizes
  OBVIOUS
<1>2. /\ [k \in DOMAIN s |-> InputOf(s[k])] = [k \in DOMAIN s |-> InputFn[s[k]]]
      /\ [k \in DOMAIN s |-> OutputOf(s[k])] = [k \in DOMAIN s |-> OutputFn[s[k]]]
      /\ [k \in DOMAIN s |-> Blob(s[k])] = [k \in DOMAIN s |-> BlobFn[s[k]]]
  BY <1>1 DEF InputFn, OutputFn, BlobFn
<1> QED
  BY <1>2 DEF InBytes, OutBytes, BlobBytes, Joined

(* What one more input, output or witness item adds.                       *)
LEMMA ListsGrow ==
  ASSUME NEW s \in Seq(Sizes), NEW n \in Sizes
  PROVE  /\ InBytes(s) \in Seq(Byte) /\ InBytes(Append(s, n)) = InBytes(s) \o InputOf(n)
         /\ OutBytes(s) \in Seq(Byte) /\ OutBytes(Append(s, n)) = OutBytes(s) \o OutputOf(n)
         /\ BlobBytes(s) \in Seq(Byte) /\ BlobBytes(Append(s, n)) = BlobBytes(s) \o Blob(n)
<1>1. Append(s, n) \in Seq(Sizes)
  OBVIOUS
<1>2. InputFn[n] = InputOf(n) /\ OutputFn[n] = OutputOf(n) /\ BlobFn[n] = Blob(n)
  BY DEF InputFn, OutputFn, BlobFn
<1> DEFINE t == Append(s, n)
<1>3. /\ InBytes(s) = Joined(InputFn, s) /\ InBytes(t) = Joined(InputFn, t)
      /\ OutBytes(s) = Joined(OutputFn, s) /\ OutBytes(t) = Joined(OutputFn, t)
      /\ BlobBytes(s) = Joined(BlobFn, s) /\ BlobBytes(t) = Joined(BlobFn, t)
  BY <1>1, AreJoined
<1>4. Joined(InputFn, s) \in Seq(Byte) /\ Joined(InputFn, t) = Joined(InputFn, s) \o InputFn[n]
  BY FnTypes, JoinedAppend
<1>5. Joined(OutputFn, s) \in Seq(Byte) /\ Joined(OutputFn, t) = Joined(OutputFn, s) \o OutputFn[n]
  BY FnTypes, JoinedAppend
<1>6. Joined(BlobFn, s) \in Seq(Byte) /\ Joined(BlobFn, t) = Joined(BlobFn, s) \o BlobFn[n]
  BY FnTypes, JoinedAppend
<1> HIDE DEF t
<1>7. /\ InBytes(s) \in Seq(Byte) /\ InBytes(t) = InBytes(s) \o InputOf(n)
      /\ OutBytes(s) \in Seq(Byte) /\ OutBytes(t) = OutBytes(s) \o OutputOf(n)
      /\ BlobBytes(s) \in Seq(Byte) /\ BlobBytes(t) = BlobBytes(s) \o Blob(n)
  BY <1>2, <1>3, <1>4, <1>5, <1>6, Zenon
<1> QED
  BY <1>7 DEF t

(* Lists of witness items whose number can be written.                     *)
Stacks  == {w \in Seq(Sizes) : Len(w) \in Sizes}
ItemsFn == [w \in Stacks |-> ItemsOf(w)]

(* A witness stack: the number of its items, then the items.               *)
LEMMA StackBytes ==
  ASSUME NEW w \in Stacks
  PROVE  ItemsOf(w) = Enc(Len(w)) \o BlobBytes(w) /\ ItemsOf(w) \in Seq(Byte)
<1>1. w \in Seq(Sizes) /\ Len(w) \in Sizes
  BY DEF Stacks
<1>2. ItemsOf(w) = Enc(Len(w)) \o BlobBytes(w)
  BY DEF ItemsOf, BlobBytes
<1>3. Enc(Len(w)) \in Seq(Byte)
  BY <1>1, EncBytes
<1>4. 0 \in Sizes
  BY SmallSize, FormatAssumption
<1>5. BlobBytes(w) \in Seq(Byte)
  BY <1>1, <1>4, ListsGrow
<1> QED
  BY <1>2, <1>3, <1>5, Cat

(* What one more stack adds.                                               *)
LEMMA WitnessGrows ==
  ASSUME NEW ws \in Seq(Stacks), NEW w \in Stacks
  PROVE  WitBytes(ws) \in Seq(Byte) /\ WitBytes(Append(ws, w)) = WitBytes(ws) \o ItemsOf(w)
<1>1. ItemsFn \in [Stacks -> Seq(Byte)]
  BY StackBytes DEF ItemsFn
<1>2. ASSUME NEW vs \in Seq(Stacks) PROVE WitBytes(vs) = Joined(ItemsFn, vs)
  <2>1. \A k \in DOMAIN vs : vs[k] \in Stacks
    OBVIOUS
  <2>2. [k \in DOMAIN vs |-> ItemsOf(vs[k])] = [k \in DOMAIN vs |-> ItemsFn[vs[k]]]
    BY <2>1 DEF ItemsFn
  <2> QED
    BY <2>2 DEF WitBytes, Joined
<1> DEFINE t == Append(ws, w)
<1>3. t \in Seq(Stacks)
  OBVIOUS
<1>4. WitBytes(ws) = Joined(ItemsFn, ws) /\ WitBytes(t) = Joined(ItemsFn, t)
  BY <1>2, <1>3
<1>5. Joined(ItemsFn, ws) \in Seq(Byte) /\ Joined(ItemsFn, t) = Joined(ItemsFn, ws) \o ItemsFn[w]
  BY <1>1, JoinedAppend
<1>6. ItemsFn[w] = ItemsOf(w)
  BY DEF ItemsFn
<1> HIDE DEF t
<1>7. WitBytes(ws) \in Seq(Byte) /\ WitBytes(t) = WitBytes(ws) \o ItemsOf(w)
  BY <1>4, <1>5, <1>6, Zenon
<1> QED
  BY <1>7 DEF t

(* Nothing is written for a list with no element.                          *)
LEMMA NoneWritten ==
  /\ InBytes(<<>>) = <<>> /\ OutBytes(<<>>) = <<>>
  /\ BlobBytes(<<>>) = <<>> /\ WitBytes(<<>>) = <<>>
<1>1. FlattenSeq(<<>>) = <<>>
  BY DEF FlattenSeq
<1>2. /\ [k \in DOMAIN <<>> |-> InputOf(<<>>[k])] = <<>>
      /\ [k \in DOMAIN <<>> |-> OutputOf(<<>>[k])] = <<>>
      /\ [k \in DOMAIN <<>> |-> Blob(<<>>[k])] = <<>>
      /\ [k \in DOMAIN <<>> |-> ItemsOf(<<>>[k])] = <<>>
  OBVIOUS
<1> QED
  BY <1>1, <1>2 DEF InBytes, OutBytes, BlobBytes, WitBytes

-----------------------------------------------------------------------------
(* What has been read at each field.                                       *)

Opening(h) == Zeros(VersionSize) \o (IF h THEN <<0, 1>> ELSE <<>>)

(* ... when `count` inputs, outputs or witness items are announced.        *)
InsRead(h, is, count)      == Opening(h) \o Enc(count) \o InBytes(is)
OutsRead(h, is, os, count) == InsRead(h, is, Len(is)) \o Enc(count) \o OutBytes(os)
BodyRead(h, is, os)        == OutsRead(h, is, os, Len(os))
WitsRead(h, is, os, ws)    == BodyRead(h, is, os) \o WitBytes(ws)
ItemsRead(h, is, os, ws, w, count) ==
  WitsRead(h, is, os, ws) \o Enc(count) \o BlobBytes(w)

(* The version, and the two bytes that announce a witness.                 *)
LEMMA OpeningBytes ==
  ASSUME NEW h \in BOOLEAN
  PROVE  /\ Opening(h) \in Seq(Byte)
         /\ Len(Opening(h)) = VersionSize + (IF h THEN 2 ELSE 0)
         /\ Opening(FALSE) = Zeros(VersionSize)
         /\ Opening(TRUE) = Zeros(VersionSize) \o <<0>> \o <<1>>
<1>1. 0 \in Byte /\ 1 \in Byte /\ VersionSize \in Nat
  BY FormatAssumption DEF Byte
<1> DEFINE z == Zeros(VersionSize)
           m == IF h THEN <<0, 1>> ELSE <<>>
<1>2. z \in Seq(Byte) /\ Len(z) = VersionSize
  BY <1>1, ZerosRun
<1>3. m \in Seq(Byte) /\ Len(m) = IF h THEN 2 ELSE 0
  BY <1>1
<1>4. Opening(h) = z \o m /\ Opening(FALSE) = z \o <<>> /\ Opening(TRUE) = z \o <<0, 1>>
  BY DEF Opening
<1> HIDE DEF z, m
<1>5. z \o <<>> = z
  BY <1>2, ConcatEmptySeq
<1>6. z \o <<0, 1>> = z \o <<0>> \o <<1>>
  BY <1>1, <1>2
<1>7. z \o m \in Seq(Byte) /\ Len(z \o m) = Len(z) + Len(m)
  BY <1>2, <1>3, Cat
<1> QED
  BY <1>2, <1>3, <1>4, <1>5, <1>6, <1>7 DEF z

(* What has been read when one more input is.                              *)
LEMMA InsGrow ==
  ASSUME NEW h \in BOOLEAN, NEW is \in Seq(Sizes), NEW c \in Sizes, NEW n \in Sizes
  PROVE  /\ InsRead(h, is, c) \in Seq(Byte)
         /\ InsRead(h, <<>>, c) = Opening(h) \o Enc(c)
         /\ InsRead(h, Append(is, n), c) = InsRead(h, is, c) \o InputOf(n)
<1> DEFINE o == Opening(h)
           e == Enc(c)
           b == InBytes(is)
           x == InputOf(n)
<1>1. o \in Seq(Byte) /\ e \in Seq(Byte) /\ b \in Seq(Byte) /\ x \in Seq(Byte)
  BY OpeningBytes, EncBytes, ListsGrow, BlobBytesOf
<1>2. InBytes(Append(is, n)) = b \o x
  BY ListsGrow
<1>3. /\ InsRead(h, is, c) = o \o e \o b /\ InsRead(h, <<>>, c) = o \o e \o <<>>
      /\ InsRead(h, Append(is, n), c) = o \o e \o (b \o x)
  BY <1>2, NoneWritten DEF InsRead
<1> HIDE DEF o, e, b, x
<1>4. o \o e \o b \in Seq(Byte) /\ o \o e \o <<>> = o \o e
      /\ o \o e \o (b \o x) = o \o e \o b \o x
  BY <1>1
<1> QED
  BY <1>3, <1>4 DEF o, e, x

(* What has been read when one more output is.                             *)
LEMMA OutsGrow ==
  ASSUME NEW h \in BOOLEAN, NEW is \in Seq(Sizes), Len(is) \in Sizes,
         NEW os \in Seq(Sizes), NEW c \in Sizes, NEW n \in Sizes
  PROVE  /\ OutsRead(h, is, os, c) \in Seq(Byte)
         /\ OutsRead(h, is, <<>>, c) = InsRead(h, is, Len(is)) \o Enc(c)
         /\ OutsRead(h, is, Append(os, n), c) = OutsRead(h, is, os, c) \o OutputOf(n)
<1> DEFINE o == InsRead(h, is, Len(is))
           e == Enc(c)
           b == OutBytes(os)
           x == OutputOf(n)
<1>1. o \in Seq(Byte) /\ e \in Seq(Byte) /\ b \in Seq(Byte) /\ x \in Seq(Byte)
  BY InsGrow, EncBytes, ListsGrow, BlobBytesOf
<1>2. OutBytes(Append(os, n)) = b \o x
  BY ListsGrow
<1>3. /\ OutsRead(h, is, os, c) = o \o e \o b /\ OutsRead(h, is, <<>>, c) = o \o e \o <<>>
      /\ OutsRead(h, is, Append(os, n), c) = o \o e \o (b \o x)
  BY <1>2, NoneWritten DEF OutsRead
<1> HIDE DEF o, e, b, x
<1>4. o \o e \o b \in Seq(Byte) /\ o \o e \o <<>> = o \o e
      /\ o \o e \o (b \o x) = o \o e \o b \o x
  BY <1>1
<1> QED
  BY <1>3, <1>4 DEF o, e, x

(* What has been read when one more stack is complete.                     *)
LEMMA WitsGrow ==
  ASSUME NEW h \in BOOLEAN, NEW is \in Seq(Sizes), Len(is) \in Sizes,
         NEW os \in Seq(Sizes), Len(os) \in Sizes, NEW ws \in Seq(Stacks)
  PROVE  /\ BodyRead(h, is, os) \in Seq(Byte)
         /\ WitsRead(h, is, os, ws) \in Seq(Byte)
         /\ WitsRead(h, is, os, <<>>) = BodyRead(h, is, os)
         /\ \A w \in Stacks :
              WitsRead(h, is, os, Append(ws, w)) = ItemsRead(h, is, os, ws, w, Len(w))
<1> DEFINE o == BodyRead(h, is, os)
           b == WitBytes(ws)
<1>0. 0 \in Sizes /\ <<>> \in Stacks
  <2>1. 0 \in Sizes
    BY SmallSize, FormatAssumption
  <2> QED
    BY <2>1 DEF Stacks
<1>1. o \in Seq(Byte) /\ b \in Seq(Byte)
  BY <1>0, OutsGrow, WitnessGrows DEF BodyRead
<1>2. WitsRead(h, is, os, ws) = o \o b /\ WitsRead(h, is, os, <<>>) = o \o <<>>
  BY NoneWritten DEF WitsRead
<1>3. ASSUME NEW w \in Stacks
      PROVE  WitsRead(h, is, os, Append(ws, w)) = ItemsRead(h, is, os, ws, w, Len(w))
  <2> DEFINE e == Enc(Len(w))
             x == BlobBytes(w)
  <2>1. e \in Seq(Byte) /\ x \in Seq(Byte)
    BY <1>0, EncBytes, ListsGrow DEF Stacks
  <2>2. WitsRead(h, is, os, Append(ws, w)) = o \o (b \o (e \o x))
    BY StackBytes, WitnessGrows DEF WitsRead
  <2>3. ItemsRead(h, is, os, ws, w, Len(w)) = o \o b \o e \o x
    BY <1>2 DEF ItemsRead
  <2> HIDE DEF o, b, e, x
  <2>4. o \o (b \o (e \o x)) = o \o b \o e \o x
    <3> DEFINE r == e \o x
               p == o \o b
    <3>1. r \in Seq(Byte) /\ p \in Seq(Byte)
      BY <1>1, <2>1
    <3>2. p \o (e \o x) = p \o e \o x
      <4> HIDE DEF p
      <4> QED
        BY <2>1, <3>1
    <3>3. o \o (b \o r) = o \o b \o r
      <4> HIDE DEF r
      <4> QED
        BY <1>1, <3>1
    <3> QED
      BY <3>2, <3>3
  <2> QED
    BY <2>2, <2>3, <2>4
<1> HIDE DEF o, b
<1>4. o \o b \in Seq(Byte) /\ o \o <<>> = o
  BY <1>1
<1> QED
  BY <1>1, <1>2, <1>3, <1>4 DEF o

(* What has been read when a stack begins.                                 *)
LEMMA ItemsStart ==
  ASSUME NEW h \in BOOLEAN, NEW is \in Seq(Sizes), Len(is) \in Sizes,
         NEW os \in Seq(Sizes), Len(os) \in Sizes, NEW ws \in Seq(Stacks), NEW c \in Sizes
  PROVE  ItemsRead(h, is, os, ws, <<>>, c) = WitsRead(h, is, os, ws) \o Enc(c)
<1> DEFINE o == WitsRead(h, is, os, ws)
           e == Enc(c)
<1>1. o \in Seq(Byte) /\ e \in Seq(Byte)
  BY WitsGrow, EncBytes
<1>2. ItemsRead(h, is, os, ws, <<>>, c) = o \o e \o <<>>
  BY NoneWritten DEF ItemsRead
<1> HIDE DEF o, e
<1>3. o \o e \o <<>> = o \o e
  BY <1>1
<1> QED
  BY <1>2, <1>3 DEF o, e

(* What one more item adds to a stack.                                     *)
LEMMA ItemsGrow ==
  ASSUME NEW o \in Seq(Byte), NEW e \in Seq(Byte), NEW w \in Seq(Sizes), NEW n \in Sizes
  PROVE  o \o e \o BlobBytes(Append(w, n)) = o \o e \o BlobBytes(w) \o Blob(n)
<1> DEFINE b == BlobBytes(w)
           x == Blob(n)
<1>1. b \in Seq(Byte) /\ x \in Seq(Byte)
  BY ListsGrow, BlobBytesOf
<1>2. BlobBytes(Append(w, n)) = b \o x
  BY ListsGrow
<1> HIDE DEF b, x
<1>3. o \o e \o (b \o x) = o \o e \o b \o x
  BY <1>1
<1> QED
  BY <1>2, <1>3 DEF b, x

-----------------------------------------------------------------------------
(* The inductive invariant.                                                *)

BeforeInputs  == {"version", "inputCount", "flag", "witnessInputCount", "checkInputs"}
BeforeOutputs == BeforeInputs \cup {"inputs", "outputCount"}
BeforeWitness == BeforeOutputs \cup {"outputs"}
AfterBody     == {"witness", "items", "locktime", "accepted"}
Fields        == BeforeWitness \cup AfterBody

StateOK ==
  /\ TypeOK
  /\ pc \in Fields \cup {"rejected"}
  /\ ins \in Seq(Sizes) /\ outs \in Seq(Sizes) /\ wits \in Seq(Seq(Sizes))

(* What has been parsed at each field.                                     *)
ListsInv ==
  /\ pc \in BeforeInputs => ins = <<>>
  /\ pc \in BeforeOutputs => outs = <<>>
  /\ pc \in BeforeWitness => wits = <<>>
  /\ pc \in Fields /\ ~hasWitness => wits = <<>>
  /\ pc \in {"version", "inputCount", "flag"} => ~hasWitness
  /\ pc \in {"witnessInputCount", "witness", "items"} => hasWitness
  /\ pc \in AfterBody \cup {"outputs"} /\ hasWitness => ins # <<>>
  /\ pc \in {"witness", "locktime", "accepted"} => wits \in Seq(Stacks)

(* What is left to parse: the announced counts are those of the lists.     *)
CountsInv ==
  /\ pc \in {"flag", "outputCount"} => left = 0
  /\ pc = "checkInputs" => left # 0
  /\ pc \in {"checkInputs", "inputs"} => Len(ins) + left \in Sizes \ {0}
  /\ pc \in {"outputCount", "outputs"} \cup AfterBody => Len(ins) \in Sizes
  /\ pc = "outputCount" => Len(ins) # 0
  /\ pc = "outputs" => Len(outs) + left \in Sizes
  /\ pc \in AfterBody => Len(outs) \in Sizes
  /\ pc = "witness" => Len(wits) + left = Len(ins)
  /\ pc = "items" => left > 0 /\ Len(wits) + left = Len(ins) + 1
  /\ pc \in {"locktime", "accepted"} /\ hasWitness => Len(wits) = Len(ins) /\ ~Superfluous

(* The witness of the input that is being read grows.                      *)
Reading(done, w) ==
  /\ done \in Seq(Stacks) /\ w \in Seq(Sizes)
  /\ wits = Append(done, w) /\ Len(w) + itemsLeft \in Sizes
  /\ raw = ItemsRead(hasWitness, ins, outs, done, w, Len(w) + itemsLeft)

(* What has been read is the serialization so far.                         *)
BytesInv ==
  /\ pc = "version" => raw = <<>>
  /\ pc = "inputCount" => raw = Opening(hasWitness)
  /\ pc = "flag" => raw = Opening(hasWitness) \o <<0>>
  /\ pc = "witnessInputCount" => raw = Opening(hasWitness)
  /\ pc \in {"checkInputs", "inputs"} => raw = InsRead(hasWitness, ins, Len(ins) + left)
  /\ pc = "outputCount" => raw = InsRead(hasWitness, ins, Len(ins))
  /\ pc = "outputs" => raw = OutsRead(hasWitness, ins, outs, Len(outs) + left)
  /\ pc \in {"witness", "locktime"} => raw = WitsRead(hasWitness, ins, outs, wits)
  /\ pc = "items" => \E done, w : Reading(done, w)
  /\ pc = "accepted" =>
       raw = WitsRead(hasWitness, ins, outs, wits) \o Zeros(LocktimeSize) /\ Offset = length

(* The body is between the marks.                                          *)
MarksInv ==
  /\ pc \in Fields \ {"version"} => bodyStart = Len(Opening(hasWitness))
  /\ pc \in AfterBody => bodyEnd = Len(BodyRead(hasWitness, ins, outs))

ReadInv == StateOK /\ ListsInv /\ CountsInv /\ BytesInv /\ MarksInv

(* Before anything is read.                                                *)
Fresh ==
  /\ length \in Nat
  /\ pc = "version" /\ raw = <<>> /\ hasWitness = FALSE
  /\ left = 0 /\ itemsLeft = 0
  /\ ins = <<>> /\ outs = <<>> /\ wits = <<>>
  /\ bodyStart = 0 /\ bodyEnd = 0

(* Nothing has been read at first.                                         *)
LEMMA FreshRead == Fresh => ReadInv
<1>1. ASSUME Fresh PROVE StateOK
  <2>1. length \in Nat
    BY <1>1 DEF Fresh
  <2>2. raw = <<>> /\ ins = <<>> /\ outs = <<>> /\ wits = <<>> /\ Len(raw) = 0
    BY <1>1 DEF Fresh
  <2>3. TypeOK
    <3>1. raw \in Seq(Byte) /\ Len(raw) <= length
      BY <2>1, <2>2
    <3>2. hasWitness = FALSE /\ left = 0 /\ itemsLeft = 0 /\ bodyStart = 0 /\ bodyEnd = 0
      BY <1>1 DEF Fresh
    <3>3. {bodyStart, bodyEnd} \subseteq 0 .. length
      BY <2>1, <3>2
    <3>4. hasWitness \in BOOLEAN /\ left \in Nat /\ itemsLeft \in Nat
      BY <3>2
    <3> QED
      BY <2>1, <3>1, <3>3, <3>4 DEF TypeOK, Offset
  <2>4. pc \in Fields
    BY <1>1 DEF Fresh, Fields, BeforeWitness, BeforeOutputs, BeforeInputs
  <2> QED
    BY <2>2, <2>3, <2>4 DEF StateOK
<1>2. Fresh => ListsInv /\ CountsInv /\ BytesInv /\ MarksInv
  BY DEF Fresh, ListsInv, CountsInv, BytesInv, MarksInv, Fields, BeforeWitness, BeforeOutputs, BeforeInputs,
    AfterBody
<1> QED
  BY <1>1, <1>2 DEF ReadInv

(* Rejecting keeps the state well typed, and there is no more to say.      *)
LEMMA RejectStep ==
  ASSUME StateOK, NEW bs \in Seq(Byte), Reject(bs)
  PROVE  ReadInv'
<1>1. raw \in Seq(Byte) /\ length \in Nat /\ Len(raw) \in Nat /\ Len(bs) \in Nat
      /\ Len(raw) <= length
  BY DEF StateOK, TypeOK, Offset
<1>2. raw' \in Seq(Byte) /\ Len(raw') <= length
  <2>1. CASE Available(Len(bs))
    <3>1. raw' = raw \o bs /\ Len(bs) <= length - Len(raw)
      BY <2>1 DEF Reject, Available, Remaining, Offset
    <3>2. raw' \in Seq(Byte) /\ Len(raw') = Len(raw) + Len(bs)
      BY <1>1, <3>1, Cat
    <3> QED
      BY <1>1, <3>1, <3>2
  <2>2. CASE ~Available(Len(bs))
    <3> DEFINE r == length - Len(raw)
               part == SubSeq(bs, 1, r)
    <3>1. raw' = raw \o part /\ ~(Len(bs) <= r)
      BY <2>2 DEF Reject, Available, Remaining, Offset
    <3>2. r \in Nat /\ r <= Len(bs)
      BY <1>1, <3>1
    <3> HIDE DEF r
    <3>3. part \in Seq(Byte) /\ Len(part) = r
      BY <1>1, <3>2
    <3> HIDE DEF part
    <3>4. raw' \in Seq(Byte) /\ Len(raw') = Len(raw) + r
      BY <1>1, <3>1, <3>3, Cat
    <3> QED
      BY <1>1, <3>4 DEF r
  <2> QED
    BY <2>1, <2>2
<1>3. pc' = "rejected" /\ UNCHANGED <<length, hasWitness, left, itemsLeft, ins, outs, wits, bodyStart, bodyEnd>>
  BY DEF Reject, loopVars, txVars, bodyVars
<1>4. StateOK'
  BY <1>2, <1>3 DEF StateOK, TypeOK, Offset
<1>5. ListsInv' /\ CountsInv' /\ BytesInv' /\ MarksInv'
  BY <1>3 DEF ListsInv, CountsInv, BytesInv, MarksInv, Fields, BeforeWitness, BeforeOutputs, BeforeInputs,
    AfterBody
<1> QED
  BY <1>4, <1>5 DEF ReadInv

(* Reading finds the bytes.                                                *)
LEMMA ReadStep ==
  ASSUME StateOK, NEW bs \in Seq(Byte), NEW to, Read(bs, to)
  PROVE  /\ pc' = to /\ raw' = raw \o bs /\ raw' \in Seq(Byte)
         /\ Len(raw') = Len(raw) + Len(bs) /\ Len(raw') <= length
<1>1. raw \in Seq(Byte) /\ length \in Nat /\ Len(raw) \in Nat /\ Len(bs) \in Nat
  BY DEF StateOK, TypeOK
<1>2. pc' = to /\ raw' = raw \o bs /\ Len(bs) <= length - Len(raw)
  BY DEF Read, Available, Remaining, Offset
<1>3. raw' \in Seq(Byte) /\ Len(raw') = Len(raw) + Len(bs)
  BY <1>1, <1>2, Cat
<1> QED
  BY <1>1, <1>2, <1>3

(* The fixed fields and the flag.                                          *)
LEMMA VersionStep ==
  ASSUME ReadInv, ReadVersion
  PROVE  ReadInv'
<1> DEFINE z == Zeros(VersionSize)
<1>1. StateOK /\ pc = "version" /\ raw = <<>> /\ ~hasWitness
      /\ ins = <<>> /\ outs = <<>> /\ wits = <<>>
  BY DEF ReadInv, ReadVersion, ListsInv, BytesInv, BeforeWitness, BeforeOutputs, BeforeInputs
<1>2. VersionSize \in Nat /\ z \in Seq(Byte) /\ Len(z) = VersionSize
  BY FormatAssumption, ZerosRun
<1>3. CASE Truncated(z)
  BY <1>1, <1>2, <1>3, RejectStep DEF Truncated
<1>4. CASE /\ Read(z, "inputCount") /\ bodyStart' = VersionSize
           /\ UNCHANGED <<length, hasWitness, loopVars, txVars, bodyEnd>>
  <2>1. /\ pc' = "inputCount" /\ raw' = raw \o z /\ raw' \in Seq(Byte)
        /\ Len(raw') = Len(raw) + Len(z) /\ Len(raw') <= length
    BY <1>1, <1>2, <1>4, ReadStep
  <2>2. UNCHANGED <<length, hasWitness, left, itemsLeft, ins, outs, wits, bodyEnd>>
        /\ bodyStart' = VersionSize
    BY <1>4 DEF loopVars, txVars
  <2>3. raw' = z /\ bodyStart' = Len(raw')
    BY <1>1, <1>2, <2>1, <2>2
  <2>4. Opening(hasWitness') = z
    <3>1. hasWitness' = FALSE
      BY <1>1, <2>2 DEF StateOK, TypeOK
    <3> QED
      BY <3>1, OpeningBytes
  <2>5. StateOK'
    BY <1>1, <1>2, <2>1, <2>2, <2>3
    DEF StateOK, TypeOK, Offset, Fields, BeforeWitness, BeforeOutputs, BeforeInputs
  <2>6. ListsInv' /\ CountsInv'
    BY <1>1, <2>1, <2>2 DEF ListsInv, CountsInv, AfterBody
  <2>7. BytesInv' /\ MarksInv'
    BY <1>2, <2>1, <2>2, <2>3, <2>4 DEF BytesInv, MarksInv, AfterBody
  <2> QED
    BY <2>5, <2>6, <2>7 DEF ReadInv
<1> QED
  BY <1>3, <1>4 DEF ReadVersion

(* A canonical CompactSize announces a size.                               *)
LEMMA CanonicalSize ==
  ASSUME NEW cs \in CompactSizes, Canonical(cs)
  PROVE  cs.value \in Sizes /\ cs.value \in Nat /\ Enc(cs.value) = cs.bytes
         /\ cs.bytes \in Seq(Byte)
BY EncOf, SizeFacts DEF Sizes

(* The first count: 0 leads to the flag, another to the inputs.            *)
LEMMA InputCountStep ==
  ASSUME ReadInv, ReadInputCount
  PROVE  ReadInv'
<1>1. StateOK /\ pc = "inputCount" /\ raw = Opening(hasWitness) /\ ~hasWitness
      /\ ins = <<>> /\ outs = <<>> /\ wits = <<>> /\ bodyStart = Len(Opening(hasWitness))
  BY DEF ReadInv, ReadInputCount, ListsInv, BytesInv, MarksInv, Fields, BeforeWitness,
    BeforeOutputs, BeforeInputs
<1>2. PICK cs \in CompactSizes :
        \/ ~Reads(cs) /\ Reject(cs.bytes)
        \/ /\ Reads(cs)
           /\ Read(cs.bytes, IF cs.value = 0 THEN "flag" ELSE "checkInputs")
           /\ left' = cs.value
           /\ UNCHANGED <<length, hasWitness, itemsLeft, txVars, bodyVars>>
  BY DEF ReadInputCount
<1>3. cs.bytes \in Seq(Byte)
  BY SizeFacts
<1>4. CASE ~Reads(cs) /\ Reject(cs.bytes)
  BY <1>1, <1>3, <1>4, RejectStep
<1>5. CASE Reads(cs) /\ ~(~Reads(cs) /\ Reject(cs.bytes))
  <2>1. /\ pc' = (IF cs.value = 0 THEN "flag" ELSE "checkInputs")
        /\ raw' = raw \o cs.bytes /\ raw' \in Seq(Byte) /\ Len(raw') <= length
    BY <1>1, <1>2, <1>3, <1>5, ReadStep
  <2>2. UNCHANGED <<length, hasWitness, itemsLeft, ins, outs, wits, bodyStart, bodyEnd>>
        /\ left' = cs.value
    BY <1>2, <1>5 DEF txVars, bodyVars
  <2>3. cs.value \in Sizes /\ cs.value \in Nat /\ Enc(cs.value) = cs.bytes
    BY <1>5, CanonicalSize DEF Reads
  <2>4. StateOK'
    BY <1>1, <2>1, <2>2, <2>3
    DEF StateOK, TypeOK, Offset, Fields, BeforeWitness, BeforeOutputs, BeforeInputs
  <2>5. Len(ins') = 0
    BY <1>1, <2>2
  <2>6. ListsInv' /\ CountsInv'
    BY <1>1, <2>1, <2>2, <2>3, <2>5 DEF ListsInv, CountsInv, AfterBody
  <2>7. MarksInv'
    BY <1>1, <2>1, <2>2 DEF MarksInv, AfterBody
  <2>8. cs.value = 0 => cs.bytes = <<0>>
    BY <2>3, SmallSize, FormatAssumption
  <2>9. InsRead(hasWitness', ins', Len(ins') + left') = Opening(hasWitness') \o Enc(cs.value)
    <3>1. Len(ins') + left' = cs.value /\ hasWitness \in BOOLEAN
      BY <1>1, <2>2, <2>3, <2>5 DEF StateOK, TypeOK
    <3>2. ins' = <<>> /\ hasWitness' = hasWitness /\ <<>> \in Seq(Sizes)
      BY <1>1, <2>2
    <3> QED
      BY <2>3, <3>1, <3>2, InsGrow
  <2>10. BytesInv'
    BY <1>1, <2>1, <2>2, <2>3, <2>8, <2>9 DEF BytesInv
  <2> QED
    BY <2>4, <2>6, <2>7, <2>10 DEF ReadInv
<1> QED
  BY <1>2, <1>4, <1>5

(* The flag: a witness, or a transaction of no input.                      *)
LEMMA FlagStep ==
  ASSUME ReadInv, ReadFlag
  PROVE  ReadInv'
<1>1. StateOK /\ pc = "flag" /\ raw = Opening(hasWitness) \o <<0>> /\ hasWitness = FALSE
      /\ ins = <<>> /\ outs = <<>> /\ wits = <<>> /\ bodyStart = Len(Opening(hasWitness))
      /\ left = 0
  BY DEF ReadInv, ReadFlag, ListsInv, CountsInv, BytesInv, MarksInv, Fields, BeforeWitness,
    BeforeOutputs, BeforeInputs, StateOK, TypeOK
<1>2. Byte = 0 .. (Base - 1) /\ Base \in Nat /\ Base >= 5 /\ VersionSize \in Nat
  BY FormatAssumption DEF Byte
<1>3. \A b \in Byte : <<b>> \in Seq(Byte) /\ Len(<<b>>) = 1
  OBVIOUS
<1>4. 0 \in Byte /\ 1 \in Byte
  BY <1>2
<1> DEFINE z == Zeros(VersionSize)
<1>5. z \in Seq(Byte) /\ Len(z) = VersionSize /\ Opening(FALSE) = z
      /\ Opening(TRUE) = z \o <<0>> \o <<1>> /\ Len(Opening(TRUE)) = VersionSize + 2
      /\ Opening(TRUE) \in Seq(Byte)
  BY <1>2, ZerosRun, OpeningBytes
<1> HIDE DEF z
<1>6. Len(raw) = VersionSize + 1
  BY <1>1, <1>3, <1>4, <1>5, Cat
<1>7. CASE Truncated(<<0>>)
  BY <1>1, <1>3, <1>4, <1>7, RejectStep DEF Truncated
<1>8. CASE \E b \in Byte \ {0, 1} : Reject(<<b>>)
  BY <1>1, <1>3, <1>8, RejectStep
<1>9. CASE /\ Read(<<0>>, "outputs")
           /\ UNCHANGED <<length, hasWitness, loopVars, txVars, bodyVars>>
  <2>1. /\ pc' = "outputs" /\ raw' = raw \o <<0>> /\ raw' \in Seq(Byte) /\ Len(raw') <= length
    BY <1>1, <1>3, <1>4, <1>9, ReadStep
  <2>2. UNCHANGED <<length, hasWitness, left, itemsLeft, ins, outs, wits, bodyStart, bodyEnd>>
    BY <1>9 DEF loopVars, txVars, bodyVars
  <2>3. 0 \in Sizes /\ Enc(0) = <<0>>
    BY <1>2, SmallSize
  <2>4. StateOK'
    BY <1>1, <2>1, <2>2 DEF StateOK, TypeOK, Offset, Fields, BeforeWitness
  <2>5. Len(ins') = 0 /\ Len(outs') = 0 /\ Len(outs') + left' = 0
    BY <1>1, <2>2
  <2>6. ListsInv' /\ CountsInv'
    BY <1>1, <2>1, <2>2, <2>3, <2>5
    DEF ListsInv, CountsInv, AfterBody, BeforeWitness, BeforeOutputs, BeforeInputs
  <2>7. MarksInv'
    BY <1>1, <2>1, <2>2 DEF MarksInv, AfterBody
  <2>8. OutsRead(FALSE, <<>>, <<>>, 0) = raw'
    <3>1. <<>> \in Seq(Sizes) /\ Len(<<>>) = 0
      OBVIOUS
    <3>2. OutsRead(FALSE, <<>>, <<>>, 0) = InsRead(FALSE, <<>>, 0) \o Enc(0)
      BY <2>3, <3>1, OutsGrow
    <3>3. InsRead(FALSE, <<>>, 0) = Opening(FALSE) \o Enc(0)
      BY <2>3, <3>1, InsGrow
    <3> QED
      BY <1>1, <2>1, <2>3, <3>2, <3>3
  <2>9. BytesInv'
    BY <1>1, <2>1, <2>2, <2>5, <2>8 DEF BytesInv
  <2> QED
    BY <2>4, <2>6, <2>7, <2>9 DEF ReadInv
<1>10. CASE /\ Read(<<1>>, "witnessInputCount") /\ hasWitness' = TRUE
            /\ bodyStart' = BodyAfterFlag
            /\ UNCHANGED <<length, loopVars, txVars, bodyEnd>>
  <2>1. /\ pc' = "witnessInputCount" /\ raw' = raw \o <<1>> /\ raw' \in Seq(Byte)
        /\ Len(raw') = Len(raw) + 1 /\ Len(raw') <= length
    BY <1>1, <1>3, <1>4, <1>10, ReadStep
  <2>2. UNCHANGED <<length, left, itemsLeft, ins, outs, wits, bodyEnd>>
        /\ hasWitness' = TRUE /\ bodyStart' = Len(raw')
    BY <1>6, <1>10, <2>1 DEF loopVars, txVars, BodyAfterFlag, Offset
  <2>3. StateOK'
    BY <1>1, <1>2, <1>6, <2>1, <2>2
    DEF StateOK, TypeOK, Offset, Fields, BeforeWitness, BeforeOutputs, BeforeInputs
  <2>4. ListsInv' /\ CountsInv'
    BY <1>1, <2>1, <2>2 DEF ListsInv, CountsInv, AfterBody
  <2>5. raw' = Opening(TRUE)
    BY <1>1, <1>5, <2>1
  <2>6. BytesInv' /\ MarksInv'
    BY <2>1, <2>2, <2>5 DEF BytesInv, MarksInv, AfterBody
  <2> QED
    BY <2>3, <2>4, <2>6 DEF ReadInv
<1> QED
  BY <1>7, <1>8, <1>9, <1>10 DEF ReadFlag

(* The count after the flag.                                               *)
LEMMA WitnessInputCountStep ==
  ASSUME ReadInv, ReadWitnessInputCount
  PROVE  ReadInv'
<1>1. StateOK /\ pc = "witnessInputCount" /\ raw = Opening(hasWitness) /\ hasWitness
      /\ ins = <<>> /\ outs = <<>> /\ wits = <<>> /\ bodyStart = Len(Opening(hasWitness))
  BY DEF ReadInv, ReadWitnessInputCount, ListsInv, BytesInv, MarksInv, Fields, BeforeWitness,
    BeforeOutputs, BeforeInputs
<1>2. PICK cs \in CompactSizes :
        \/ (~Reads(cs) \/ cs.value = 0) /\ Reject(cs.bytes)
        \/ /\ Reads(cs) /\ cs.value # 0
           /\ Read(cs.bytes, "checkInputs")
           /\ left' = cs.value
           /\ UNCHANGED <<length, hasWitness, itemsLeft, txVars, bodyVars>>
  BY DEF ReadWitnessInputCount
<1>3. cs.bytes \in Seq(Byte)
  BY SizeFacts
<1>4. CASE Reject(cs.bytes)
  BY <1>1, <1>3, <1>4, RejectStep
<1>5. CASE ~Reject(cs.bytes)
  <2>1. /\ pc' = "checkInputs"
        /\ raw' = raw \o cs.bytes /\ raw' \in Seq(Byte) /\ Len(raw') <= length
    BY <1>1, <1>2, <1>3, <1>5, ReadStep
  <2>2. UNCHANGED <<length, hasWitness, itemsLeft, ins, outs, wits, bodyStart, bodyEnd>>
        /\ left' = cs.value
    BY <1>2, <1>5 DEF txVars, bodyVars
  <2>3. cs.value \in Sizes /\ cs.value \in Nat /\ cs.value # 0 /\ Enc(cs.value) = cs.bytes
    BY <1>2, <1>5, CanonicalSize DEF Reads
  <2>4. StateOK'
    BY <1>1, <2>1, <2>2, <2>3
    DEF StateOK, TypeOK, Offset, Fields, BeforeWitness, BeforeOutputs, BeforeInputs
  <2>5. Len(ins') = 0
    BY <1>1, <2>2
  <2>6. ListsInv' /\ CountsInv'
    BY <1>1, <2>1, <2>2, <2>3, <2>5 DEF ListsInv, CountsInv, AfterBody
  <2>7. MarksInv'
    BY <1>1, <2>1, <2>2 DEF MarksInv, AfterBody
  <2>8. InsRead(hasWitness', ins', Len(ins') + left') = Opening(hasWitness') \o Enc(cs.value)
    <3>1. Len(ins') + left' = cs.value /\ hasWitness \in BOOLEAN
      BY <1>1, <2>2, <2>3, <2>5 DEF StateOK, TypeOK
    <3>2. ins' = <<>> /\ hasWitness' = hasWitness /\ <<>> \in Seq(Sizes)
      BY <1>1, <2>2
    <3> QED
      BY <2>3, <3>1, <3>2, InsGrow
  <2>9. BytesInv'
    BY <1>1, <2>1, <2>2, <2>3, <2>8 DEF BytesInv
  <2> QED
    BY <2>4, <2>6, <2>7, <2>9 DEF ReadInv
<1> QED
  BY <1>4, <1>5

(* The inputs.                                                             *)
LEMMA CheckInputsStep ==
  ASSUME ReadInv, CheckInputs
  PROVE  ReadInv'
<1>1. pc = "checkInputs" /\ pc' \in {"rejected", "inputs"}
      /\ UNCHANGED <<length, raw, hasWitness, left, itemsLeft, ins, outs, wits, bodyStart, bodyEnd>>
  BY DEF CheckInputs, loopVars, txVars, bodyVars
<1>2. StateOK'
  BY <1>1 DEF ReadInv, StateOK, TypeOK, Offset, Fields, BeforeWitness, BeforeOutputs
<1>3. ListsInv' /\ CountsInv'
  BY <1>1 DEF ReadInv, ListsInv, CountsInv, AfterBody, Fields, BeforeWitness, BeforeOutputs, BeforeInputs
<1>4. MarksInv'
  BY <1>1 DEF ReadInv, MarksInv, AfterBody, Fields, BeforeWitness, BeforeOutputs, BeforeInputs
<1>5. BytesInv'
  BY <1>1 DEF ReadInv, BytesInv
<1> QED
  BY <1>2, <1>3, <1>4, <1>5 DEF ReadInv

(* The announced inputs have been read.                                    *)
LEMMA EndInputsStep ==
  ASSUME ReadInv, EndInputs
  PROVE  ReadInv'
<1>1. pc = "inputs" /\ left = 0 /\ pc' = "outputCount"
      /\ UNCHANGED <<length, raw, hasWitness, left, itemsLeft, ins, outs, wits, bodyStart, bodyEnd>>
  BY DEF EndInputs, loopVars, txVars, bodyVars
<1>2. StateOK'
  BY <1>1 DEF ReadInv, StateOK, TypeOK, Offset, Fields, BeforeWitness, BeforeOutputs
<1>3. Len(ins) \in Nat /\ Len(ins) + left = Len(ins)
  BY <1>1 DEF ReadInv, StateOK
<1>4. ListsInv' /\ CountsInv'
  BY <1>1, <1>3 DEF ReadInv, ListsInv, CountsInv, AfterBody, Fields, BeforeWitness, BeforeOutputs, BeforeInputs
<1>5. MarksInv'
  BY <1>1 DEF ReadInv, MarksInv, AfterBody, Fields, BeforeWitness, BeforeOutputs, BeforeInputs
<1>6. BytesInv'
  BY <1>1, <1>3 DEF ReadInv, BytesInv
<1> QED
  BY <1>2, <1>4, <1>5, <1>6 DEF ReadInv

(* The bytes read for an element are those written for it.                 *)
LEMMA ElementBytes ==
  ASSUME NEW cs \in CompactSizes, Canonical(cs)
  PROVE  /\ InputBytes(cs) = InputOf(cs.value) /\ InputBytes(cs) \in Seq(Byte)
         /\ OutputBytes(cs) = OutputOf(cs.value) /\ OutputBytes(cs) \in Seq(Byte)
         /\ ItemBytes(cs) = Blob(cs.value) /\ ItemBytes(cs) \in Seq(Byte)
<1> DEFINE n == cs.value
           z == Zeros(n)
           o == Zeros(OutpointSize)
           a == Zeros(AmountSize)
           q == Zeros(SequenceSize)
           e == cs.bytes
<1>1. n \in Sizes /\ n \in Nat /\ Enc(n) = e /\ e \in Seq(Byte)
  BY CanonicalSize
<1>2. z \in Seq(Byte) /\ o \in Seq(Byte) /\ a \in Seq(Byte) /\ q \in Seq(Byte)
  BY <1>1, ZerosRun, FormatAssumption
<1>3. /\ InputBytes(cs) = o \o e \o z \o q /\ InputOf(n) = o \o (e \o z) \o q
      /\ OutputBytes(cs) = a \o e \o z /\ OutputOf(n) = a \o (e \o z)
      /\ ItemBytes(cs) = e \o z /\ Blob(n) = e \o z
  BY <1>1 DEF InputBytes, InputOf, OutputBytes, OutputOf, ItemBytes, Blob
<1> HIDE DEF n, z, o, a, q, e
<1>4. o \o e \o z = o \o (e \o z) /\ a \o e \o z = a \o (e \o z)
  BY <1>1, <1>2
<1>5. InputOf(n) \in Seq(Byte) /\ OutputOf(n) \in Seq(Byte) /\ Blob(n) \in Seq(Byte)
  BY <1>1, BlobBytesOf
<1>6. /\ InputBytes(cs) = InputOf(n) /\ OutputBytes(cs) = OutputOf(n) /\ ItemBytes(cs) = Blob(n)
  BY <1>3, <1>4
<1> QED
  BY <1>5, <1>6 DEF n

(* An input is read with its canonical length.                             *)
LEMMA InputStep ==
  ASSUME ReadInv, ReadInput
  PROVE  ReadInv'
<1>1. StateOK /\ pc = "inputs" /\ left > 0 /\ raw = InsRead(hasWitness, ins, Len(ins) + left)
      /\ Len(ins) + left \in Sizes /\ outs = <<>> /\ wits = <<>>
      /\ bodyStart = Len(Opening(hasWitness)) /\ left \in Nat
  BY DEF ReadInv, ReadInput, ListsInv, CountsInv, BytesInv, MarksInv, Fields, BeforeWitness,
    BeforeOutputs, BeforeInputs, StateOK, TypeOK
<1>2. PICK cs \in CompactSizes :
        \/ /\ ~Fits(cs, OutpointSize + SequenceSize)
           /\ Reject(Zeros(OutpointSize) \o cs.bytes)
        \/ /\ Fits(cs, OutpointSize + SequenceSize)
           /\ Read(InputBytes(cs), "inputs")
           /\ ins' = Append(ins, cs.value)
           /\ left' = left - 1
           /\ UNCHANGED <<length, hasWitness, itemsLeft, outs, wits, bodyVars>>
  BY DEF ReadInput
<1>3. cs.bytes \in Seq(Byte) /\ Zeros(OutpointSize) \o cs.bytes \in Seq(Byte)
  BY SizeFacts, ZerosRun, FormatAssumption, Cat
<1>4. CASE Reject(Zeros(OutpointSize) \o cs.bytes)
  BY <1>1, <1>3, <1>4, RejectStep
<1>5. CASE ~Reject(Zeros(OutpointSize) \o cs.bytes)
  <2>1. Canonical(cs) /\ ins' = Append(ins, cs.value) /\ left' = left - 1
        /\ UNCHANGED <<length, hasWitness, itemsLeft, outs, wits, bodyStart, bodyEnd>>
        /\ Read(InputBytes(cs), "inputs")
    BY <1>2, <1>5 DEF Fits, bodyVars
  <2>2. cs.value \in Sizes /\ InputBytes(cs) = InputOf(cs.value) /\ InputBytes(cs) \in Seq(Byte)
    BY <2>1, CanonicalSize, ElementBytes
  <2>3. /\ pc' = "inputs" /\ raw' = raw \o InputOf(cs.value) /\ raw' \in Seq(Byte)
        /\ Len(raw') <= length
    BY <1>1, <2>1, <2>2, ReadStep
  <2>4. ins \in Seq(Sizes) /\ hasWitness \in BOOLEAN
    BY <1>1 DEF StateOK, TypeOK
  <2>5. ins' \in Seq(Sizes) /\ Len(ins') = Len(ins) + 1 /\ Len(ins) \in Nat
        /\ Len(ins') + left' = Len(ins) + left /\ left' \in Nat
    BY <1>1, <2>1, <2>2, <2>4
  <2>6. StateOK'
    BY <1>1, <2>1, <2>3, <2>5
    DEF StateOK, TypeOK, Offset, Fields, BeforeWitness, BeforeOutputs
  <2>7. CountsInv'
    <3>1. Len(ins') + left' \in Sizes \ {0}
      BY <1>1, <2>5
    <3> QED
      BY <2>3, <3>1 DEF CountsInv, AfterBody
  <2>8. ListsInv' /\ MarksInv'
    BY <1>1, <2>1, <2>3 DEF ListsInv, MarksInv, AfterBody, BeforeInputs
  <2>9. raw' = InsRead(hasWitness, ins', Len(ins) + left)
    BY <1>1, <2>1, <2>2, <2>3, <2>4, InsGrow
  <2>10. BytesInv'
    BY <2>1, <2>3, <2>5, <2>9 DEF BytesInv
  <2> QED
    BY <2>6, <2>7, <2>8, <2>10 DEF ReadInv
<1> QED
  BY <1>4, <1>5

(* The outputs.                                                            *)
LEMMA OutputCountStep ==
  ASSUME ReadInv, ReadOutputCount
  PROVE  ReadInv'
<1>1. StateOK /\ pc = "outputCount" /\ raw = InsRead(hasWitness, ins, Len(ins))
      /\ Len(ins) \in Sizes /\ Len(ins) # 0 /\ outs = <<>> /\ wits = <<>>
      /\ bodyStart = Len(Opening(hasWitness))
  BY DEF ReadInv, ReadOutputCount, ListsInv, CountsInv, BytesInv, MarksInv, Fields, BeforeWitness,
    BeforeOutputs, BeforeInputs, StateOK, TypeOK
<1>2. PICK cs \in CompactSizes :
        \/ (~Reads(cs) \/ ExceedsAfter(cs, MinOutput)) /\ Reject(cs.bytes)
        \/ /\ Reads(cs) /\ ~ExceedsAfter(cs, MinOutput)
           /\ Read(cs.bytes, "outputs")
           /\ left' = cs.value
           /\ UNCHANGED <<length, hasWitness, itemsLeft, txVars, bodyVars>>
  BY DEF ReadOutputCount
<1>3. cs.bytes \in Seq(Byte)
  BY SizeFacts
<1>4. CASE Reject(cs.bytes)
  BY <1>1, <1>3, <1>4, RejectStep
<1>5. CASE ~Reject(cs.bytes)
  <2>1. /\ pc' = "outputs" /\ raw' = raw \o cs.bytes /\ raw' \in Seq(Byte) /\ Len(raw') <= length
    BY <1>1, <1>2, <1>3, <1>5, ReadStep
  <2>2. UNCHANGED <<length, hasWitness, itemsLeft, ins, outs, wits, bodyStart, bodyEnd>>
        /\ left' = cs.value
    BY <1>2, <1>5 DEF txVars, bodyVars
  <2>3. cs.value \in Sizes /\ cs.value \in Nat /\ Enc(cs.value) = cs.bytes
    BY <1>2, <1>5, CanonicalSize DEF Reads
  <2>4. StateOK'
    BY <1>1, <2>1, <2>2, <2>3 DEF StateOK, TypeOK, Offset, Fields, BeforeWitness
  <2>5. Len(outs') + left' = cs.value /\ ins \in Seq(Sizes) /\ hasWitness \in BOOLEAN
        /\ <<>> \in Seq(Sizes)
    BY <1>1, <2>2, <2>3 DEF StateOK, TypeOK
  <2>6. ins # <<>>
    BY <1>1
  <2>7. ListsInv'
    BY <1>1, <2>1, <2>2, <2>6 DEF ListsInv, AfterBody, BeforeOutputs, BeforeInputs
  <2>8. CountsInv'
    BY <1>1, <2>1, <2>2, <2>3, <2>5 DEF CountsInv, AfterBody
  <2>9. MarksInv'
    BY <1>1, <2>1, <2>2 DEF MarksInv, AfterBody
  <2>10. OutsRead(hasWitness, ins, <<>>, cs.value) = raw'
    <3>1. OutsRead(hasWitness, ins, <<>>, cs.value) = InsRead(hasWitness, ins, Len(ins)) \o Enc(cs.value)
      <4>1. Len(ins) \in Sizes
        BY <1>1
      <4> QED
        BY <2>3, <2>5, <4>1, OutsGrow
    <3>2. raw' = InsRead(hasWitness, ins, Len(ins)) \o cs.bytes
      BY <1>1, <2>1
    <3> QED
      BY <2>3, <3>1, <3>2, Zenon
  <2>11. BytesInv'
    BY <1>1, <2>1, <2>2, <2>5, <2>10 DEF BytesInv
  <2> QED
    BY <2>4, <2>7, <2>8, <2>9, <2>11 DEF ReadInv
<1> QED
  BY <1>4, <1>5

(* An output, likewise.                                                    *)
LEMMA OutputStep ==
  ASSUME ReadInv, ReadOutput
  PROVE  ReadInv'
<1>1. StateOK /\ pc = "outputs" /\ left > 0 /\ raw = OutsRead(hasWitness, ins, outs, Len(outs) + left)
      /\ Len(outs) + left \in Sizes /\ wits = <<>> /\ (hasWitness => ins # <<>>)
      /\ bodyStart = Len(Opening(hasWitness)) /\ left \in Nat /\ Len(ins) \in Sizes
  BY DEF ReadInv, ReadOutput, ListsInv, CountsInv, BytesInv, MarksInv, Fields, BeforeWitness,
    StateOK, TypeOK
<1>2. PICK cs \in CompactSizes :
        \/ ~Fits(cs, AmountSize) /\ Reject(Zeros(AmountSize) \o cs.bytes)
        \/ /\ Fits(cs, AmountSize)
           /\ Read(OutputBytes(cs), "outputs")
           /\ outs' = Append(outs, cs.value)
           /\ left' = left - 1
           /\ UNCHANGED <<length, hasWitness, itemsLeft, ins, wits, bodyVars>>
  BY DEF ReadOutput
<1>3. cs.bytes \in Seq(Byte) /\ Zeros(AmountSize) \o cs.bytes \in Seq(Byte)
  BY SizeFacts, ZerosRun, FormatAssumption, Cat
<1>4. CASE Reject(Zeros(AmountSize) \o cs.bytes)
  BY <1>1, <1>3, <1>4, RejectStep
<1>5. CASE ~Reject(Zeros(AmountSize) \o cs.bytes)
  <2>1. Canonical(cs) /\ outs' = Append(outs, cs.value) /\ left' = left - 1
        /\ UNCHANGED <<length, hasWitness, itemsLeft, ins, wits, bodyStart, bodyEnd>>
        /\ Read(OutputBytes(cs), "outputs")
    BY <1>2, <1>5 DEF Fits, bodyVars
  <2>2. cs.value \in Sizes /\ OutputBytes(cs) = OutputOf(cs.value) /\ OutputBytes(cs) \in Seq(Byte)
    BY <2>1, CanonicalSize, ElementBytes
  <2>3. /\ pc' = "outputs" /\ raw' = raw \o OutputOf(cs.value) /\ raw' \in Seq(Byte)
        /\ Len(raw') <= length
    BY <1>1, <2>1, <2>2, ReadStep
  <2>4. ins \in Seq(Sizes) /\ outs \in Seq(Sizes) /\ hasWitness \in BOOLEAN
    BY <1>1 DEF StateOK, TypeOK
  <2>5. outs' \in Seq(Sizes) /\ Len(outs') = Len(outs) + 1 /\ Len(outs) \in Nat
        /\ Len(outs') + left' = Len(outs) + left /\ left' \in Nat
    BY <1>1, <2>1, <2>2, <2>4
  <2>6. StateOK'
    BY <1>1, <2>1, <2>3, <2>5 DEF StateOK, TypeOK, Offset, Fields, BeforeWitness
  <2>7. CountsInv'
    BY <1>1, <2>1, <2>3, <2>5 DEF CountsInv, AfterBody
  <2>8. ListsInv' /\ MarksInv'
    BY <1>1, <2>1, <2>3 DEF ListsInv, MarksInv, AfterBody, BeforeOutputs, BeforeInputs
  <2>9. raw' = OutsRead(hasWitness, ins, outs', Len(outs) + left)
    BY <1>1, <2>1, <2>2, <2>3, <2>4, OutsGrow
  <2>10. BytesInv'
    BY <2>1, <2>3, <2>5, <2>9 DEF BytesInv
  <2> QED
    BY <2>6, <2>7, <2>8, <2>10 DEF ReadInv
<1> QED
  BY <1>4, <1>5

(* The body ends; nothing of the witness has been read.                    *)
LEMMA EndOutputsStep ==
  ASSUME ReadInv, EndOutputs
  PROVE  ReadInv'
<1>1. StateOK /\ pc = "outputs" /\ left = 0 /\ raw = OutsRead(hasWitness, ins, outs, Len(outs) + left)
      /\ Len(outs) + left \in Sizes /\ wits = <<>> /\ (hasWitness => ins # <<>>)
      /\ bodyStart = Len(Opening(hasWitness)) /\ Len(ins) \in Sizes
  BY DEF ReadInv, EndOutputs, ListsInv, CountsInv, BytesInv, MarksInv, Fields, BeforeWitness,
    StateOK, TypeOK
<1>2. /\ pc' = (IF hasWitness THEN "witness" ELSE "locktime") /\ bodyEnd' = Len(raw)
      /\ left' = IF hasWitness THEN Len(ins) ELSE 0
      /\ UNCHANGED <<length, raw, hasWitness, itemsLeft, ins, outs, wits, bodyStart>>
  BY DEF EndOutputs, txVars, Offset
<1>3. /\ ins \in Seq(Sizes) /\ outs \in Seq(Sizes) /\ Len(ins) \in Nat /\ Len(outs) \in Nat
      /\ hasWitness \in BOOLEAN /\ Len(outs) + left = Len(outs)
  BY <1>1 DEF StateOK, TypeOK
<1>4. StateOK'
  <2>1. Len(raw) \in Nat /\ Len(raw) <= length /\ length \in Nat
    BY <1>1 DEF StateOK, TypeOK, Offset
  <2> QED
    BY <1>1, <1>2, <1>3, <2>1 DEF StateOK, TypeOK, Offset, Fields, AfterBody
<1>5. <<>> \in Seq(Stacks) /\ Len(<<>>) = 0
  OBVIOUS
<1>6. ListsInv'
  BY <1>1, <1>2, <1>5 DEF ListsInv, AfterBody, BeforeWitness, BeforeOutputs, BeforeInputs
<1>7. CountsInv'
  BY <1>1, <1>2, <1>3, <1>5 DEF CountsInv, AfterBody
<1>8. raw = BodyRead(hasWitness, ins, outs) /\ raw = WitsRead(hasWitness, ins, outs, <<>>)
  BY <1>1, <1>3, <1>5, WitsGrow DEF BodyRead
<1>9. BytesInv' /\ MarksInv'
  BY <1>1, <1>2, <1>8 DEF BytesInv, MarksInv, AfterBody
<1> QED
  BY <1>4, <1>6, <1>7, <1>9 DEF ReadInv

(* The witnesses.                                                          *)
LEMMA ItemCountStep ==
  ASSUME ReadInv, ReadItemCount
  PROVE  ReadInv'
<1>1. /\ StateOK /\ pc = "witness" /\ left > 0 /\ left \in Nat /\ hasWitness /\ ins # <<>>
      /\ raw = WitsRead(hasWitness, ins, outs, wits) /\ wits \in Seq(Stacks)
      /\ Len(ins) \in Sizes /\ Len(outs) \in Sizes /\ Len(wits) + left = Len(ins)
      /\ bodyStart = Len(Opening(hasWitness)) /\ bodyEnd = Len(BodyRead(hasWitness, ins, outs))
  BY DEF ReadInv, ReadItemCount, ListsInv, CountsInv, BytesInv, MarksInv, Fields, AfterBody,
    StateOK, TypeOK
<1>2. PICK cs \in CompactSizes :
        \/ (~Reads(cs) \/ ExceedsAfter(cs, 1)) /\ Reject(cs.bytes)
        \/ /\ Reads(cs) /\ ~ExceedsAfter(cs, 1)
           /\ Read(cs.bytes, "items")
           /\ itemsLeft' = cs.value
           /\ wits' = Append(wits, <<>>)
           /\ UNCHANGED <<length, hasWitness, left, ins, outs, bodyVars>>
  BY DEF ReadItemCount
<1>3. cs.bytes \in Seq(Byte)
  BY SizeFacts
<1>4. CASE Reject(cs.bytes)
  BY <1>1, <1>3, <1>4, RejectStep
<1>5. CASE ~Reject(cs.bytes)
  <2>1. /\ pc' = "items" /\ raw' = raw \o cs.bytes /\ raw' \in Seq(Byte) /\ Len(raw') <= length
    BY <1>1, <1>2, <1>3, <1>5, ReadStep
  <2>2. UNCHANGED <<length, hasWitness, left, ins, outs, bodyStart, bodyEnd>>
        /\ itemsLeft' = cs.value /\ wits' = Append(wits, <<>>)
    BY <1>2, <1>5 DEF bodyVars
  <2>3. cs.value \in Sizes /\ cs.value \in Nat /\ Enc(cs.value) = cs.bytes
    BY <1>2, <1>5, CanonicalSize DEF Reads
  <2>4. <<>> \in Seq(Sizes) /\ Len(<<>>) + cs.value = cs.value
    BY <2>3
  <2>5. wits \in Seq(Seq(Sizes)) /\ wits' \in Seq(Seq(Sizes)) /\ Len(wits) \in Nat
        /\ Len(wits') = Len(wits) + 1
    <3> DEFINE D == Seq(Sizes)
               e == <<>>
    <3>1. wits \in Seq(D) /\ e \in D
      BY <1>1, <2>4 DEF StateOK
    <3> HIDE DEF D, e
    <3>2. Append(wits, e) \in Seq(D) /\ Len(wits) \in Nat /\ Len(Append(wits, e)) = Len(wits) + 1
      BY <3>1
    <3> QED
      BY <2>2, <3>1, <3>2 DEF D, e
  <2>6. StateOK'
    BY <1>1, <2>1, <2>2, <2>3, <2>5 DEF StateOK, TypeOK, Offset, Fields, AfterBody
  <2>7. ListsInv' /\ MarksInv'
    BY <1>1, <2>1, <2>2 DEF ListsInv, MarksInv, AfterBody, BeforeWitness, BeforeOutputs, BeforeInputs
  <2>8. CountsInv'
    BY <1>1, <2>1, <2>2, <2>5 DEF CountsInv, AfterBody
  <2>9. raw' = ItemsRead(hasWitness, ins, outs, wits, <<>>, cs.value)
    <3>1. ins \in Seq(Sizes) /\ outs \in Seq(Sizes) /\ hasWitness \in BOOLEAN
      BY <1>1 DEF StateOK, TypeOK
    <3>2. ItemsRead(hasWitness, ins, outs, wits, <<>>, cs.value)
            = WitsRead(hasWitness, ins, outs, wits) \o Enc(cs.value)
      <4>1. Len(ins) \in Sizes /\ Len(outs) \in Sizes /\ wits \in Seq(Stacks)
        BY <1>1
      <4>2. cs.value \in Sizes /\ <<>> \in Seq(Sizes)
        BY <2>3, <2>4
      <4> QED
        BY <3>1, <4>1, <4>2, ItemsStart
    <3> QED
      BY <1>1, <2>1, <2>3, <3>2
  <2>10. BytesInv'
    <3>1. wits' = Append(wits, <<>>) /\ UNCHANGED <<hasWitness, ins, outs>> /\ itemsLeft' = cs.value
      BY <2>2
    <3>2. \E done, w : Reading(done, w)'
      <4>1. \E w : /\ w \in Seq(Sizes) /\ wits' = Append(wits, w) /\ Len(w) + itemsLeft' \in Sizes
                  /\ raw' = ItemsRead(hasWitness', ins', outs', wits, w, Len(w) + itemsLeft')
        BY <2>3, <2>4, <2>9, <3>1
      <4> QED
        BY <1>1, <4>1 DEF Reading
    <3> QED
      BY <2>1, <3>2 DEF BytesInv
  <2> QED
    BY <2>6, <2>7, <2>8, <2>10 DEF ReadInv
<1> QED
  BY <1>4, <1>5

(* An update of the last element replaces it.                              *)
LEMMA LastReplaced ==
  ASSUME NEW D, NEW done \in Seq(D), NEW w \in D, NEW v \in D
  PROVE  [Append(done, w) EXCEPT ![Len(Append(done, w))] = v] = Append(done, v)
<1> DEFINE a == Append(done, w)
           b == Append(done, v)
           n == Len(done)
           c == [a EXCEPT ![n + 1] = v]
<1>1. n \in Nat /\ a \in Seq(D) /\ b \in Seq(D) /\ Len(a) = n + 1 /\ Len(b) = n + 1
      /\ b[n + 1] = v /\ \A k \in 1 .. n : a[k] = done[k] /\ b[k] = done[k]
  BY AppendProperties, LenProperties
<1> HIDE DEF a, b, n
<1>2. a \in [1 .. (n + 1) -> D] /\ b \in [1 .. (n + 1) -> D]
  BY <1>1
<1>3. c \in [1 .. (n + 1) -> D]
  BY <1>1, <1>2
<1>4. ASSUME NEW k \in 1 .. (n + 1) PROVE c[k] = b[k]
  <2>1. CASE k = n + 1
    BY <1>1, <1>2, <2>1
  <2>2. CASE k # n + 1
    <3>1. k \in 1 .. n
      BY <1>1, <2>2
    <3> QED
      BY <1>1, <1>2, <2>2, <3>1
  <2> QED
    BY <2>1, <2>2
<1> HIDE DEF c
<1>5. c = b
  <2>1. c \in Seq(D) /\ Len(c) = n + 1
    BY <1>1, <1>3
  <2> QED
    BY <1>1, <1>4, <2>1, SeqEqual
<1> QED
  BY <1>1, <1>5 DEF a, b, c

(* An item is added to the last stack.                                     *)
LEMMA ItemStep ==
  ASSUME ReadInv, ReadItem
  PROVE  ReadInv'
<1>1. /\ StateOK /\ pc = "items" /\ itemsLeft > 0 /\ itemsLeft \in Nat /\ left > 0 /\ hasWitness
      /\ ins # <<>>
      /\ Len(ins) \in Sizes /\ Len(outs) \in Sizes /\ Len(wits) + left = Len(ins) + 1
      /\ bodyStart = Len(Opening(hasWitness)) /\ bodyEnd = Len(BodyRead(hasWitness, ins, outs))
      /\ \E done, w : Reading(done, w)
  BY DEF ReadInv, ReadItem, ListsInv, CountsInv, BytesInv, MarksInv, Fields, AfterBody,
    StateOK, TypeOK
<1>2. PICK done, w : Reading(done, w)
  BY <1>1
<1>3. PICK cs \in CompactSizes :
        \/ ~Fits(cs, 0) /\ Reject(cs.bytes)
        \/ /\ Fits(cs, 0)
           /\ Read(ItemBytes(cs), "items")
           /\ itemsLeft' = itemsLeft - 1
           /\ wits' = [wits EXCEPT ![Len(wits)] = Append(@, cs.value)]
           /\ UNCHANGED <<length, hasWitness, left, ins, outs, bodyVars>>
  BY DEF ReadItem
<1>4. cs.bytes \in Seq(Byte)
  BY SizeFacts
<1>5. CASE Reject(cs.bytes)
  BY <1>1, <1>4, <1>5, RejectStep
<1>6. CASE ~Reject(cs.bytes)
  <2>1. Canonical(cs) /\ itemsLeft' = itemsLeft - 1
        /\ wits' = [wits EXCEPT ![Len(wits)] = Append(wits[Len(wits)], cs.value)]
        /\ UNCHANGED <<length, hasWitness, left, ins, outs, bodyStart, bodyEnd>>
        /\ Read(ItemBytes(cs), "items")
    BY <1>3, <1>6 DEF Fits, bodyVars
  <2>2. cs.value \in Sizes /\ ItemBytes(cs) = Blob(cs.value) /\ ItemBytes(cs) \in Seq(Byte)
    BY <2>1, CanonicalSize, ElementBytes
  <2>3. /\ pc' = "items" /\ raw' = raw \o Blob(cs.value) /\ raw' \in Seq(Byte)
        /\ Len(raw') <= length
    BY <1>1, <2>1, <2>2, ReadStep
  <2>4. done \in Seq(Stacks) /\ w \in Seq(Sizes) /\ wits = Append(done, w)
        /\ Len(w) + itemsLeft \in Sizes
        /\ raw = ItemsRead(hasWitness, ins, outs, done, w, Len(w) + itemsLeft)
    BY <1>2 DEF Reading
  <2> DEFINE D == Seq(Sizes)
             v == Append(w, cs.value)
  <2>5. v \in D /\ w \in D /\ Len(v) = Len(w) + 1 /\ Len(w) \in Nat
        /\ Len(v) + itemsLeft' = Len(w) + itemsLeft /\ itemsLeft' \in Nat
    BY <1>1, <2>1, <2>2, <2>4
  <2>6. done \in Seq(D)
    <3>1. Stacks \subseteq D
      BY DEF Stacks
    <3> HIDE DEF D
    <3> QED
      BY <2>4, <3>1, SeqMonotonic
  <2> HIDE DEF D, v
  <2>7. wits' = Append(done, v) /\ wits' \in Seq(D) /\ Len(wits') = Len(wits)
    <3>1. wits[Len(wits)] = w
      BY <2>4, <2>5, <2>6
    <3>2. wits' = [Append(done, w) EXCEPT ![Len(Append(done, w))] = v]
      BY <2>1, <2>4, <3>1 DEF v
    <3>3. wits' = Append(done, v)
      BY <2>5, <2>6, <3>2, LastReplaced
    <3> QED
      BY <2>4, <2>5, <2>6, <3>3
  <2>8. StateOK'
    BY <1>1, <2>1, <2>3, <2>5, <2>7 DEF StateOK, TypeOK, Offset, Fields, AfterBody, D
  <2>9. ListsInv' /\ MarksInv' /\ CountsInv'
    BY <1>1, <2>1, <2>3, <2>7
    DEF ListsInv, CountsInv, MarksInv, AfterBody, BeforeWitness, BeforeOutputs, BeforeInputs
  <2>10. raw' = ItemsRead(hasWitness, ins, outs, done, v, Len(w) + itemsLeft)
    <3>1. ins \in Seq(Sizes) /\ outs \in Seq(Sizes) /\ hasWitness \in BOOLEAN
      BY <1>1 DEF StateOK, TypeOK
    <3>2. Len(ins) \in Sizes /\ Len(outs) \in Sizes
      BY <1>1
    <3>3. ItemsRead(hasWitness, ins, outs, done, v, Len(w) + itemsLeft)
            = ItemsRead(hasWitness, ins, outs, done, w, Len(w) + itemsLeft) \o Blob(cs.value)
      <4> DEFINE total == Len(w) + itemsLeft
                 n == cs.value
                 o == WitsRead(hasWitness, ins, outs, done)
                 e == Enc(total)
      <4>1. total \in Sizes /\ n \in Sizes /\ w \in Seq(Sizes) /\ done \in Seq(Stacks)
        BY <2>2, <2>4
      <4>2. o \in Seq(Byte) /\ e \in Seq(Byte)
        BY <3>1, <3>2, <4>1, WitsGrow, EncBytes
      <4>3. /\ ItemsRead(hasWitness, ins, outs, done, v, total) = o \o e \o BlobBytes(Append(w, n))
            /\ ItemsRead(hasWitness, ins, outs, done, w, total) = o \o e \o BlobBytes(w)
        BY DEF v, ItemsRead
      <4> HIDE DEF total, n, o, e
      <4>4. o \o e \o BlobBytes(Append(w, n)) = o \o e \o BlobBytes(w) \o Blob(n)
        BY <4>1, <4>2, ItemsGrow
      <4> QED
        BY <4>3, <4>4 DEF total, n
    <3> QED
      BY <2>3, <2>4, <3>3
  <2>11. Reading(done, v)'
    BY <2>1, <2>4, <2>5, <2>7, <2>10 DEF Reading, D
  <2>12. BytesInv'
    BY <2>3, <2>11 DEF BytesInv
  <2> QED
    BY <2>8, <2>9, <2>12 DEF ReadInv
<1> QED
  BY <1>5, <1>6

(* The last stack is complete.                                             *)
LEMMA EndItemsStep ==
  ASSUME ReadInv, EndItems
  PROVE  ReadInv'
<1>1. /\ StateOK /\ pc = "items" /\ itemsLeft = 0 /\ left > 0 /\ left \in Nat /\ hasWitness
      /\ ins # <<>>
      /\ Len(ins) \in Sizes /\ Len(outs) \in Sizes /\ Len(wits) + left = Len(ins) + 1
      /\ bodyStart = Len(Opening(hasWitness)) /\ bodyEnd = Len(BodyRead(hasWitness, ins, outs))
      /\ \E done, w : Reading(done, w)
  BY DEF ReadInv, EndItems, ListsInv, CountsInv, BytesInv, MarksInv, Fields, AfterBody,
    StateOK, TypeOK
<1>2. PICK done, w : Reading(done, w)
  BY <1>1
<1>3. pc' = "witness" /\ left' = left - 1
      /\ UNCHANGED <<length, raw, hasWitness, itemsLeft, ins, outs, wits, bodyStart, bodyEnd>>
  BY DEF EndItems, txVars, bodyVars
<1>4. done \in Seq(Stacks) /\ w \in Stacks /\ wits = Append(done, w)
      /\ raw = ItemsRead(hasWitness, ins, outs, done, w, Len(w))
  <2>1. w \in Seq(Sizes) /\ Len(w) \in Nat /\ Len(w) + itemsLeft = Len(w)
    BY <1>1, <1>2 DEF Reading
  <2> QED
    BY <1>2, <2>1 DEF Reading, Stacks
<1>5. wits \in Seq(Stacks) /\ Len(wits) \in Nat
  <2>1. Append(done, w) \in Seq(Stacks) /\ Len(Append(done, w)) \in Nat
    BY <1>4
  <2> QED
    BY <1>4, <2>1
<1>6. raw = WitsRead(hasWitness, ins, outs, wits)
  <2>1. ins \in Seq(Sizes) /\ outs \in Seq(Sizes) /\ hasWitness \in BOOLEAN
    BY <1>1 DEF StateOK, TypeOK
  <2>2. Len(ins) \in Sizes /\ Len(outs) \in Sizes
    BY <1>1
  <2> QED
    BY <1>4, <2>1, <2>2, WitsGrow
<1>7. StateOK'
  <2>1. left' \in Nat
    BY <1>1, <1>3
  <2> QED
    BY <1>1, <1>3, <2>1 DEF StateOK, TypeOK, Offset, Fields, AfterBody
<1>8. ListsInv' /\ MarksInv'
  BY <1>1, <1>3, <1>5 DEF ListsInv, MarksInv, AfterBody, BeforeWitness, BeforeOutputs, BeforeInputs
<1>9. CountsInv'
  <2>1. Len(wits) + left' = Len(ins)
    <3>1. Len(ins) \in Nat
      BY <1>1 DEF StateOK
    <3> QED
      BY <1>1, <1>3, <1>5, <3>1
  <2> QED
    BY <1>1, <1>3, <2>1 DEF CountsInv, AfterBody
<1>10. BytesInv'
  BY <1>3, <1>6 DEF BytesInv
<1> QED
  BY <1>7, <1>8, <1>9, <1>10 DEF ReadInv

(* A witness that is not superfluous ends.                                 *)
LEMMA EndWitnessStep ==
  ASSUME ReadInv, EndWitness
  PROVE  ReadInv'
<1>1. /\ StateOK /\ pc = "witness" /\ left = 0
      /\ pc' = (IF Superfluous THEN "rejected" ELSE "locktime")
      /\ UNCHANGED <<length, raw, hasWitness, left, itemsLeft, ins, outs, wits, bodyStart, bodyEnd>>
  BY DEF ReadInv, EndWitness, loopVars, txVars, bodyVars
<1>2. StateOK'
  BY <1>1 DEF StateOK, TypeOK, Offset, Fields, AfterBody
<1>3. ListsInv' /\ MarksInv' /\ BytesInv'
  BY <1>1 DEF ReadInv, ListsInv, MarksInv, BytesInv, Fields, AfterBody, BeforeWitness,
    BeforeOutputs, BeforeInputs
<1>4. Superfluous' = Superfluous
  BY <1>1 DEF Superfluous
<1>5. CountsInv'
  <2>1. Len(wits) + left = Len(ins) /\ Len(wits) \in Nat
    BY <1>1 DEF ReadInv, CountsInv, StateOK
  <2>2. Len(wits) = Len(ins)
    BY <1>1, <2>1
  <2> QED
    BY <1>1, <1>4, <2>2 DEF ReadInv, CountsInv, AfterBody
<1> QED
  BY <1>2, <1>3, <1>5 DEF ReadInv

(* The locktime, and what may not follow it.                               *)
LEMMA LocktimeStep ==
  ASSUME ReadInv, ReadLocktime
  PROVE  ReadInv'
<1> DEFINE z == Zeros(LocktimeSize)
<1>1. StateOK /\ pc = "locktime" /\ raw = WitsRead(hasWitness, ins, outs, wits)
  BY DEF ReadInv, ReadLocktime, BytesInv
<1>2. z \in Seq(Byte) /\ Len(z) = LocktimeSize /\ LocktimeSize \in Nat
  BY ZerosRun, FormatAssumption
<1>3. CASE Truncated(z)
  BY <1>1, <1>2, <1>3, RejectStep DEF Truncated
<1>4. CASE /\ Read(z, IF Remaining > LocktimeSize THEN "rejected" ELSE "accepted")
           /\ UNCHANGED <<length, hasWitness, loopVars, txVars, bodyVars>>
  <2>1. /\ pc' = (IF Remaining > LocktimeSize THEN "rejected" ELSE "accepted")
        /\ raw' = raw \o z /\ raw' \in Seq(Byte)
        /\ Len(raw') = Len(raw) + Len(z) /\ Len(raw') <= length
    BY <1>1, <1>2, <1>4, ReadStep
  <2>2. UNCHANGED <<length, hasWitness, left, itemsLeft, ins, outs, wits, bodyStart, bodyEnd>>
    BY <1>4 DEF loopVars, txVars, bodyVars
  <2>3. StateOK'
    BY <1>1, <2>1, <2>2 DEF StateOK, TypeOK, Offset, Fields, AfterBody
  <2>4. Superfluous' = Superfluous
    BY <2>2 DEF Superfluous
  <2>5. ListsInv' /\ MarksInv' /\ CountsInv'
    BY <1>1, <2>1, <2>2, <2>4 DEF ReadInv, ListsInv, MarksInv, CountsInv, Fields, AfterBody,
      BeforeWitness, BeforeOutputs, BeforeInputs
  <2>6. pc' = "accepted" => Len(raw') = length
    <3>1. Len(raw) \in Nat /\ length \in Nat
      BY <1>1 DEF StateOK, TypeOK
    <3> QED
      BY <1>2, <2>1, <3>1 DEF Remaining, Offset
  <2>7. BytesInv'
    BY <1>1, <2>1, <2>2, <2>6 DEF BytesInv, Offset
  <2> QED
    BY <2>3, <2>5, <2>7 DEF ReadInv
<1> QED
  BY <1>3, <1>4 DEF ReadLocktime

(* Every step keeps the invariant.                                         *)
LEMMA NextRead == ReadInv /\ [Next]_vars => ReadInv'
<1>1. ASSUME ReadInv, UNCHANGED vars PROVE ReadInv'
  <2>1. UNCHANGED <<pc, length, raw, hasWitness, left, itemsLeft, ins, outs, wits, bodyStart, bodyEnd>>
    BY <1>1 DEF vars, loopVars, txVars, bodyVars
  <2>2. StateOK' /\ ListsInv' /\ MarksInv'
    BY <1>1, <2>1 DEF ReadInv, StateOK, TypeOK, Offset, ListsInv, MarksInv
  <2>3. CountsInv'
    BY <1>1, <2>1 DEF ReadInv, CountsInv, Superfluous
  <2>4. BytesInv'
    BY <1>1, <2>1 DEF ReadInv, BytesInv, Reading, Offset
  <2> QED
    BY <2>2, <2>3, <2>4 DEF ReadInv
<1> QED
  BY <1>1, VersionStep, InputCountStep, FlagStep, WitnessInputCountStep, CheckInputsStep,
    InputStep, EndInputsStep, OutputCountStep, OutputStep, EndOutputsStep, ItemCountStep,
    ItemStep, EndItemsStep, EndWitnessStep, LocktimeStep DEF Next

(* parse_transaction() keeps, at every field, what the invariant says.     *)
THEOREM ReadsSerialization == Spec => []ReadInv
<1>1. Init => ReadInv
  BY FreshRead, FormatAssumption DEF Init, Fresh
<1>2. ReadInv /\ [Next]_vars => ReadInv'
  BY NextRead
<1> QED
  BY <1>1, <1>2, PTL DEF Spec

-----------------------------------------------------------------------------
(* What is accepted.                                                       *)

(* The middle of three sequences.                                          *)
LEMMA Middle ==
  ASSUME NEW u \in Seq(Byte), NEW v \in Seq(Byte), NEW w \in Seq(Byte)
  PROVE  SubSeq(u \o v \o w, Len(u) + 1, Len(u) + Len(v)) = v
<1> DEFINE s == u \o v \o w
           p == SubSeq(s, Len(u) + 1, Len(u) + Len(v))
<1>1. Len(u) \in Nat /\ Len(v) \in Nat /\ Len(w) \in Nat /\ s \in Seq(Byte)
      /\ Len(s) = Len(u) + Len(v) + Len(w)
  OBVIOUS
<1>2. \A k \in 1 .. Len(v) : s[Len(u) + k] = v[k]
  OBVIOUS
<1> HIDE DEF s
<1>3. p \in Seq(Byte) /\ Len(p) = Len(v) /\ \A k \in 1 .. Len(v) : p[k] = s[Len(u) + k]
  BY <1>1
<1> HIDE DEF p
<1>4. \A k \in 1 .. Len(v) : p[k] = v[k]
  BY <1>2, <1>3
<1>5. p = v
  BY <1>3, <1>4, SeqEqual
<1> QED
  BY <1>5 DEF p, s

(* The body in the input is the body of the transaction.                   *)
LEMMA BodyBytes ==
  ASSUME NEW h \in BOOLEAN, NEW is \in Seq(Sizes), Len(is) \in Sizes,
         NEW os \in Seq(Sizes), Len(os) \in Sizes, NEW ws
  PROVE  /\ BodyOf(Tx(is, os, ws)) \in Seq(Byte)
         /\ BodyRead(h, is, os) = Opening(h) \o BodyOf(Tx(is, os, ws))
<1> DEFINE o == Opening(h)
           e == Enc(Len(is))
           i == InBytes(is)
           f == Enc(Len(os))
           j == OutBytes(os)
<1>0. 0 \in Sizes
  BY SmallSize, FormatAssumption
<1>1. /\ o \in Seq(Byte) /\ e \in Seq(Byte) /\ i \in Seq(Byte) /\ f \in Seq(Byte)
      /\ j \in Seq(Byte)
  BY <1>0, OpeningBytes, EncBytes, ListsGrow
<1>2. BodyRead(h, is, os) = o \o e \o i \o f \o j
  BY DEF BodyRead, OutsRead, InsRead
<1>3. BodyOf(Tx(is, os, ws)) = e \o i \o f \o j
  BY DEF BodyOf, Tx, InBytes, OutBytes
<1> HIDE DEF o, e, i, f, j
<1>4. e \o i \in Seq(Byte) /\ o \o e \o i = o \o (e \o i)
  BY <1>1
<1> DEFINE a == e \o i
<1> HIDE DEF a
<1>5. a \o f \in Seq(Byte) /\ o \o a \o f = o \o (a \o f)
  <2>1. a \in Seq(Byte)
    BY <1>4 DEF a
  <2>2. o \in Seq(Byte) /\ f \in Seq(Byte)
    BY <1>1
  <2> QED
    BY <2>1, <2>2, Assoc
<1> DEFINE b == a \o f
<1> HIDE DEF b
<1>6. b \o j \in Seq(Byte) /\ o \o b \o j = o \o (b \o j)
  <2>1. b \in Seq(Byte)
    BY <1>5 DEF b
  <2>2. o \in Seq(Byte) /\ j \in Seq(Byte)
    BY <1>1
  <2> QED
    BY <2>1, <2>2, Assoc
<1>7. o \o e \o i \o f \o j = o \o (e \o i \o f \o j)
  BY <1>4, <1>5, <1>6, Zenon DEF a, b
<1>8. e \o i \o f \o j \in Seq(Byte)
  BY <1>6 DEF a, b
<1> QED
  BY <1>2, <1>3, <1>7, <1>8 DEF o

(* What the invariant says of an accepted input.                           *)
LEMMA AcceptedBytes ==
  ASSUME ReadInv, pc = "accepted"
  PROVE  /\ BodyOf(Parsed) \in Seq(Byte)
         /\ raw = Opening(hasWitness) \o BodyOf(Parsed) \o WitBytes(wits) \o Zeros(LocktimeSize)
         /\ bodyStart = Len(Opening(hasWitness))
         /\ bodyEnd = Len(Opening(hasWitness)) + Len(BodyOf(Parsed))
         /\ hasWitness \in BOOLEAN /\ wits \in Seq(Stacks) /\ WitBytes(wits) \in Seq(Byte)
         /\ hasWitness => ~Superfluous
         /\ ~hasWitness => wits = <<>>
<1>1. /\ hasWitness \in BOOLEAN /\ ins \in Seq(Sizes) /\ outs \in Seq(Sizes)
      /\ Len(ins) \in Sizes /\ Len(outs) \in Sizes /\ wits \in Seq(Stacks)
      /\ raw = WitsRead(hasWitness, ins, outs, wits) \o Zeros(LocktimeSize)
      /\ bodyStart = Len(Opening(hasWitness)) /\ bodyEnd = Len(BodyRead(hasWitness, ins, outs))
      /\ (hasWitness => ~Superfluous) /\ (~hasWitness => wits = <<>>)
  BY DEF ReadInv, StateOK, TypeOK, ListsInv, CountsInv, BytesInv, MarksInv, Fields, AfterBody
<1>2. BodyOf(Parsed) \in Seq(Byte) /\ BodyRead(hasWitness, ins, outs) = Opening(hasWitness) \o BodyOf(Parsed)
  BY <1>1, BodyBytes DEF Parsed
<1>3. WitBytes(wits) \in Seq(Byte)
  <2>1. <<>> \in Stacks
    <3>1. 0 \in Sizes
      BY SmallSize, FormatAssumption
    <3> QED
      BY <3>1 DEF Stacks
  <2> QED
    BY <1>1, <2>1, WitnessGrows
<1>4. Len(BodyRead(hasWitness, ins, outs)) = Len(Opening(hasWitness)) + Len(BodyOf(Parsed))
  BY <1>1, <1>2, OpeningBytes, Cat
<1> QED
  BY <1>1, <1>2, <1>3, <1>4 DEF WitsRead

(* An accepted input is the serialization of what was parsed.              *)
LEMMA AcceptedSerialized ==
  ASSUME ReadInv, pc = "accepted"
  PROVE  raw = Serialize(Parsed) /\ (hasWitness <=> \E k \in DOMAIN wits : wits[k] # <<>>)
<1> DEFINE b == BodyOf(Parsed)
           z == Zeros(VersionSize)
           l == Zeros(LocktimeSize)
<1>1. b \in Seq(Byte) /\ raw = Opening(hasWitness) \o b \o WitBytes(wits) \o l
      /\ hasWitness \in BOOLEAN
  BY AcceptedBytes
<1>2. hasWitness <=> \E k \in DOMAIN wits : wits[k] # <<>>
  BY AcceptedBytes DEF Superfluous
<1>3. wits \in Seq(Stacks) /\ (hasWitness => wits # <<>>) /\ (~hasWitness => wits = <<>>)
  BY <1>2, AcceptedBytes
<1>4. z \in Seq(Byte) /\ l \in Seq(Byte)
  BY ZerosRun, FormatAssumption
<1>5. Parsed.wits = wits
  BY DEF Parsed, Tx
<1>6. CASE hasWitness
  <2>1. Opening(hasWitness) = z \o <<0, 1>>
    BY <1>6 DEF Opening
  <2>2. Serialize(Parsed) = z \o <<0, 1>> \o b \o WitBytes(wits) \o l
    BY <1>3, <1>5, <1>6 DEF Serialize, WitBytes
  <2> QED
    BY <1>1, <1>2, <2>1, <2>2
<1>7. CASE ~hasWitness
  <2>1. Opening(hasWitness) = z /\ hasWitness = FALSE
    BY <1>1, <1>7, OpeningBytes
  <2>2. wits = <<>> /\ WitBytes(wits) = <<>>
    BY <1>3, <1>7, NoneWritten
  <2>3. Serialize(Parsed) = z \o b \o l
    BY <1>5, <2>2 DEF Serialize, Stripped
  <2>4. raw = z \o b \o <<>> \o l
    BY <1>1, <2>1, <2>2
  <2> HIDE DEF z, b, l
  <2>5. z \o b \o <<>> = z \o b
    BY <1>1, <1>4
  <2> QED
    BY <1>2, <2>3, <2>4, <2>5
<1> QED
  BY <1>6, <1>7

(* The invariant is stronger than the property.                            *)
LEMMA ReadRoundTrip == ReadInv => RoundTrip
<1> SUFFICES ASSUME ReadInv PROVE RoundTrip
  OBVIOUS
<1>1. TypeOK
  BY DEF ReadInv, StateOK
<1>2. pc = "accepted" => Offset = length
  BY DEF ReadInv, BytesInv
<1> QED
  BY <1>1, <1>2, AcceptedSerialized DEF RoundTrip

(* What parse_transaction() accepts is the one serialization of the        *)
(* transaction it returns, with its witness flag only if there is a        *)
(* witness: so no two inputs parse to one transaction.                     *)
THEOREM AcceptsCanonical == Spec => []RoundTrip
BY ReadRoundTrip, ReadsSerialization, PTL

(* The stripped bytes are the serialization without witness.               *)
LEMMA AcceptedStripped ==
  ASSUME ReadInv, pc = "accepted"
  PROVE  StrippedBytes = Stripped(Parsed)
<1> DEFINE b == BodyOf(Parsed)
           z == Zeros(VersionSize)
           l == Zeros(LocktimeSize)
           o == Opening(hasWitness)
           w == WitBytes(wits)
           m == <<0, 1>>
<1>1. /\ b \in Seq(Byte) /\ raw = o \o b \o w \o l /\ w \in Seq(Byte) /\ hasWitness \in BOOLEAN
      /\ bodyStart = Len(o) /\ bodyEnd = Len(o) + Len(b)
  BY AcceptedBytes
<1>2. z \in Seq(Byte) /\ l \in Seq(Byte) /\ Len(l) = LocktimeSize /\ LocktimeSize \in Nat
      /\ Len(z) = VersionSize /\ VersionSize \in Nat
  BY ZerosRun, FormatAssumption
<1>3. o \in Seq(Byte)
  BY <1>1, OpeningBytes
<1>4. Stripped(Parsed) = z \o b \o l
  BY DEF Stripped
<1>5. CASE ~hasWitness
  <2>1. raw = Serialize(Parsed)
    BY AcceptedSerialized
  <2>2. Parsed.wits = <<>>
    BY <1>5, AcceptedBytes DEF Parsed, Tx
  <2> QED
    BY <1>5, <2>1, <2>2 DEF Serialize, StrippedBytes
<1>6. CASE hasWitness
  <2>1. m \in Seq(Byte) /\ <<>> \in Seq(Byte) /\ Len(<<>>) = 0
    BY FormatAssumption DEF Byte
  <2>2. o = z \o m
    BY <1>6 DEF Opening
  <2> HIDE DEF b, z, l, o, w, m
  <2>3. SubSeq(raw, Len(o) + 1, Len(o) + Len(b)) = b
    <3> DEFINE r == w \o l
    <3>1. r \in Seq(Byte)
      BY <1>1, <1>2
    <3>2. o \o b \in Seq(Byte)
      BY <1>1, <1>3
    <3> DEFINE p == o \o b
    <3>3. p \o w \o l = p \o (w \o l)
      <4> HIDE DEF p
      <4> QED
        BY <1>1, <1>2, <3>2 DEF p
    <3>4. raw = o \o b \o r
      BY <1>1, <3>3
    <3> HIDE DEF r, p
    <3> QED
      BY <1>1, <1>3, <3>1, <3>4, Middle
  <2>4. SubSeq(raw, Len(raw) - LocktimeSize + 1, Len(raw)) = l
    <3> DEFINE u == o \o b \o w
               v == u \o l
    <3>1. u \in Seq(Byte)
      BY <1>1, <1>3
    <3>2. raw = v
      BY <1>1
    <3> HIDE DEF u
    <3>3. v \in Seq(Byte) /\ Len(v) = Len(u) + LocktimeSize /\ Len(u) \in Nat
      BY <1>2, <3>1, Cat
    <3>4. v = u \o l \o <<>>
      BY <1>2, <3>1
    <3>5. SubSeq(u \o l \o <<>>, Len(u) + 1, Len(u) + Len(l)) = l
      BY <1>2, <2>1, <3>1, Middle
    <3> HIDE DEF v
    <3>6. Len(v) - LocktimeSize + 1 = Len(u) + 1 /\ Len(v) = Len(u) + Len(l)
      BY <1>2, <3>3
    <3> QED
      BY <3>2, <3>4, <3>5, <3>6
  <2>5. SubSeq(raw, 1, VersionSize) = z
    <3>1. m \o b \in Seq(Byte) /\ z \o m \o b = z \o (m \o b)
      <4>1. m \in Seq(Byte) /\ b \in Seq(Byte) /\ z \in Seq(Byte)
        BY <1>1, <1>2, <2>1
      <4> QED
        BY <4>1, Assoc
    <3> DEFINE p == m \o b
    <3> HIDE DEF p
    <3>2. p \o w \in Seq(Byte) /\ z \o p \o w = z \o (p \o w)
      <4>1. p \in Seq(Byte)
        BY <3>1 DEF p
      <4>2. w \in Seq(Byte) /\ z \in Seq(Byte)
        BY <1>1, <1>2
      <4> QED
        BY <4>1, <4>2, Assoc
    <3> DEFINE q == p \o w
    <3> HIDE DEF q
    <3>3. q \o l \in Seq(Byte) /\ z \o q \o l = z \o (q \o l)
      <4>1. q \in Seq(Byte)
        BY <3>2 DEF q
      <4>2. l \in Seq(Byte) /\ z \in Seq(Byte)
        BY <1>2
      <4> QED
        BY <4>1, <4>2, Assoc
    <3>4. raw = z \o (q \o l)
      BY <1>1, <2>2, <3>1, <3>2, <3>3, Zenon DEF p, q
    <3> DEFINE s == q \o l
    <3> HIDE DEF s
    <3>5. <<>> \o z \o s = z \o s /\ s \in Seq(Byte)
      BY <1>2, <3>3 DEF s
    <3>6. SubSeq(<<>> \o z \o s, Len(<<>>) + 1, Len(<<>>) + Len(z)) = z
      BY <1>2, <2>1, <3>5, Middle
    <3>7. Len(<<>>) + 1 = 1 /\ Len(<<>>) + Len(z) = VersionSize
      BY <1>2, <2>1
    <3> QED
      BY <3>4, <3>5, <3>6, <3>7 DEF s
  <2> QED
    BY <1>1, <1>4, <1>6, <2>3, <2>4, <2>5 DEF StrippedBytes, Offset
<1> QED
  BY <1>5, <1>6

(* The invariant is stronger than the property.                            *)
LEMMA ReadStripped == ReadInv => StrippedForm
BY AcceptedStripped DEF StrippedForm

(* The bytes hashed for the txid, and weighed, are the serialization of    *)
(* the parsed transaction without marker, flag and witness, though they    *)
(* are cut out of the input at remembered offsets.                         *)
THEOREM StripsWitness == Spec => []StrippedForm
BY ReadStripped, ReadsSerialization, PTL

-----------------------------------------------------------------------------
(* Beginnings.                                                             *)

(* s is a prefix of t.                                                     *)
Starts(s, t) == Len(s) <= Len(t) /\ \A i \in 1 .. Len(s) : s[i] = t[i]

(* IsPrefix, by positions.                                                 *)
LEMMA PrefixStarts ==
  ASSUME NEW S, NEW s \in Seq(S), NEW t \in Seq(S)
  PROVE  IsPrefix(s, t) <=> Starts(s, t)
<1> DEFINE n == Len(s)
           p == SubSeq(s, 1, n)
           q == SubSeq(t, 1, n)
<1>1. n \in Nat /\ Len(t) \in Nat
  OBVIOUS
<1>2. IsPrefix(s, t) <=> n <= Len(t) /\ p = q
  BY DEF IsPrefix
<1>3. ASSUME n <= Len(t) PROVE p = q <=> \A i \in 1 .. n : s[i] = t[i]
  <2>1. /\ p \in Seq(S) /\ Len(p) = n /\ \A i \in 1 .. n : p[i] = s[i]
        /\ q \in Seq(S) /\ Len(q) = n /\ \A i \in 1 .. n : q[i] = t[i]
    BY <1>1, <1>3
  <2> HIDE DEF p, q, n
  <2>2. (\A i \in 1 .. n : s[i] = t[i]) => p = q
    BY <2>1, SeqEqual
  <2> QED
    BY <2>1, <2>2
<1> HIDE DEF p, q
<1> QED
  BY <1>2, <1>3 DEF Starts

(* A string starts what it is continued to, and itself.                    *)
LEMMA StartsConcat ==
  ASSUME NEW S, NEW s \in Seq(S), NEW t \in Seq(S)
  PROVE  Starts(s, s \o t) /\ Starts(s, s)
BY DEF Starts

(* A start of a start.                                                     *)
LEMMA StartsTrans ==
  ASSUME NEW S, NEW s \in Seq(S), NEW t \in Seq(S), NEW u \in Seq(S), Starts(s, t), Starts(t, u)
  PROVE  Starts(s, u)
<1>1. Len(s) \in Nat /\ Len(t) \in Nat /\ Len(u) \in Nat
  OBVIOUS
<1> QED
  BY <1>1 DEF Starts

(* Two beginnings of one sequence, as long as each other, are the same.    *)
LEMMA StartsSame ==
  ASSUME NEW S, NEW s \in Seq(S), NEW t \in Seq(S), NEW u \in Seq(S), Starts(s, u), Starts(t, u),
         Len(s) = Len(t)
  PROVE  s = t
<1>1. \A i \in 1 .. Len(s) : s[i] = t[i]
  BY DEF Starts
<1> QED
  BY <1>1, SeqEqual

(* The next element of a list that begins with another.                    *)
LEMMA StartsNext ==
  ASSUME NEW S, NEW s \in Seq(S), NEW t \in Seq(S), Starts(s, t), Len(s) < Len(t)
  PROVE  /\ t[Len(s) + 1] \in S
         /\ Append(s, t[Len(s) + 1]) \in Seq(S)
         /\ Len(Append(s, t[Len(s) + 1])) = Len(s) + 1
         /\ Starts(Append(s, t[Len(s) + 1]), t)
<1> DEFINE n == Len(s)
           x == t[n + 1]
           a == Append(s, x)
<1>1. n \in Nat /\ Len(t) \in Nat /\ n + 1 \in 1 .. Len(t)
  OBVIOUS
<1>2. x \in S
  BY <1>1
<1> HIDE DEF x
<1>3. a \in Seq(S) /\ Len(a) = n + 1 /\ a[n + 1] = x /\ \A i \in 1 .. n : a[i] = s[i]
  BY <1>2, AppendProperties
<1> HIDE DEF a
<1>4. \A i \in 1 .. (n + 1) : a[i] = t[i]
  <2>1. SUFFICES ASSUME NEW i \in 1 .. (n + 1) PROVE a[i] = t[i]
    OBVIOUS
  <2>2. CASE i = n + 1
    BY <1>3, <2>2 DEF x
  <2>3. CASE i # n + 1
    <3>1. i \in 1 .. n
      BY <1>1, <2>3
    <3> QED
      BY <1>3, <3>1 DEF Starts
  <2> QED
    BY <2>2, <2>3
<1>5. Starts(a, t)
  BY <1>1, <1>3, <1>4 DEF Starts
<1> QED
  BY <1>2, <1>3, <1>5 DEF a, x

(* The encodings of a list begin with those of a beginning of it, and what *)
(* is left is as long as the elements left ask for.                        *)
Completes(F, v, s, r, n) == r \in Seq(Byte) /\ Joined(F, s) = Joined(F, v) \o r /\ Len(r) >= n

(* A written list is bytes.                                                *)
LEMMA JoinedBytes ==
  ASSUME NEW D, NEW F \in [D -> Seq(Byte)], NEW s \in Seq(D)
  PROVE  Joined(F, s) \in Seq(Byte)
<1>1. CASE s = <<>>
  <2>1. Joined(F, s) = FlattenSeq(<<>>)
    BY <1>1 DEF Joined
  <2> QED
    BY <2>1 DEF FlattenSeq
<1>2. CASE s # <<>>
  <2>1. s[1] \in D
    BY <1>2
  <2> QED
    BY <2>1, JoinedAppend
<1> QED
  BY <1>1, <1>2

(* Nothing completes the whole list.                                       *)
LEMMA JoinedSelf ==
  ASSUME NEW D, NEW F \in [D -> Seq(Byte)], NEW s \in Seq(D)
  PROVE  Completes(F, s, s, <<>>, 0)
<1> DEFINE j == Joined(F, s)
<1>1. j \in Seq(Byte)
  BY JoinedBytes
<1> HIDE DEF j
<1>2. j = j \o <<>> /\ <<>> \in Seq(Byte) /\ Len(<<>>) = 0
  BY <1>1
<1> QED
  BY <1>2 DEF Completes, j

(* One element less.                                                       *)
LEMMA JoinedBack ==
  ASSUME NEW D, NEW F \in [D -> Seq(Byte)], NEW s \in Seq(D), NEW v \in Seq(D), NEW x \in D,
         NEW n \in Nat, NEW r, Completes(F, Append(v, x), s, r, n)
  PROVE  Completes(F, v, s, F[x] \o r, Len(F[x]) + n)
<1> DEFINE a == Joined(F, v)
           b == F[x]
           j == Joined(F, s)
<1>1. j = a \o b \o r /\ Len(r) >= n /\ r \in Seq(Byte) /\ a \in Seq(Byte) /\ b \in Seq(Byte)
  BY JoinedAppend DEF Completes
<1> HIDE DEF a, b, j
<1>2. a \o b \o r = a \o (b \o r)
  BY <1>1
<1>3. b \o r \in Seq(Byte) /\ Len(b \o r) >= Len(b) + n
  BY <1>1
<1> QED
  BY <1>1, <1>2, <1>3 DEF Completes, a, b, j

(* The bytes of a start of a list start its bytes; each element left takes *)
(* at least m more.                                                        *)
LEMMA JoinedStarts ==
  ASSUME NEW D, NEW F \in [D -> Seq(Byte)], NEW m \in Nat, \A x \in D : Len(F[x]) >= m,
         NEW s \in Seq(D), NEW u \in Seq(D), Starts(u, s)
  PROVE  \E r : Completes(F, u, s, r, m * (Len(s) - Len(u)))
<1> DEFINE Left(v, k) == Starts(v, s) /\ Len(s) - Len(v) = k
           Done(v, k) == \E r : Completes(F, v, s, r, m * k)
           T == {k \in Nat : \A v \in Seq(D) : Left(v, k) => Done(v, k)}
<1>1. ASSUME NEW v \in Seq(D), Left(v, 0) PROVE Done(v, 0)
  <2>1. Len(v) = Len(s) /\ \A i \in 1 .. Len(v) : v[i] = s[i]
    BY <1>1 DEF Starts
  <2>2. v = s
    BY <2>1, SeqEqual
  <2>3. m * 0 = 0
    OBVIOUS
  <2>4. Completes(F, s, s, <<>>, 0)
    BY JoinedSelf
  <2> QED
    BY <2>2, <2>3, <2>4
<1>2. ASSUME NEW k \in Nat, k \in T, NEW v \in Seq(D), Left(v, k + 1) PROVE Done(v, k + 1)
  <2>1. Starts(v, s) /\ Len(s) - Len(v) = k + 1 /\ Len(v) \in Nat /\ Len(s) \in Nat /\ Len(v) < Len(s)
    BY <1>2
  <2> DEFINE x == s[Len(v) + 1]
             w == Append(v, x)
  <2>2. x \in D /\ w \in Seq(D) /\ Len(w) = Len(v) + 1 /\ Starts(w, s)
    <3> HIDE DEF Left, Done, T
    <3> QED
      BY <2>1, StartsNext
  <2> HIDE DEF x
  <2>3. Left(w, k)
    BY <2>1, <2>2
  <2>4. Done(w, k)
    <3> HIDE DEF w, Left, Done
    <3> QED
      BY <1>2, <2>2, <2>3
  <2>5. PICK r : Completes(F, w, s, r, m * k)
    BY <2>4
  <2>6. m * k \in Nat /\ m * (k + 1) = m * k + m
    OBVIOUS
  <2>7. Completes(F, v, s, F[x] \o r, Len(F[x]) + m * k)
    <3> DEFINE n == m * k
    <3>1. n \in Nat /\ Completes(F, Append(v, x), s, r, n)
      BY <2>5, <2>6
    <3> HIDE DEF n
    <3>2. Completes(F, v, s, F[x] \o r, Len(F[x]) + n)
      BY <2>2, <3>1, JoinedBack
    <3> QED
      BY <3>2 DEF n
  <2>8. Len(F[x]) >= m /\ Len(F[x]) \in Nat
    BY <2>2
  <2>9. Completes(F, v, s, F[x] \o r, m * (k + 1))
    <3> DEFINE q == F[x] \o r
    <3>1. q \in Seq(Byte) => Len(q) \in Nat
      OBVIOUS
    <3>2. Completes(F, v, s, q, Len(F[x]) + m * k)
      BY <2>7
    <3> HIDE DEF q
    <3>3. q \in Seq(Byte) /\ Joined(F, s) = Joined(F, v) \o q /\ Len(q) >= Len(F[x]) + m * k
      BY <3>2 DEF Completes
    <3>4. Len(q) >= m * (k + 1)
      <4> DEFINE a == m * k
                 b == m * (k + 1)
                 c == Len(F[x])
                 d == Len(q)
      <4>1. a \in Nat /\ b = a + m /\ c >= m /\ c \in Nat /\ d \in Nat /\ d >= c + a
        BY <2>6, <2>8, <3>1, <3>3
      <4> HIDE DEF a, b, c, d
      <4>2. d >= b
        BY <4>1
      <4> QED
        BY <4>2 DEF b, d
    <3>5. Completes(F, v, s, q, m * (k + 1))
      BY <3>3, <3>4 DEF Completes
    <3> QED
      BY <3>5 DEF q
  <2> QED
    BY <2>9
<1>3. 0 \in T
  BY <1>1
<1>4. ASSUME NEW k \in Nat, k \in T PROVE k + 1 \in T
  <2>1. \A v \in Seq(D) : Left(v, k + 1) => Done(v, k + 1)
    BY <1>2, <1>4
  <2> HIDE DEF Left, Done
  <2> QED
    BY <2>1
<1>5. Len(s) - Len(u) \in Nat
  BY DEF Starts
<1>6. Len(s) - Len(u) \in T
  <2> HIDE DEF T
  <2> QED
    BY <1>3, <1>4, <1>5, AllNumbers
<1> QED
  BY <1>5, <1>6
(* s begins F, and at least n more elements follow.                        *)
Within(s, F, n) == s \in Seq(Byte) /\ Starts(s, F) /\ Len(s) + n <= Len(F)

(* What begins with what begins F.                                         *)
LEMMA WithinHead ==
  ASSUME NEW F \in Seq(Byte), NEW s \in Seq(Byte), NEW r \in Seq(Byte), NEW n \in Nat, NEW m \in Nat,
         Within(s \o r, F, n), m <= Len(r) + n
  PROVE  Within(s, F, m)
<1> DEFINE t == s \o r
<1>1. t \in Seq(Byte) /\ Len(t) = Len(s) + Len(r) /\ Len(s) \in Nat /\ Len(r) \in Nat
      /\ Len(F) \in Nat
  BY Cat
<1>2. Starts(s, t)
  BY StartsConcat
<1> HIDE DEF t
<1>3. Starts(t, F) /\ Len(t) + n <= Len(F)
  BY DEF Within, t
<1>4. Starts(s, F)
  BY <1>1, <1>2, <1>3, StartsTrans
<1> QED
  BY <1>1, <1>3, <1>4 DEF Within

(* The encodings of a beginning of a list, behind o, begin what begins     *)
(* with all of them.                                                       *)
LEMMA ListWithin ==
  ASSUME NEW D, NEW f \in [D -> Seq(Byte)], NEW m \in Nat, \A x \in D : Len(f[x]) >= m,
         NEW s \in Seq(D), NEW u \in Seq(D), Starts(u, s),
         NEW F \in Seq(Byte), NEW o \in Seq(Byte), Joined(f, u) \in Seq(Byte),
         Within(o \o Joined(f, s), F, 0)
  PROVE  Within(o \o Joined(f, u), F, m * (Len(s) - Len(u)))
<1> DEFINE n == m * (Len(s) - Len(u))
           j == Joined(f, u)
           k == Joined(f, s)
<1>1. Len(s) - Len(u) \in Nat
  BY DEF Starts
<1>2. n \in Nat
  BY <1>1
<1>3. PICK r : Completes(f, u, s, r, n)
  BY JoinedStarts
<1> HIDE DEF n, j, k
<1>4. r \in Seq(Byte) /\ k = j \o r /\ Len(r) >= n /\ Len(r) \in Nat
  BY <1>3 DEF Completes, j, k
<1>5. j \in Seq(Byte)
  BY DEF j
<1>6. o \o (j \o r) = o \o j \o r
  <2>1. r \in Seq(Byte)
    BY <1>4
  <2> QED
    BY <1>5, <2>1, Assoc
<1> DEFINE p == o \o j
<1>7. p \in Seq(Byte)
  BY <1>5, Cat
<1>8. Within(p \o r, F, 0)
  BY <1>4, <1>6 DEF k
<1> HIDE DEF p
<1>9. Within(p, F, n)
  BY <1>2, <1>4, <1>7, <1>8, WithinHead
<1> QED
  BY <1>9 DEF p, n, j

(* Each input, output, witness item and witness has its smallest size.     *)
LEMMA SmallestElements ==
  /\ MinInput \in Nat \ {0} /\ MinOutput \in Nat \ {0}
  /\ \A n \in Sizes : /\ Len(InputFn[n]) >= MinInput /\ Len(OutputFn[n]) >= MinOutput
                      /\ Len(BlobFn[n]) >= 1
  /\ ItemsFn \in [Stacks -> Seq(Byte)]
  /\ \A w \in Stacks : Len(ItemsFn[w]) >= 1
<1>1. /\ OutpointSize \in Nat /\ SequenceSize \in Nat /\ AmountSize \in Nat
      /\ MinInput = OutpointSize + 1 + SequenceSize /\ MinOutput = AmountSize + 1
  BY FormatAssumption
<1>2. ASSUME NEW n \in Sizes
      PROVE  /\ Len(InputFn[n]) >= MinInput /\ Len(OutputFn[n]) >= MinOutput
             /\ Len(BlobFn[n]) >= 1
  <2>1. n \in Nat /\ Len(Enc(n)) >= 1 /\ Len(Enc(n)) \in Nat
    BY EncBytes
  <2>2. /\ Len(Blob(n)) = Len(Enc(n)) + n
        /\ Len(InputOf(n)) = OutpointSize + Len(Enc(n)) + n + SequenceSize
        /\ Len(OutputOf(n)) = AmountSize + Len(Enc(n)) + n
    BY BlobBytesOf
  <2>3. InputFn[n] = InputOf(n) /\ OutputFn[n] = OutputOf(n) /\ BlobFn[n] = Blob(n)
    BY DEF InputFn, OutputFn, BlobFn
  <2> QED
    BY <1>1, <2>1, <2>2, <2>3
<1>3. ASSUME NEW w \in Stacks PROVE ItemsOf(w) \in Seq(Byte) /\ Len(ItemsOf(w)) >= 1
  <2> DEFINE e == Enc(Len(w))
             b == BlobBytes(w)
  <2>1. 0 \in Sizes
    BY SmallSize, FormatAssumption
  <2>2. e \in Seq(Byte) /\ Len(e) >= 1 /\ b \in Seq(Byte)
    BY <2>1, EncBytes, ListsGrow DEF Stacks
  <2>3. ItemsOf(w) = e \o b
    BY StackBytes
  <2> HIDE DEF e, b
  <2>4. e \o b \in Seq(Byte) /\ Len(e \o b) = Len(e) + Len(b) /\ Len(e) \in Nat /\ Len(b) \in Nat
    BY <2>2, Cat
  <2> QED
    BY <2>2, <2>3, <2>4
<1>4. ItemsFn \in [Stacks -> Seq(Byte)] /\ \A w \in Stacks : ItemsFn[w] = ItemsOf(w)
  BY <1>3 DEF ItemsFn
<1> QED
  BY <1>1, <1>2, <1>3, <1>4

-----------------------------------------------------------------------------
(* A transaction that can be written, and the beginnings of what is        *)
(* written.                                                                *)

Written(is, os, ws) ==
  /\ is \in Seq(Sizes) /\ os \in Seq(Sizes) /\ ws \in Seq(Stacks)
  /\ Len(is) \in Sizes /\ Len(os) \in Sizes
  /\ is = <<>> => os = <<>> /\ ws = <<>>
  /\ ws # <<>> => Len(ws) = Len(is) /\ \E k \in DOMAIN ws : ws[k] # <<>>

Full(is, os, ws) == WitsRead(ws # <<>>, is, os, ws) \o Zeros(LocktimeSize)

(* The bytes up to some of the stacks start the serialization, which goes  *)
(* on for at least a byte per stack left.                                  *)
LEMMA WitsWithin ==
  ASSUME NEW is, NEW os, NEW ws, Written(is, os, ws), NEW u \in Seq(Stacks), Starts(u, ws)
  PROVE  /\ Full(is, os, ws) \in Seq(Byte)
         /\ Len(Full(is, os, ws)) =
              Len(WitsRead(ws # <<>>, is, os, ws)) + LocktimeSize
         /\ Within(WitsRead(ws # <<>>, is, os, u), Full(is, os, ws), Len(ws) - Len(u))
<1> DEFINE h == ws # <<>>
           F == Full(is, os, ws)
           a == WitsRead(h, is, os, ws)
           b == BodyRead(h, is, os)
           z == Zeros(LocktimeSize)
<1>1. /\ is \in Seq(Sizes) /\ os \in Seq(Sizes) /\ ws \in Seq(Stacks)
      /\ Len(is) \in Sizes /\ Len(os) \in Sizes
  BY DEF Written
<1>2. h \in BOOLEAN
  OBVIOUS
<1> HIDE DEF h
<1>3. a \in Seq(Byte) /\ b \in Seq(Byte)
  BY <1>1, <1>2, WitsGrow
<1>4. z \in Seq(Byte) /\ Len(z) = LocktimeSize
  BY ZerosRun, FormatAssumption
<1>5. F = a \o z
  BY DEF Full, h
<1>6. a = b \o Joined(ItemsFn, ws) /\ WitsRead(h, is, os, u) = b \o Joined(ItemsFn, u)
  <2>1. ASSUME NEW v \in Seq(Stacks) PROVE WitBytes(v) = Joined(ItemsFn, v)
    <3>1. \A k \in DOMAIN v : v[k] \in Stacks
      OBVIOUS
    <3>2. [k \in DOMAIN v |-> ItemsOf(v[k])] = [k \in DOMAIN v |-> ItemsFn[v[k]]]
      BY <3>1 DEF ItemsFn
    <3> QED
      BY <3>2 DEF WitBytes, Joined
  <2> QED
    BY <1>1, <2>1 DEF WitsRead
<1> HIDE DEF F, a, b, z
<1>7. F \in Seq(Byte) /\ Len(F) = Len(a) + LocktimeSize /\ Starts(a, F) /\ Len(a) \in Nat
  BY <1>3, <1>4, <1>5, Cat, StartsConcat
<1>8. Within(a, F, 0)
  BY <1>3, <1>7, FormatAssumption DEF Within
<1>9. Joined(ItemsFn, u) \in Seq(Byte)
  BY SmallestElements, JoinedBytes
<1>10. Within(b \o Joined(ItemsFn, u), F, 1 * (Len(ws) - Len(u)))
  <2>1. ItemsFn \in [Stacks -> Seq(Byte)] /\ \A w \in Stacks : Len(ItemsFn[w]) >= 1
    BY SmallestElements
  <2>2. Within(b \o Joined(ItemsFn, ws), F, 0)
    BY <1>6, <1>8
  <2>3. 1 \in Nat /\ ws \in Seq(Stacks) /\ F \in Seq(Byte) /\ b \in Seq(Byte)
    BY <1>1, <1>3, <1>7
  <2> QED
    BY <1>9, <2>1, <2>2, <2>3, ListWithin
<1>11. 1 * (Len(ws) - Len(u)) = Len(ws) - Len(u)
  BY <1>1
<1> QED
  BY <1>6, <1>7, <1>10, <1>11 DEF F, a, h

(* The same of the outputs, MinOutput bytes each.                          *)
LEMMA OutsWithin ==
  ASSUME NEW is, NEW os, NEW ws, Written(is, os, ws), NEW u \in Seq(Sizes), Starts(u, os)
  PROVE  Within(OutsRead(ws # <<>>, is, u, Len(os)), Full(is, os, ws),
                MinOutput * (Len(os) - Len(u)))
<1> DEFINE h == ws # <<>>
           F == Full(is, os, ws)
           a == BodyRead(h, is, os)
           i == InsRead(h, is, Len(is))
           e == Enc(Len(os))
           o == i \o e
<1>1. /\ is \in Seq(Sizes) /\ os \in Seq(Sizes) /\ ws \in Seq(Stacks)
      /\ Len(is) \in Sizes /\ Len(os) \in Sizes
  BY DEF Written
<1>2. h \in BOOLEAN /\ <<>> \in Seq(Stacks) /\ Starts(<<>>, ws) /\ Len(ws) - Len(<<>>) \in Nat
  BY <1>1 DEF Starts
<1> HIDE DEF h
<1>3. F \in Seq(Byte) /\ Within(a, F, Len(ws) - Len(<<>>)) /\ a \in Seq(Byte) /\ Len(F) \in Nat
  <2>1. WitsRead(h, is, os, <<>>) = a /\ a \in Seq(Byte)
    BY <1>1, <1>2, WitsGrow
  <2>2. F \in Seq(Byte) /\ Within(WitsRead(h, is, os, <<>>), F, Len(ws) - Len(<<>>))
    <3>1. <<>> \in Seq(Stacks) /\ Starts(<<>>, ws)
      BY <1>2
    <3> QED
      BY <3>1, WitsWithin DEF h
  <2> HIDE DEF a, F
  <2> QED
    BY <2>1, <2>2
<1>4. Within(a, F, 0)
  <2>1. Len(a) \in Nat
    BY <1>3
  <2> HIDE DEF a, F
  <2> QED
    BY <1>2, <1>3, <2>1 DEF Within
<1>5. i \in Seq(Byte) /\ e \in Seq(Byte)
  BY <1>1, <1>2, InsGrow, EncBytes
<1>6. o \in Seq(Byte)
  <2> HIDE DEF i, e
  <2> QED
    BY <1>5, Cat
<1>7. OutBytes(os) = Joined(OutputFn, os) /\ OutBytes(u) = Joined(OutputFn, u)
  BY <1>1, AreJoined
<1>8. a = o \o Joined(OutputFn, os)
      /\ OutsRead(h, is, u, Len(os)) = o \o Joined(OutputFn, u)
  BY <1>7 DEF BodyRead, OutsRead
<1> HIDE DEF F, a, o
<1>9. OutputFn \in [Sizes -> Seq(Byte)] /\ MinOutput \in Nat
      /\ \A n \in Sizes : Len(OutputFn[n]) >= MinOutput
  BY FnTypes, SmallestElements
<1>10. Joined(OutputFn, u) \in Seq(Byte)
  BY <1>9, JoinedBytes
<1>11. Within(o \o Joined(OutputFn, os), F, 0)
  BY <1>4, <1>8
<1>12. Within(o \o Joined(OutputFn, u), F, MinOutput * (Len(os) - Len(u)))
  BY <1>1, <1>3, <1>6, <1>9, <1>10, <1>11, ListWithin
<1> QED
  BY <1>8, <1>12 DEF F, h

(* The same of the inputs, MinInput bytes each.                            *)
LEMMA InsWithin ==
  ASSUME NEW is, NEW os, NEW ws, Written(is, os, ws), NEW u \in Seq(Sizes), Starts(u, is)
  PROVE  Within(InsRead(ws # <<>>, u, Len(is)), Full(is, os, ws),
                MinInput * (Len(is) - Len(u)))
<1> DEFINE h == ws # <<>>
           F == Full(is, os, ws)
           a == InsRead(h, is, Len(is))
           i == Opening(h)
           e == Enc(Len(is))
           o == i \o e
           q == Enc(Len(os))
<1>1. /\ is \in Seq(Sizes) /\ os \in Seq(Sizes) /\ ws \in Seq(Stacks)
      /\ Len(is) \in Sizes /\ Len(os) \in Sizes
  BY DEF Written
<1>2. h \in BOOLEAN /\ <<>> \in Seq(Sizes) /\ Starts(<<>>, os) /\ Len(os) - Len(<<>>) \in Nat
  BY <1>1 DEF Starts
<1> HIDE DEF h
<1> DEFINE n == MinOutput * (Len(os) - Len(<<>>))
<1>3. F \in Seq(Byte) /\ Within(a \o q, F, n) /\ a \in Seq(Byte) /\ q \in Seq(Byte)
  <2>1. OutsRead(h, is, <<>>, Len(os)) = a \o q /\ a \in Seq(Byte) /\ q \in Seq(Byte)
    BY <1>1, <1>2, OutsGrow, InsGrow, EncBytes
  <2>2. F \in Seq(Byte)
    <3>1. <<>> \in Seq(Stacks) /\ Starts(<<>>, ws)
      BY <1>1 DEF Starts
    <3> QED
      BY <3>1, WitsWithin
  <2> QED
    BY <1>2, <2>1, <2>2, OutsWithin DEF h
<1>4. Within(a, F, 0)
  <2>1. n \in Nat
    BY <1>2, SmallestElements
  <2> HIDE DEF n, a, q, F
  <2>2. 0 \in Nat /\ 0 <= Len(q) + n
    BY <1>3, <2>1
  <2> QED
    BY <1>3, <2>1, <2>2, WithinHead
<1>5. i \in Seq(Byte) /\ e \in Seq(Byte)
  BY <1>1, <1>2, OpeningBytes, EncBytes
<1>6. o \in Seq(Byte)
  <2> HIDE DEF i, e
  <2> QED
    BY <1>5, Cat
<1>7. InBytes(is) = Joined(InputFn, is) /\ InBytes(u) = Joined(InputFn, u)
  BY <1>1, AreJoined
<1>8. a = o \o Joined(InputFn, is)
      /\ InsRead(h, u, Len(is)) = o \o Joined(InputFn, u)
  BY <1>7 DEF InsRead
<1> HIDE DEF F, a, o
<1>9. InputFn \in [Sizes -> Seq(Byte)] /\ MinInput \in Nat
      /\ \A k \in Sizes : Len(InputFn[k]) >= MinInput
  BY FnTypes, SmallestElements
<1>10. Joined(InputFn, u) \in Seq(Byte)
  BY <1>9, JoinedBytes
<1>11. Within(o \o Joined(InputFn, is), F, 0)
  BY <1>4, <1>8
<1>12. Within(o \o Joined(InputFn, u), F, MinInput * (Len(is) - Len(u)))
  BY <1>1, <1>3, <1>6, <1>9, <1>10, <1>11, ListWithin
<1> QED
  BY <1>8, <1>12 DEF F, h

(* The same of the items of a stack.                                       *)
LEMMA ItemsWithin ==
  ASSUME NEW is, NEW os, NEW ws, Written(is, os, ws),
         NEW done \in Seq(Stacks), Starts(done, ws), Len(done) < Len(ws),
         NEW w, w = ws[Len(done) + 1], NEW u \in Seq(Sizes), Starts(u, w)
  PROVE  /\ w \in Seq(Sizes) /\ Len(w) \in Sizes
         /\ Within(ItemsRead(ws # <<>>, is, os, done, u, Len(w)), Full(is, os, ws),
                   Len(w) - Len(u))
<1> DEFINE h == ws # <<>>
           F == Full(is, os, ws)
           i == WitsRead(h, is, os, done)
           e == Enc(Len(w))
           o == i \o e
           v == Append(done, w)
           a == WitsRead(h, is, os, v)
<1>1. /\ is \in Seq(Sizes) /\ os \in Seq(Sizes) /\ ws \in Seq(Stacks)
      /\ Len(is) \in Sizes /\ Len(os) \in Sizes
  BY DEF Written
<1>2. h \in BOOLEAN
  OBVIOUS
<1>3. w \in Stacks /\ v \in Seq(Stacks) /\ Starts(v, ws) /\ Len(ws) - Len(v) \in Nat
  <2>1. w \in Stacks /\ v \in Seq(Stacks) /\ Starts(v, ws) /\ Len(v) = Len(done) + 1
    BY <1>1, StartsNext
  <2> QED
    BY <1>1, <2>1
<1> HIDE DEF h
<1>4. w \in Seq(Sizes) /\ Len(w) \in Sizes
  BY <1>3 DEF Stacks
<1>5. F \in Seq(Byte) /\ Within(a, F, Len(ws) - Len(v)) /\ Len(F) \in Nat
  <2>1. v \in Seq(Stacks) /\ Starts(v, ws)
    BY <1>3
  <2> HIDE DEF v
  <2>2. F \in Seq(Byte) /\ Within(a, F, Len(ws) - Len(v))
    BY <2>1, WitsWithin DEF h
  <2> HIDE DEF a, F
  <2> QED
    BY <2>2
<1>6. Within(a, F, 0)
  <2>1. a \in Seq(Byte) /\ Len(a) \in Nat
    BY <1>5 DEF Within
  <2> HIDE DEF a, F, v
  <2> QED
    BY <1>3, <1>5, <2>1 DEF Within
<1>7. i \in Seq(Byte) /\ e \in Seq(Byte)
  BY <1>1, <1>2, <1>4, WitsGrow, EncBytes
<1>8. o \in Seq(Byte)
  <2> HIDE DEF i, e
  <2> QED
    BY <1>7, Cat
<1>9. BlobBytes(w) = Joined(BlobFn, w) /\ BlobBytes(u) = Joined(BlobFn, u)
  BY <1>4, AreJoined
<1>10. a = ItemsRead(h, is, os, done, w, Len(w))
  <2>1. w \in Stacks
    BY <1>3
  <2>2. \A x \in Stacks :
          WitsRead(h, is, os, Append(done, x)) = ItemsRead(h, is, os, done, x, Len(x))
    BY <1>1, <1>2, WitsGrow
  <2> QED
    BY <2>1, <2>2
<1>11. a = o \o Joined(BlobFn, w)
       /\ ItemsRead(h, is, os, done, u, Len(w)) = o \o Joined(BlobFn, u)
  BY <1>9, <1>10 DEF ItemsRead
<1> HIDE DEF F, a, o, v
<1>12. BlobFn \in [Sizes -> Seq(Byte)] /\ 1 \in Nat /\ \A k \in Sizes : Len(BlobFn[k]) >= 1
  BY FnTypes, SmallestElements
<1>13. Joined(BlobFn, u) \in Seq(Byte)
  BY <1>12, JoinedBytes
<1>14. Within(o \o Joined(BlobFn, w), F, 0)
  BY <1>6, <1>11
<1>15. Within(o \o Joined(BlobFn, u), F, 1 * (Len(w) - Len(u)))
  BY <1>4, <1>5, <1>8, <1>12, <1>13, <1>14, ListWithin
<1>16. 1 * (Len(w) - Len(u)) = Len(w) - Len(u)
  BY <1>4
<1> QED
  BY <1>4, <1>11, <1>15, <1>16 DEF F, h

-----------------------------------------------------------------------------
(* A CompactSize in an input that begins a serialization.                  *)

(* The prefixes are the bytes above those that are sizes themselves.       *)
LEMMA PrefixByte ==
  ASSUME NEW j \in 1 .. 3
  PROVE  Prefix(j) = Base - 4 + j /\ Prefix(j) \in Byte /\ Prefix(j) \in Nat
<1>1. Base \in Nat /\ Base >= 5
  BY FormatAssumption
<1> QED
  BY <1>1 DEF Prefix, Byte

(* Its first byte tells its form, and its length.                          *)
LEMMA SizeHead ==
  ASSUME NEW cs \in CompactSizes, NEW ds \in CompactSizes, cs.bytes[1] = ds.bytes[1]
  PROVE  cs.form = ds.form /\ Len(cs.bytes) = Len(ds.bytes)
<1> DEFINE Begins(es) == /\ es.form \in {0, 1, 2, 3}
                         /\ es.form = 0 => es.bytes[1] <= Base - 4 /\ Len(es.bytes) = 1
                         /\ es.form # 0 => /\ es.bytes[1] = Base - 4 + es.form
                                           /\ Len(es.bytes) = 1 + Width[es.form]
                         /\ es.bytes[1] \in Nat
<1>1. ASSUME NEW es \in CompactSizes PROVE Begins(es)
  <2>1. CASE es.form = 0 /\ es.value \in 0 .. (Base - 4) /\ es.bytes = <<es.value>>
    BY <2>1, FormatAssumption
  <2>2. ASSUME NEW bs, Announced(es, bs) PROVE Begins(es)
    <3>1. es.form \in 1 .. 3 /\ bs \in Seq(Byte) /\ Len(bs) = Width[es.form]
          /\ es.bytes = <<Prefix(es.form)>> \o bs
      BY <2>2 DEF Announced
    <3> DEFINE p == Prefix(es.form)
               b == es.bytes
    <3>2. p = Base - 4 + es.form /\ p \in Byte /\ p \in Nat
      BY <3>1, PrefixByte
    <3> HIDE DEF p, b
    <3>3. b = <<p>> \o bs /\ <<p>> \in Seq(Byte)
      BY <3>1, <3>2 DEF b, p
    <3>4. Len(b) = 1 + Len(bs) /\ b[1] = p
      BY <3>1, <3>3
    <3> QED
      BY <3>1, <3>2, <3>4 DEF b
  <2> QED
    BY <2>1, <2>2, SizeKinds
<1>2. Begins(cs) /\ Begins(ds)
  BY <1>1
<1>3. Base \in Nat
  BY FormatAssumption
<1>4. cs.form = ds.form
  BY <1>2, <1>3
<1> QED
  BY <1>2, <1>4

(* Its bytes tell its value.                                               *)
LEMMA SizeOnce ==
  ASSUME NEW cs \in CompactSizes, NEW ds \in CompactSizes, cs.bytes = ds.bytes
  PROVE  cs.form = ds.form /\ cs.value = ds.value
<1>1. cs.form = ds.form
  BY SizeHead
<1>2. CASE cs.form = 0
  <2>1. cs.bytes = <<cs.value>> /\ ds.bytes = <<ds.value>>
    BY <1>1, <1>2, SizeFacts
  <2>2. <<cs.value>>[1] = <<ds.value>>[1]
    BY <2>1
  <2> QED
    BY <1>1, <2>2
<1>3. CASE cs.form # 0
  <2>1. PICK bs : Announced(cs, bs)
    BY <1>3, SizeKinds
  <2>2. PICK es : Announced(ds, es)
    BY <1>1, <1>3, SizeKinds
  <2> DEFINE p == Prefix(cs.form)
             b == cs.bytes
  <2>3. /\ bs \in Seq(Byte) /\ es \in Seq(Byte) /\ Len(bs) = Len(es)
        /\ b = <<p>> \o bs /\ b = <<p>> \o es
    BY <1>1, <2>1, <2>2 DEF Announced
  <2>4. p \in Byte
    <3>1. cs.form \in 1 .. 3
      BY <2>1 DEF Announced
    <3> QED
      BY <3>1, PrefixByte
  <2> HIDE DEF p, b
  <2>5. \A i \in 1 .. Len(bs) : bs[i] = b[i + 1] /\ es[i] = b[i + 1]
    <3>1. \A i \in 1 .. Len(bs) : (<<p>> \o bs)[i + 1] = bs[i]
      BY <2>3, <2>4
    <3>2. \A i \in 1 .. Len(es) : (<<p>> \o es)[i + 1] = es[i]
      BY <2>3, <2>4
    <3> QED
      BY <2>3, <3>1, <3>2
  <2>6. bs = es
    BY <2>3, <2>5, SeqEqual
  <2> QED
    BY <1>1, <2>1, <2>2, <2>6 DEF Announced
<1> QED
  BY <1>2, <1>3

(* Where a serialization has the size n, an input that begins it has no    *)
(* other CompactSize, whole or cut off by the end.                         *)
LEMMA SizeForced ==
  ASSUME NEW F \in Seq(Byte), NEW r \in Seq(Byte), NEW n \in Sizes, Starts(r \o Enc(n), F),
         NEW cs \in CompactSizes, NEW t \in Seq(Byte), Starts(t, F),
         Starts(t, r \o cs.bytes), Len(t) = Len(r \o cs.bytes) \/ Len(t) = Len(F)
  PROVE  Canonical(cs) /\ cs.value = n /\ cs.bytes = Enc(n)
<1>1. PICK ds \in CompactSizes : Canonical(ds) /\ ds.value = n /\ ds.bytes = Enc(n)
  BY EncBytes
<1> DEFINE b == cs.bytes
           e == ds.bytes
           l == Len(r)
           rb == r \o b
           re == r \o e
<1>2. b \in Seq(Byte) /\ e \in Seq(Byte) /\ Len(b) \in Nat /\ Len(e) \in Nat
      /\ Len(b) >= 1 /\ Len(e) >= 1
  BY SizeFacts
<1>3. l \in Nat /\ Len(F) \in Nat /\ Len(t) \in Nat
  OBVIOUS
<1> HIDE DEF b, e
<1>4. Len(rb) = l + Len(b) /\ \A i \in 1 .. Len(b) : rb[l + i] = b[i]
  BY <1>2
<1>5. Len(re) = l + Len(e) /\ \A i \in 1 .. Len(e) : re[l + i] = e[i]
  BY <1>2
<1>6. Starts(t, rb) /\ Starts(re, F) /\ (Len(t) = Len(rb) \/ Len(t) = Len(F))
  BY <1>1 DEF b, e
<1> HIDE DEF rb, re, l
<1>7. Len(t) >= l + 1
  BY <1>2, <1>3, <1>4, <1>5, <1>6 DEF Starts
<1>8. \A i \in 1 .. Len(t) : t[i] = rb[i] /\ t[i] = F[i]
  BY <1>6 DEF Starts
<1>9. \A i \in 1 .. Len(re) : re[i] = F[i]
  BY <1>6 DEF Starts
<1>10. b[1] = e[1]
  <2>1. rb[l + 1] = b[1] /\ re[l + 1] = e[1]
    BY <1>2, <1>4, <1>5
  <2>2. l + 1 \in 1 .. Len(t) /\ l + 1 \in 1 .. Len(re)
    BY <1>2, <1>3, <1>5, <1>7
  <2> QED
    BY <1>8, <1>9, <2>1, <2>2
<1>11. Len(b) = Len(e)
  BY <1>10, SizeHead DEF b, e
<1>12. Len(t) = l + Len(b)
  BY <1>2, <1>3, <1>4, <1>5, <1>6, <1>11 DEF Starts
<1>13. \A i \in 1 .. Len(b) : b[i] = e[i]
  <2>1. SUFFICES ASSUME NEW i \in 1 .. Len(b) PROVE b[i] = e[i]
    OBVIOUS
  <2>2. rb[l + i] = b[i] /\ re[l + i] = e[i]
    BY <1>4, <1>5, <1>11
  <2>3. l + i \in 1 .. Len(t) /\ l + i \in 1 .. Len(re)
    BY <1>2, <1>3, <1>5, <1>11, <1>12
  <2> QED
    BY <1>8, <1>9, <2>2, <2>3
<1>14. b = e
  BY <1>2, <1>11, <1>13, SeqEqual
<1>15. cs.form = ds.form /\ cs.value = ds.value
  BY <1>14, SizeOnce DEF b, e
<1> QED
  BY <1>1, <1>14, <1>15 DEF Canonical, b, e

(* Rejecting reads what there is of the bytes.                             *)
LEMMA RejectReads ==
  ASSUME StateOK, NEW bs \in Seq(Byte), Reject(bs)
  PROVE  /\ raw' \in Seq(Byte) /\ Starts(raw', raw \o bs) /\ Starts(raw, raw')
         /\ Len(raw') = Len(raw \o bs) \/ Len(raw') = length
<1>1. raw \in Seq(Byte) /\ length \in Nat /\ Len(raw) \in Nat /\ Len(bs) \in Nat
      /\ Len(raw) <= length
  BY DEF StateOK, TypeOK, Offset
<1>2. CASE Available(Len(bs))
  <2>1. raw' = raw \o bs
    BY <1>2 DEF Reject
  <2>2. raw \o bs \in Seq(Byte)
    BY <1>1, Cat
  <2> QED
    BY <1>1, <2>1, <2>2, StartsConcat
<1>3. CASE ~Available(Len(bs))
  <2> DEFINE r == length - Len(raw)
             part == SubSeq(bs, 1, r)
  <2>1. raw' = raw \o part /\ ~(Len(bs) <= r)
    BY <1>3 DEF Reject, Available, Remaining, Offset
  <2>2. r \in Nat /\ r <= Len(bs) /\ Len(raw) + r = length
    BY <1>1, <2>1
  <2> HIDE DEF r
  <2>3. part \in Seq(Byte) /\ Len(part) = r /\ \A i \in 1 .. r : part[i] = bs[i]
    BY <1>1, <2>2
  <2> HIDE DEF part
  <2>4. raw' \in Seq(Byte) /\ Len(raw') = length /\ Starts(raw, raw')
    BY <1>1, <2>1, <2>2, <2>3, Cat, StartsConcat
  <2>5. Starts(raw \o part, raw \o bs)
    <3> DEFINE a == raw \o part
               b == raw \o bs
    <3>1. Len(a) = Len(raw) + r /\ Len(b) = Len(raw) + Len(bs)
      BY <1>1, <2>3
    <3>3. /\ \A i \in 1 .. (Len(raw) + r) :
                a[i] = IF i <= Len(raw) THEN raw[i] ELSE part[i - Len(raw)]
          /\ \A i \in 1 .. (Len(raw) + Len(bs)) :
                b[i] = IF i <= Len(raw) THEN raw[i] ELSE bs[i - Len(raw)]
      BY <1>1, <2>3, ConcatProperties
    <3> HIDE DEF a, b
    <3>2. ASSUME NEW i \in 1 .. (Len(raw) + r) PROVE a[i] = b[i]
      <4>1. CASE i <= Len(raw)
        BY <1>1, <2>2, <3>3, <4>1
      <4>2. CASE i > Len(raw)
        <5>1. a[i] = part[i - Len(raw)] /\ b[i] = bs[i - Len(raw)]
          BY <1>1, <2>2, <3>3, <4>2
        <5>2. i - Len(raw) \in 1 .. r
          BY <1>1, <2>2, <4>2
        <5> QED
          BY <2>3, <5>1, <5>2
      <4> QED
        BY <1>1, <2>2, <4>1, <4>2
    <3> QED
      BY <1>1, <2>2, <3>1, <3>2 DEF Starts, a, b
  <2> QED
    BY <2>1, <2>4, <2>5
<1> QED
  BY <1>2, <1>3

(* Where the serialization has the size n behind z, the step that reads z  *)
(* and a CompactSize from its beginning reads n, and what follows is there.*)
LEMMA SizeRead ==
  ASSUME StateOK, NEW F \in Seq(Byte), Len(F) = length, NEW z \in Seq(Byte), NEW n \in Sizes,
         NEW m \in Nat, Within(raw \o z \o Enc(n), F, m), NEW cs \in CompactSizes,
         raw' \in Seq(Byte), Starts(raw', F),
         Reject(z \o cs.bytes) \/ Starts(raw \o z \o cs.bytes, raw')
  PROVE  /\ Canonical(cs) /\ cs.value = n /\ cs.bytes = Enc(n)
         /\ Len(raw) + Len(z) + Len(cs.bytes) + m <= length
<1> DEFINE r == raw \o z
           b == cs.bytes
           e == Enc(n)
<1>1. raw \in Seq(Byte) /\ b \in Seq(Byte) /\ e \in Seq(Byte)
  BY SizeFacts, EncBytes DEF StateOK, TypeOK
<1>2. r \in Seq(Byte) /\ Len(r) = Len(raw) + Len(z) /\ Len(raw) \in Nat /\ Len(z) \in Nat
  BY <1>1, Cat
<1>3. Within(r \o e, F, m)
  OBVIOUS
<1>4. raw \o z \o b = raw \o (z \o b) /\ z \o b \in Seq(Byte)
  <2> HIDE DEF b
  <2> QED
    BY <1>1, Assoc
<1> HIDE DEF r, e
<1>5. r \o b \in Seq(Byte) /\ Starts(r \o e, F) /\ r \o e \in Seq(Byte)
      /\ Len(r \o e) = Len(r) + Len(e) /\ Len(r \o e) + m <= Len(F)
  <2> HIDE DEF b
  <2> QED
    BY <1>1, <1>2, <1>3, Cat DEF Within
<1>6. cs.value = n /\ Canonical(cs) /\ b = e
  <2>1. CASE Reject(z \o b)
    <3>1. /\ Starts(raw', raw \o (z \o b))
          /\ Len(raw') = Len(raw \o (z \o b)) \/ Len(raw') = length
      BY <1>4, <2>1, RejectReads
    <3>2. Starts(raw', r \o b) /\ (Len(raw') = Len(r \o b) \/ Len(raw') = Len(F))
      BY <1>4, <3>1 DEF r
    <3> QED
      BY <1>2, <1>5, <3>2, SizeForced DEF e
  <2>2. CASE Starts(raw \o z \o b, raw')
    <3> DEFINE t == r \o b
    <3>1. Starts(t, raw') /\ t \in Seq(Byte)
      BY <1>5, <2>2 DEF r
    <3>2. t = r \o b
      OBVIOUS
    <3> HIDE DEF t
    <3>3. Starts(t, F)
      BY <3>1, StartsTrans
    <3>4. Starts(t, t)
      BY <3>1 DEF Starts
    <3>5. Starts(t, r \o b) /\ Len(t) = Len(r \o b)
      BY <3>2, <3>4
    <3> QED
      BY <1>2, <1>5, <3>1, <3>3, <3>5, SizeForced DEF e
  <2> QED
    BY <2>1, <2>2
<1>7. Len(raw) + Len(z) + Len(b) + m <= length
  <2> HIDE DEF b
  <2> QED
    BY <1>1, <1>2, <1>5, <1>6
<1> QED
  BY <1>6, <1>7 DEF e

(* The same without bytes in front.                                        *)
LEMMA CountRead ==
  ASSUME StateOK, NEW F \in Seq(Byte), Len(F) = length, NEW n \in Sizes,
         NEW m \in Nat, Within(raw \o Enc(n), F, m), NEW cs \in CompactSizes,
         raw' \in Seq(Byte), Starts(raw', F),
         Reject(cs.bytes) \/ Starts(raw \o cs.bytes, raw')
  PROVE  /\ Canonical(cs) /\ cs.value = n /\ cs.bytes = Enc(n)
         /\ Len(raw) + Len(cs.bytes) + m <= length
         /\ Reads(cs)
<1>1. raw \in Seq(Byte) /\ cs.bytes \in Seq(Byte) /\ <<>> \in Seq(Byte) /\ Len(<<>>) = 0
      /\ length \in Nat /\ Len(raw) \in Nat /\ Len(cs.bytes) \in Nat
  BY SizeFacts DEF StateOK, TypeOK
<1>2. raw \o <<>> = raw /\ <<>> \o cs.bytes = cs.bytes
  BY <1>1, ConcatEmptySeq
<1>3. Within(raw \o <<>> \o Enc(n), F, m)
      /\ (Reject(<<>> \o cs.bytes) \/ Starts(raw \o <<>> \o cs.bytes, raw'))
  BY <1>2
<1>4. /\ Canonical(cs) /\ cs.value = n /\ cs.bytes = Enc(n)
      /\ Len(raw) + Len(<<>>) + Len(cs.bytes) + m <= length
  BY <1>1, <1>3, SizeRead
<1>5. Len(raw) + Len(cs.bytes) + m <= length
  BY <1>1, <1>4
<1> QED
  BY <1>1, <1>4, <1>5 DEF Reads, Available, Remaining, Offset

(* No count of elements that fit is too many.                              *)
LEMMA NotTooMany ==
  ASSUME NEW c \in Nat, NEW rest \in Nat, NEW size \in Nat \ {0}, size * c <= rest
  PROVE  ~TooMany(c, rest, size)
<1> DEFINE q == rest \div size
<1>1. q \in Nat /\ rest < size * (q + 1)
  OBVIOUS
<1>2. ASSUME c >= q + 1 PROVE FALSE
  <2>1. size * c >= size * (q + 1)
    BY <1>1, <1>2
  <2> QED
    BY <1>1, <2>1
<1>3. c <= q
  BY <1>1, <1>2
<1> QED
  BY <1>1, <1>3 DEF TooMany

(* Reading begins with reading a part.                                     *)
LEMMA ReadStarts ==
  ASSUME StateOK, NEW u \in Seq(Byte), NEW v \in Seq(Byte), NEW to, Read(u \o v, to)
  PROVE  Starts(raw \o u, raw')
<1>1. raw \in Seq(Byte) /\ raw' = raw \o (u \o v)
  BY DEF StateOK, TypeOK, Read
<1>2. raw \o u \in Seq(Byte) /\ raw \o u \o v = raw \o (u \o v)
  <2>1. raw \in Seq(Byte)
    BY <1>1
  <2> QED
    BY <2>1, Assoc, Cat
<1> DEFINE r == raw \o u
<1>3. raw' = r \o v /\ r \in Seq(Byte)
  BY <1>1, <1>2
<1> HIDE DEF r
<1>4. Starts(r, raw')
  BY <1>3, StartsConcat
<1> QED
  BY <1>4 DEF r

(* An element is read from its CompactSize on.                             *)
LEMMA ElementReads ==
  ASSUME StateOK, NEW cs \in CompactSizes, NEW to
  PROVE  /\ Read(InputBytes(cs), to) => Starts(raw \o Zeros(OutpointSize) \o cs.bytes, raw')
         /\ Read(OutputBytes(cs), to) => Starts(raw \o Zeros(AmountSize) \o cs.bytes, raw')
         /\ Read(ItemBytes(cs), to) => Starts(raw \o cs.bytes, raw')
         /\ Read(cs.bytes, to) => Starts(raw \o cs.bytes, raw')
<1> DEFINE b == cs.bytes
           p == Zeros(OutpointSize)
           a == Zeros(AmountSize)
           q == Zeros(cs.value)
           s == Zeros(SequenceSize)
<1>1. /\ b \in Seq(Byte) /\ q \in Seq(Byte) /\ p \in Seq(Byte) /\ a \in Seq(Byte)
      /\ s \in Seq(Byte)
  BY SizeFacts, ZerosRun, FormatAssumption
<1>2. raw \in Seq(Byte)
  BY DEF StateOK, TypeOK
<1>3. InputBytes(cs) = p \o b \o q \o s /\ OutputBytes(cs) = a \o b \o q /\ ItemBytes(cs) = b \o q
  BY DEF InputBytes, OutputBytes, ItemBytes
<1> HIDE DEF b, p, a, q, s
<1>4. /\ p \o b \in Seq(Byte) /\ a \o b \in Seq(Byte)
      /\ raw \o p \o b = raw \o (p \o b) /\ raw \o a \o b = raw \o (a \o b)
  BY <1>1, <1>2, Assoc
<1>5. ASSUME Read(p \o b \o q \o s, to) PROVE Starts(raw \o (p \o b), raw')
  <2> DEFINE u == p \o b
  <2>1. u \in Seq(Byte)
    BY <1>4
  <2> HIDE DEF u
  <2>2. u \o q \o s = u \o (q \o s) /\ q \o s \in Seq(Byte)
    BY <1>1, <2>1, Assoc
  <2>3. Read(u \o (q \o s), to)
    BY <1>5, <2>2 DEF u
  <2>4. Starts(raw \o u, raw')
    BY <2>1, <2>2, <2>3, ReadStarts
  <2> QED
    BY <2>4 DEF u
<1>6. ASSUME Read(a \o b \o q, to) PROVE Starts(raw \o (a \o b), raw')
  BY <1>1, <1>4, <1>6, ReadStarts
<1>7. ASSUME Read(b \o q, to) PROVE Starts(raw \o b, raw')
  BY <1>1, <1>7, ReadStarts
<1>8. ASSUME Read(b, to) PROVE Starts(raw \o b, raw')
  <2>1. raw' = raw \o b /\ raw \o b \in Seq(Byte)
    BY <1>1, <1>2, <1>8, Cat DEF Read
  <2> QED
    BY <2>1, StartsConcat
<1>9. /\ Read(InputBytes(cs), to) => Starts(raw \o p \o b, raw')
      /\ Read(OutputBytes(cs), to) => Starts(raw \o a \o b, raw')
      /\ Read(ItemBytes(cs), to) => Starts(raw \o b, raw')
      /\ Read(b, to) => Starts(raw \o b, raw')
  BY <1>3, <1>4, <1>5, <1>6, <1>7, <1>8
<1> QED
  BY <1>9 DEF p, a, b

(* Associativity, without the memberships.                                 *)
LEMMA AssocEq ==
  ASSUME NEW u \in Seq(Byte), NEW v \in Seq(Byte), NEW w \in Seq(Byte)
  PROVE  u \o (v \o w) = (u \o v) \o w
BY Assoc

(* What begins with r, z and e, and goes on with w.                        *)
LEMMA PartsWithin ==
  ASSUME NEW F \in Seq(Byte), NEW r \in Seq(Byte), NEW z \in Seq(Byte), NEW e \in Seq(Byte),
         NEW w \in Seq(Byte), NEW m \in Nat, m <= Len(w),
         Within(r \o (z \o (e \o w)), F, 0)
  PROVE  Within(r \o z \o e, F, m)
<1> DEFINE t == r \o z
           u == t \o e
           v == e \o w
<1>1. t \in Seq(Byte)
  BY Cat
<1>2. v \in Seq(Byte)
  BY Cat
<1>3. r \o (z \o v) = t \o v
  <2> HIDE DEF v
  <2> QED
    BY <1>2, AssocEq
<1>4. Within(t \o v, F, 0)
  BY <1>3
<1> HIDE DEF t
<1>5. t \o (e \o w) = u \o w
  BY <1>1, Assoc
<1>6. u \in Seq(Byte)
  BY <1>1, Cat
<1> HIDE DEF u
<1>7. Within(u \o w, F, 0) /\ m <= Len(w) + 0
  BY <1>4, <1>5
<1>8. Within(u, F, m)
  BY <1>6, <1>7, WithinHead
<1> QED
  BY <1>8 DEF t, u

(* The same without a fixed field in front.                                *)
LEMMA PartWithin ==
  ASSUME NEW F \in Seq(Byte), NEW r \in Seq(Byte), NEW e \in Seq(Byte),
         NEW w \in Seq(Byte), NEW m \in Nat, m <= Len(w), Within(r \o (e \o w), F, 0)
  PROVE  Within(r \o e, F, m)
<1> DEFINE u == r \o e
<1>1. u \in Seq(Byte) /\ r \o (e \o w) = u \o w
  BY Assoc, Cat
<1> HIDE DEF u
<1>2. Within(u \o w, F, 0) /\ m <= Len(w) + 0
  BY <1>1
<1>3. Within(u, F, m)
  BY <1>1, <1>2, WithinHead
<1> QED
  BY <1>3 DEF u

(* A serialization that has an element next has its size next.             *)
LEMMA ElementWithin ==
  ASSUME NEW F \in Seq(Byte), NEW r \in Seq(Byte), NEW n \in Sizes
  PROVE  /\ Within(r \o InputOf(n), F, 0) =>
              Within(r \o Zeros(OutpointSize) \o Enc(n), F, n + SequenceSize)
         /\ Within(r \o OutputOf(n), F, 0) =>
              Within(r \o Zeros(AmountSize) \o Enc(n), F, n)
         /\ Within(r \o Blob(n), F, 0) => Within(r \o Enc(n), F, n)
<1> DEFINE e == Enc(n)
           p == Zeros(OutpointSize)
           a == Zeros(AmountSize)
           q == Zeros(n)
           s == Zeros(SequenceSize)
<1>1. /\ e \in Seq(Byte) /\ q \in Seq(Byte) /\ p \in Seq(Byte) /\ a \in Seq(Byte)
      /\ s \in Seq(Byte)
  BY EncBytes, ZerosRun, FormatAssumption
<1>2. InputOf(n) = p \o (e \o q) \o s /\ OutputOf(n) = a \o (e \o q) /\ Blob(n) = e \o q
  BY DEF InputOf, OutputOf, Blob
<1>3. Len(q) = n /\ Len(s) = SequenceSize /\ n \in Nat /\ SequenceSize \in Nat
  BY EncBytes, ZerosRun, FormatAssumption
<1> HIDE DEF e, p, a, q, s
<1>4. /\ q \o s \in Seq(Byte) /\ Len(q \o s) = Len(q) + Len(s)
      /\ p \o (e \o q) \o s = p \o (e \o (q \o s))
  <2>1. q \o s \in Seq(Byte) /\ Len(q \o s) = Len(q) + Len(s)
    BY <1>1, Cat
  <2>2. p \o (e \o q) \o s = p \o (e \o (q \o s))
    <3> DEFINE v == e \o q
    <3>1. v \in Seq(Byte)
      BY <1>1, Cat
    <3>2. v \o s = e \o (q \o s)
      BY <1>1, Assoc
    <3> HIDE DEF v
    <3>3. p \o v \o s = p \o (v \o s)
      <4>1. p \in Seq(Byte) /\ s \in Seq(Byte)
        BY <1>1
      <4> QED
        BY <3>1, <4>1, AssocEq
    <3> QED
      BY <3>2, <3>3 DEF v
  <2> QED
    BY <2>1, <2>2
<1>5. ASSUME Within(r \o InputOf(n), F, 0) PROVE Within(r \o p \o e, F, n + SequenceSize)
  <2> DEFINE w == q \o s
             m == n + SequenceSize
  <2>1. w \in Seq(Byte) /\ m \in Nat /\ m <= Len(w) /\ Within(r \o (p \o (e \o w)), F, 0)
    BY <1>2, <1>3, <1>4, <1>5
  <2> HIDE DEF w, m
  <2>2. Within(r \o p \o e, F, m)
    BY <1>1, <2>1, PartsWithin
  <2> QED
    BY <2>2 DEF m
<1>6. ASSUME Within(r \o OutputOf(n), F, 0) PROVE Within(r \o a \o e, F, n)
  <2>1. Within(r \o (a \o (e \o q)), F, 0)
    BY <1>2, <1>6
  <2>2. n <= Len(q)
    BY <1>3
  <2> QED
    BY <1>1, <1>3, <2>1, <2>2, PartsWithin
<1>7. ASSUME Within(r \o Blob(n), F, 0) PROVE Within(r \o e, F, n)
  <2>1. Within(r \o (e \o q), F, 0)
    BY <1>2, <1>7
  <2>2. n <= Len(q)
    BY <1>3
  <2> QED
    BY <1>1, <1>3, <2>1, <2>2, PartWithin
<1> QED
  BY <1>5, <1>6, <1>7 DEF e, p, a

-----------------------------------------------------------------------------
(* What begins with a serialization is read as what was written.           *)

(* Where the reader is in the serialization of is, os and ws, while what   *)
(* it has read begins it.                                                  *)
OnItem(done, w, ws) ==
  /\ done \in Seq(Stacks) /\ w \in Seq(Sizes) /\ wits = Append(done, w)
  /\ Starts(done, ws) /\ Len(done) < Len(ws)
  /\ Starts(w, ws[Len(done) + 1]) /\ Len(w) + itemsLeft = Len(ws[Len(done) + 1])

Follows(is, os, ws) ==
  /\ pc # "rejected"
  /\ pc = "flag" => is = <<>> \/ ws # <<>>
  /\ pc \in Fields \ {"version", "inputCount", "flag"} => (hasWitness <=> ws # <<>>)
  /\ pc \in {"checkInputs", "inputs"} => Len(ins) + left = Len(is) /\ Starts(ins, is)
  /\ pc \in {"outputCount", "outputs"} \cup AfterBody => ins = is
  /\ pc = "outputs" => Len(outs) + left = Len(os) /\ Starts(outs, os)
  /\ pc \in AfterBody => outs = os
  /\ pc = "witness" => Starts(wits, ws)
  /\ pc = "items" => \E done, w : OnItem(done, w, ws)
  /\ pc \in {"locktime", "accepted"} => wits = ws

Aims(is, os, ws)  == Written(is, os, ws) /\ Len(Full(is, os, ws)) = length
Ahead(is, os, ws) == raw \in Seq(Byte) /\ Starts(raw, Full(is, os, ws))

FollowInv == \A is, os, ws : Aims(is, os, ws) /\ Ahead(is, os, ws) => Follows(is, os, ws)

(* Types of a transaction and its serialization.                           *)
LEMMA WrittenFacts ==
  ASSUME NEW is, NEW os, NEW ws, Written(is, os, ws)
  PROVE  /\ is \in Seq(Sizes) /\ os \in Seq(Sizes) /\ ws \in Seq(Stacks)
         /\ Len(is) \in Sizes /\ Len(os) \in Sizes /\ Len(is) \in Nat /\ Len(os) \in Nat
         /\ Len(ws) \in Nat /\ (ws # <<>>) \in BOOLEAN
         /\ Full(is, os, ws) \in Seq(Byte) /\ Len(Full(is, os, ws)) \in Nat
<1>1. /\ is \in Seq(Sizes) /\ os \in Seq(Sizes) /\ ws \in Seq(Stacks)
      /\ Len(is) \in Sizes /\ Len(os) \in Sizes
  BY DEF Written
<1>2. <<>> \in Seq(Stacks) /\ Starts(<<>>, ws)
  BY <1>1 DEF Starts
<1>3. Full(is, os, ws) \in Seq(Byte)
  BY <1>2, WitsWithin
<1> QED
  BY <1>1, <1>3

(* The counts in a serialization, and the smallest rest behind them.       *)
LEMMA InCountWithin ==
  ASSUME NEW is, NEW os, NEW ws, Written(is, os, ws)
  PROVE  /\ Within(Opening(ws # <<>>) \o Enc(Len(is)), Full(is, os, ws), MinInput * Len(is))
         /\ Within(Opening(ws # <<>>), Full(is, os, ws), 1)
<1> DEFINE h == ws # <<>>
           F == Full(is, os, ws)
           o == Opening(h)
           e == Enc(Len(is))
           n == MinInput * Len(is)
<1>1. /\ is \in Seq(Sizes) /\ Len(is) \in Sizes /\ Len(is) \in Nat /\ h \in BOOLEAN
      /\ F \in Seq(Byte) /\ Len(F) \in Nat
  BY WrittenFacts
<1>2. <<>> \in Seq(Sizes) /\ Starts(<<>>, is) /\ Len(is) - Len(<<>>) = Len(is)
  BY <1>1 DEF Starts
<1> HIDE DEF h, F
<1>3. InsRead(h, <<>>, Len(is)) = o \o e
  BY <1>1, InsGrow
<1>4. Within(InsRead(h, <<>>, Len(is)), F, n)
  <2>1. Within(InsRead(h, <<>>, Len(is)), F, MinInput * (Len(is) - Len(<<>>)))
    BY <1>2, InsWithin DEF h, F
  <2> QED
    BY <1>2, <2>1
<1>5. o \in Seq(Byte) /\ e \in Seq(Byte) /\ Len(e) >= 1 /\ Len(e) \in Nat /\ n \in Nat
  <2>1. o \in Seq(Byte)
    BY <1>1, OpeningBytes
  <2>2. e \in Seq(Byte) /\ Len(e) >= 1 /\ Len(e) \in Nat
    BY <1>1, EncBytes
  <2>3. MinInput \in Nat
    BY SmallestElements
  <2>4. n \in Nat
    BY <1>1, <2>3
  <2> QED
    BY <2>1, <2>2, <2>4
<1> HIDE DEF o, e, n
<1>6. 1 \in Nat /\ 1 <= Len(e) + n
  BY <1>5
<1>7. Within(o \o e, F, n)
  BY <1>3, <1>4
<1>8. Within(o, F, 1)
  BY <1>1, <1>5, <1>6, <1>7, WithinHead
<1> QED
  BY <1>7, <1>8 DEF h, F, o, e, n

(* The bytes up to the number of outputs.                                  *)
LEMMA OutCountWithin ==
  ASSUME NEW is, NEW os, NEW ws, Written(is, os, ws)
  PROVE  Within(InsRead(ws # <<>>, is, Len(is)) \o Enc(Len(os)), Full(is, os, ws),
                MinOutput * Len(os))
<1> DEFINE h == ws # <<>>
           F == Full(is, os, ws)
<1>1. /\ is \in Seq(Sizes) /\ os \in Seq(Sizes) /\ Len(is) \in Sizes /\ Len(os) \in Sizes
      /\ Len(os) \in Nat /\ h \in BOOLEAN
  BY WrittenFacts
<1>2. <<>> \in Seq(Sizes) /\ Starts(<<>>, os) /\ Len(os) - Len(<<>>) = Len(os)
  BY <1>1 DEF Starts
<1> HIDE DEF h, F
<1>3. OutsRead(h, is, <<>>, Len(os)) = InsRead(h, is, Len(is)) \o Enc(Len(os))
  BY <1>1, OutsGrow
<1>4. Within(OutsRead(h, is, <<>>, Len(os)), F, MinOutput * (Len(os) - Len(<<>>)))
  BY <1>2, OutsWithin DEF h, F
<1> QED
  BY <1>2, <1>3, <1>4 DEF h, F

(* The bytes up to the number of items of a stack.                         *)
LEMMA ItemCountWithin ==
  ASSUME NEW is, NEW os, NEW ws, Written(is, os, ws),
         NEW done \in Seq(Stacks), Starts(done, ws), Len(done) < Len(ws),
         NEW w, w = ws[Len(done) + 1]
  PROVE  /\ w \in Seq(Sizes) /\ Len(w) \in Sizes /\ Len(w) \in Nat
         /\ Within(WitsRead(ws # <<>>, is, os, done) \o Enc(Len(w)), Full(is, os, ws), Len(w))
<1> DEFINE h == ws # <<>>
           F == Full(is, os, ws)
<1>1. /\ is \in Seq(Sizes) /\ os \in Seq(Sizes) /\ Len(is) \in Sizes /\ Len(os) \in Sizes
      /\ h \in BOOLEAN
  BY WrittenFacts
<1>2. w \in Stacks
  BY WrittenFacts, StartsNext
<1>3. w \in Seq(Sizes) /\ Len(w) \in Sizes /\ Len(w) \in Nat
  BY <1>2 DEF Stacks
<1>4. <<>> \in Seq(Sizes) /\ Starts(<<>>, w) /\ Len(w) - Len(<<>>) = Len(w)
  BY <1>3 DEF Starts
<1> HIDE DEF h, F
<1>5. ItemsRead(h, is, os, done, <<>>, Len(w)) = WitsRead(h, is, os, done) \o Enc(Len(w))
  <2> DEFINE c == Len(w)
  <2>1. c \in Sizes
    BY <1>3
  <2> HIDE DEF c
  <2>2. ItemsRead(h, is, os, done, <<>>, c) = WitsRead(h, is, os, done) \o Enc(c)
    BY <1>1, <2>1, ItemsStart
  <2> QED
    BY <2>2 DEF c
<1>6. Within(ItemsRead(h, is, os, done, <<>>, Len(w)), F, Len(w) - Len(<<>>))
  BY <1>4, ItemsWithin DEF h, F
<1> QED
  BY <1>3, <1>4, <1>5, <1>6 DEF h, F

(* The bytes where the witness flag may be.                                *)
LEMMA FlagWithin ==
  ASSUME NEW is, NEW os, NEW ws, Written(is, os, ws)
  PROVE  /\ ws # <<>> => /\ Within(Zeros(VersionSize) \o <<0>> \o <<1>>, Full(is, os, ws), 0)
                         /\ Within(Zeros(VersionSize) \o <<0>>, Full(is, os, ws), 0)
         /\ ws = <<>> => Opening(ws # <<>>) = Zeros(VersionSize)
         /\ is = <<>> => Within(Zeros(VersionSize) \o <<0>> \o <<0>>, Full(is, os, ws), 0)
<1> DEFINE F == Full(is, os, ws)
           z == Zeros(VersionSize)
           t == z \o <<0>>
<1>1. F \in Seq(Byte) /\ Len(F) \in Nat
  BY WrittenFacts
<1>2. z \in Seq(Byte) /\ <<0>> \in Seq(Byte) /\ <<1>> \in Seq(Byte)
      /\ 0 \in 0 .. (Base - 4) /\ Len(<<0>>) = 1 /\ Len(<<1>>) = 1
  <2>1. 0 \in Byte /\ 1 \in Byte /\ 0 \in 0 .. (Base - 4)
    BY FormatAssumption DEF Byte
  <2> QED
    BY <2>1, ZerosRun, FormatAssumption
<1>3. t \in Seq(Byte)
  BY <1>2, Cat
<1>4. ASSUME ws # <<>> PROVE Within(t \o <<1>>, F, 0) /\ Within(t, F, 0)
  <2>1. (ws # <<>>) = TRUE
    BY <1>4
  <2>2. Opening(ws # <<>>) = t \o <<1>>
    BY <2>1, OpeningBytes
  <2>3. Within(Opening(ws # <<>>), F, 1)
    BY InCountWithin
  <2> HIDE DEF t, F
  <2>4. Within(t \o <<1>>, F, 1)
    BY <2>2, <2>3
  <2>5. 0 \in Nat /\ 1 \in Nat /\ 0 <= Len(<<1>>) + 1
    BY <1>2
  <2>6. Within(t, F, 0)
    BY <1>1, <1>2, <1>3, <2>4, <2>5, WithinHead
  <2>7. Within(t \o <<1>>, F, 0)
    <3>1. t \o <<1>> \in Seq(Byte) /\ Len(t \o <<1>>) \in Nat
      BY <1>2, <1>3, Cat
    <3> DEFINE u == t \o <<1>>
    <3> HIDE DEF u
    <3>2. Len(u) \in Nat /\ Within(u, F, 1)
      BY <2>4, <3>1 DEF u
    <3>3. Within(u, F, 0)
      BY <1>1, <3>2 DEF Within
    <3> QED
      BY <3>3 DEF u
  <2> QED
    BY <2>6, <2>7
<1>5. ASSUME ws = <<>> PROVE Opening(ws # <<>>) = z
  <2>1. (ws # <<>>) = FALSE
    BY <1>5
  <2> QED
    BY <2>1, OpeningBytes
<1>6. ASSUME is = <<>> PROVE Within(t \o <<0>>, F, 0)
  <2>1. os = <<>> /\ ws = <<>>
    BY <1>6 DEF Written
  <2>2. Len(is) = 0 /\ Len(os) = 0
    BY <1>6, <2>1
  <2>3. Enc(0) = <<0>> /\ 0 \in Sizes
    BY <1>2, SmallSize
  <2>4. InsRead(ws # <<>>, is, Len(is)) = t
    <3>1. InsRead(FALSE, <<>>, 0) = Opening(FALSE) \o Enc(0)
      <4>1. <<>> \in Seq(Sizes) /\ FALSE \in BOOLEAN
        OBVIOUS
      <4> QED
        BY <2>3, <4>1, InsGrow
    <3>2. (ws # <<>>) = FALSE /\ Opening(FALSE) = z
      BY <2>1, OpeningBytes
    <3> QED
      BY <1>6, <2>2, <2>3, <3>1, <3>2
  <2>5. Within(InsRead(ws # <<>>, is, Len(is)) \o Enc(Len(os)), F, MinOutput * Len(os))
    BY OutCountWithin
  <2>6. MinOutput * 0 = 0
    BY SmallestElements
  <2> HIDE DEF t, F
  <2> QED
    BY <2>2, <2>3, <2>4, <2>5, <2>6
<1> QED
  BY <1>4, <1>5, <1>6

(* One step of a reader whose input begins the serialization, by field.    *)
LEMMA FollowVersion ==
  ASSUME NEW is, NEW os, NEW ws, Aims(is, os, ws), ReadInv, Follows(is, os, ws),
         Ahead(is, os, ws)', ReadVersion
  PROVE  Follows(is, os, ws)'
<1> DEFINE o == Opening(ws # <<>>)
           F == Full(is, os, ws)
<1>1. Written(is, os, ws) /\ Len(F) = length /\ raw = <<>> /\ StateOK
  BY DEF Aims, ReadInv, ReadVersion, BytesInv
<1>2. Len(o) >= VersionSize /\ Len(o) + 1 <= Len(F) /\ Len(o) \in Nat /\ VersionSize \in Nat
  <2>1. Within(o, F, 1) /\ (ws # <<>>) \in BOOLEAN /\ VersionSize \in Nat
    BY <1>1, InCountWithin, FormatAssumption
  <2>2. o \in Seq(Byte) /\ Len(o) = VersionSize + (IF ws # <<>> THEN 2 ELSE 0)
    BY <2>1, OpeningBytes
  <2> HIDE DEF o, F
  <2>3. Len(o) \in Nat /\ Len(o) >= VersionSize
    BY <2>1, <2>2
  <2>4. Len(o) + 1 <= Len(F)
    BY <2>1 DEF Within
  <2> QED
    BY <2>1, <2>3, <2>4
<1>3. Len(Zeros(VersionSize)) = VersionSize /\ Len(raw) = 0 /\ length \in Nat
  BY <1>1, <1>2, ZerosRun DEF StateOK, TypeOK
<1>4. ~Truncated(Zeros(VersionSize))
  <2> HIDE DEF o, F
  <2> QED
    BY <1>1, <1>2, <1>3 DEF Truncated, Available, Remaining, Offset
<1>5. pc' = "inputCount"
  BY <1>4 DEF ReadVersion, Read
<1> QED
  BY <1>5 DEF Follows, AfterBody

(* The count that is read is the one the serialization has there: 0 where  *)
(* a witness is announced or there is no input.                            *)
LEMMA FollowInputCount ==
  ASSUME NEW is, NEW os, NEW ws, Aims(is, os, ws), ReadInv, Follows(is, os, ws),
         Ahead(is, os, ws)', ReadInputCount
  PROVE  Follows(is, os, ws)'
<1> DEFINE F == Full(is, os, ws)
           z == Zeros(VersionSize)
           n == IF ws # <<>> THEN 0 ELSE Len(is)
<1>1. /\ Written(is, os, ws) /\ Len(F) = length /\ StateOK /\ raw = z /\ hasWitness = FALSE
      /\ ins = <<>> /\ raw' \in Seq(Byte) /\ Starts(raw', F)
  <2>1. StateOK /\ raw = Opening(hasWitness) /\ hasWitness = FALSE /\ ins = <<>>
    BY DEF ReadInv, ReadInputCount, BytesInv, ListsInv, StateOK, TypeOK, BeforeInputs
  <2> QED
    BY <2>1, OpeningBytes DEF Aims, Ahead
<1>2. F \in Seq(Byte) /\ is \in Seq(Sizes) /\ Len(is) \in Sizes /\ Len(is) \in Nat
  BY <1>1, WrittenFacts
<1>3. n \in Sizes /\ Within(raw \o Enc(n), F, 0)
  <2>1. CASE ws # <<>>
    <3>1. 0 \in Sizes /\ Enc(0) = <<0>>
      BY SmallSize, FormatAssumption
    <3>2. Within(z \o <<0>>, F, 0)
      BY <1>1, <2>1, FlagWithin
    <3> QED
      BY <1>1, <2>1, <3>1, <3>2
  <2>2. CASE ws = <<>>
    <3> DEFINE t == z \o Enc(Len(is))
               k == MinInput * Len(is)
    <3>1. Within(t, F, k)
      BY <1>1, <2>2, InCountWithin, FlagWithin
    <3>2. k \in Nat
      BY <1>2, SmallestElements
    <3> HIDE DEF t, k, F
    <3>3. Within(t, F, 0)
      <4>1. Len(F) \in Nat /\ (t \in Seq(Byte) => Len(t) \in Nat)
        BY <1>2
      <4> QED
        BY <3>1, <3>2, <4>1 DEF Within
    <3> QED
      BY <1>1, <1>2, <2>2, <3>3 DEF t
  <2> QED
    BY <2>1, <2>2
<1>4. PICK cs \in CompactSizes :
        \/ ~Reads(cs) /\ Reject(cs.bytes)
        \/ /\ Reads(cs)
           /\ Read(cs.bytes, IF cs.value = 0 THEN "flag" ELSE "checkInputs")
           /\ left' = cs.value
           /\ UNCHANGED <<length, hasWitness, itemsLeft, txVars, bodyVars>>
  BY DEF ReadInputCount
<1> HIDE DEF F, n, z
<1>5. Reject(cs.bytes) \/ Starts(raw \o cs.bytes, raw')
  BY <1>1, <1>4, ElementReads
<1>6. cs.value = n /\ Reads(cs)
  <2>1. 0 \in Nat
    OBVIOUS
  <2> QED
    BY <1>1, <1>2, <1>3, <1>5, <2>1, CountRead
<1>7. /\ pc' = (IF n = 0 THEN "flag" ELSE "checkInputs") /\ left' = n
      /\ hasWitness' = hasWitness /\ ins' = ins
  BY <1>4, <1>6 DEF Read, txVars
<1>8. CASE n = 0
  <2>1. is = <<>> \/ ws # <<>>
    BY <1>2, <1>8 DEF n
  <2> QED
    BY <1>7, <1>8, <2>1 DEF Follows, AfterBody
<1>9. CASE n # 0
  <2>1. ws = <<>> /\ n = Len(is)
    BY <1>9 DEF n
  <2>2. Starts(<<>>, is) /\ Len(<<>>) + n = Len(is)
    BY <1>2, <2>1 DEF Starts
  <2> QED
    BY <1>1, <1>7, <1>9, <2>1, <2>2 DEF Follows, AfterBody
<1> QED
  BY <1>8, <1>9

(* The byte that follows is the next one of the serialization.             *)
LEMMA NextByte ==
  ASSUME NEW F \in Seq(Byte), NEW r \in Seq(Byte), NEW b \in Byte, NEW c \in Byte,
         Within(r \o <<c>>, F, 0), Starts(r \o <<b>>, F)
  PROVE  b = c
<1> DEFINE p == r \o <<b>>
           q == r \o <<c>>
<1>1. /\ Len(p) = Len(r) + 1 /\ Len(q) = Len(r) + 1 /\ p[Len(r) + 1] = b /\ q[Len(r) + 1] = c
      /\ Len(r) \in Nat
  OBVIOUS
<1>2. Starts(p, F) /\ Starts(q, F)
  BY DEF Within
<1> HIDE DEF p, q
<1>3. Len(r) + 1 \in 1 .. Len(p) /\ Len(r) + 1 \in 1 .. Len(q)
  BY <1>1
<1>4. p[Len(r) + 1] = F[Len(r) + 1] /\ q[Len(r) + 1] = F[Len(r) + 1]
  BY <1>2, <1>3 DEF Starts
<1> QED
  BY <1>1, <1>4

(* The flag is 1 with a witness and 0 without inputs.                      *)
LEMMA FollowFlag ==
  ASSUME NEW is, NEW os, NEW ws, Aims(is, os, ws), ReadInv, Follows(is, os, ws),
         Ahead(is, os, ws)', ReadFlag
  PROVE  Follows(is, os, ws)'
<1> DEFINE F == Full(is, os, ws)
           z == Zeros(VersionSize)
           r == z \o <<0>>
           c == IF ws # <<>> THEN 1 ELSE 0
<1>1. /\ Written(is, os, ws) /\ Len(F) = length /\ StateOK /\ raw = r /\ hasWitness = FALSE
      /\ left = 0 /\ ins = <<>> /\ outs = <<>> /\ raw' \in Seq(Byte) /\ Starts(raw', F)
      /\ (is = <<>> \/ ws # <<>>)
  <2>1. /\ StateOK /\ raw = Opening(hasWitness) \o <<0>> /\ hasWitness = FALSE
        /\ ins = <<>> /\ outs = <<>> /\ left = 0
    BY DEF ReadInv, ReadFlag, BytesInv, ListsInv, CountsInv, StateOK, TypeOK, BeforeOutputs,
      BeforeInputs
  <2>2. is = <<>> \/ ws # <<>>
    BY DEF Follows, ReadFlag
  <2> QED
    BY <2>1, <2>2, OpeningBytes DEF Aims, Ahead
<1>2. F \in Seq(Byte) /\ raw \in Seq(Byte) /\ length \in Nat /\ is \in Seq(Sizes)
  BY <1>1, WrittenFacts DEF StateOK, TypeOK
<1>3. Within(raw \o <<c>>, F, 0)
  <2>1. CASE ws # <<>>
    <3>1. Within(r \o <<1>>, F, 0)
      BY <1>1, <2>1, FlagWithin
    <3> QED
      BY <1>1, <2>1, <3>1
  <2>2. CASE ws = <<>>
    <3>1. Within(r \o <<0>>, F, 0)
      BY <1>1, <2>2, FlagWithin
    <3> QED
      BY <1>1, <2>2, <3>1
  <2> QED
    BY <2>1, <2>2
<1>4. 0 \in Byte /\ 1 \in Byte /\ c \in Byte
  BY FormatAssumption DEF Byte
<1> HIDE DEF F, r, z
<1>5. \A b \in Byte : Available(Len(<<b>>))
  <2>1. Len(raw \o <<c>>) = Len(raw) + 1 /\ Len(raw) \in Nat
    BY <1>2, <1>4
  <2>2. Len(raw) + 1 <= length
    BY <1>1, <1>2, <1>3, <2>1 DEF Within
  <2> QED
    BY <1>2, <2>1, <2>2 DEF Available, Remaining, Offset
<1>6. \A b \in Byte : raw' = raw \o <<b>> => b = c
  BY <1>1, <1>2, <1>3, <1>4, NextByte
<1>7. ~Truncated(<<0>>)
  BY <1>4, <1>5 DEF Truncated
<1>8. ASSUME NEW b \in Byte \ {0, 1}, Reject(<<b>>) PROVE FALSE
  <2>1. raw' = raw \o <<b>>
    BY <1>5, <1>8 DEF Reject
  <2> QED
    BY <1>6, <2>1
<1>9. CASE Read(<<0>>, "outputs") /\ UNCHANGED <<length, hasWitness, loopVars, txVars, bodyVars>>
  <2>1. /\ pc' = "outputs" /\ hasWitness' = FALSE /\ left' = 0 /\ ins' = <<>> /\ outs' = <<>>
        /\ raw' = raw \o <<0>>
    BY <1>1, <1>9 DEF Read, loopVars, txVars
  <2>2. ws = <<>> /\ is = <<>>
    BY <1>1, <1>4, <1>6, <2>1
  <2>3. os = <<>>
    BY <1>1, <2>2 DEF Written
  <2>4. Starts(<<>>, os) /\ Len(<<>>) + 0 = Len(os)
    BY <2>3 DEF Starts
  <2> QED
    BY <2>1, <2>2, <2>4 DEF Follows, AfterBody
<1>10. CASE Read(<<1>>, "witnessInputCount") /\ hasWitness' = TRUE
  <2>1. pc' = "witnessInputCount" /\ hasWitness' = TRUE /\ raw' = raw \o <<1>>
    BY <1>10 DEF Read
  <2>2. ws # <<>>
    BY <1>4, <1>6, <2>1
  <2> QED
    BY <2>1, <2>2 DEF Follows, AfterBody
<1> QED
  BY <1>7, <1>8, <1>9, <1>10 DEF ReadFlag

(* The count after the flag is not 0: a witness has inputs.                *)
LEMMA FollowWitnessInputCount ==
  ASSUME NEW is, NEW os, NEW ws, Aims(is, os, ws), ReadInv, Follows(is, os, ws),
         Ahead(is, os, ws)', ReadWitnessInputCount
  PROVE  Follows(is, os, ws)'
<1> DEFINE F == Full(is, os, ws)
           k == MinInput * Len(is)
<1>1. /\ Written(is, os, ws) /\ Len(F) = length /\ StateOK /\ raw = Opening(hasWitness)
      /\ hasWitness = TRUE /\ ins = <<>> /\ raw' \in Seq(Byte) /\ Starts(raw', F) /\ ws # <<>>
  <2>1. StateOK /\ raw = Opening(hasWitness) /\ hasWitness = TRUE /\ ins = <<>>
    BY DEF ReadInv, ReadWitnessInputCount, BytesInv, ListsInv, StateOK, TypeOK, BeforeInputs
  <2>2. ws # <<>>
    BY <2>1 DEF Follows, ReadWitnessInputCount, Fields, BeforeWitness, BeforeOutputs, BeforeInputs
  <2> QED
    BY <2>1, <2>2 DEF Aims, Ahead
<1>2. F \in Seq(Byte) /\ is \in Seq(Sizes) /\ Len(is) \in Sizes /\ Len(is) \in Nat
  BY <1>1, WrittenFacts
<1>3. Within(raw \o Enc(Len(is)), F, k) /\ k \in Nat
  <2>1. (ws # <<>>) = TRUE
    BY <1>1
  <2>2. Within(Opening(ws # <<>>) \o Enc(Len(is)), F, k)
    BY <1>1, InCountWithin
  <2>3. k \in Nat
    BY <1>2, SmallestElements
  <2> HIDE DEF F, k
  <2> QED
    BY <1>1, <2>1, <2>2, <2>3
<1>4. PICK cs \in CompactSizes :
        \/ (~Reads(cs) \/ cs.value = 0) /\ Reject(cs.bytes)
        \/ /\ Reads(cs) /\ cs.value # 0
           /\ Read(cs.bytes, "checkInputs")
           /\ left' = cs.value
           /\ UNCHANGED <<length, hasWitness, itemsLeft, txVars, bodyVars>>
  BY DEF ReadWitnessInputCount
<1> HIDE DEF F, k
<1>5. Reject(cs.bytes) \/ Starts(raw \o cs.bytes, raw')
  BY <1>1, <1>4, ElementReads
<1>6. cs.value = Len(is) /\ Reads(cs)
  BY <1>1, <1>2, <1>3, <1>5, CountRead
<1>7. Len(is) # 0
  BY <1>1, <1>2 DEF Written
<1>8. pc' = "checkInputs" /\ left' = Len(is) /\ hasWitness' = TRUE /\ ins' = <<>>
  BY <1>1, <1>4, <1>6, <1>7 DEF Read, txVars
<1>9. Starts(<<>>, is) /\ Len(<<>>) + Len(is) = Len(is)
  BY <1>2 DEF Starts
<1> QED
  BY <1>1, <1>8, <1>9 DEF Follows, AfterBody

(* The inputs that are announced do not exceed what is left.               *)
LEMMA FollowCheckInputs ==
  ASSUME NEW is, NEW os, NEW ws, Aims(is, os, ws), ReadInv, Follows(is, os, ws), CheckInputs
  PROVE  Follows(is, os, ws)'
<1> DEFINE F == Full(is, os, ws)
           k == MinInput * Len(is)
<1>1. /\ Written(is, os, ws) /\ Len(F) = length /\ StateOK /\ ins = <<>> /\ left \in Nat
      /\ raw = InsRead(hasWitness, ins, Len(ins) + left) /\ (hasWitness <=> ws # <<>>)
      /\ Len(ins) + left = Len(is) /\ Starts(ins, is) /\ hasWitness \in BOOLEAN
  BY DEF Aims, ReadInv, CheckInputs, BytesInv, ListsInv, StateOK, TypeOK, Follows, Fields,
    BeforeWitness, BeforeOutputs, BeforeInputs
<1>2. /\ is \in Seq(Sizes) /\ Len(is) \in Nat /\ F \in Seq(Byte) /\ Len(F) \in Nat
      /\ raw \in Seq(Byte) /\ length \in Nat
  BY <1>1, WrittenFacts DEF StateOK, TypeOK
<1>3. left = Len(is) /\ hasWitness = (ws # <<>>)
  BY <1>1
<1>4. Within(raw, F, k) /\ k \in Nat
  <2>1. <<>> \in Seq(Sizes) /\ Starts(<<>>, is) /\ Len(is) - Len(<<>>) = Len(is)
    BY <1>2 DEF Starts
  <2>2. Within(InsRead(ws # <<>>, <<>>, Len(is)), F, MinInput * (Len(is) - Len(<<>>)))
    BY <1>1, <2>1, InsWithin
  <2>3. k \in Nat
    BY <1>2, SmallestElements
  <2> QED
    BY <1>1, <1>3, <2>1, <2>2, <2>3
<1>5. MinInput \in Nat \ {0} /\ Remaining \in Nat /\ MinInput * left <= Remaining
  <2>1. MinInput \in Nat \ {0}
    BY SmallestElements
  <2>2. Len(raw) + k <= length /\ Len(raw) \in Nat
    BY <1>1, <1>2, <1>4 DEF Within
  <2>3. k = MinInput * left
    BY <1>3
  <2> HIDE DEF k
  <2>4. Remaining \in Nat /\ k <= Remaining
    BY <1>2, <1>4, <2>2 DEF Remaining, Offset
  <2> QED
    BY <2>1, <2>3, <2>4
<1>6. ~TooMany(left, Remaining, MinInput)
  BY <1>1, <1>5, NotTooMany
<1>7. pc' = "inputs" /\ UNCHANGED <<hasWitness, left, ins>>
  BY <1>6 DEF CheckInputs, loopVars, txVars
<1> QED
  BY <1>1, <1>7 DEF Follows, AfterBody

(* Fits, from the bytes of the field and those that follow it.             *)
LEMMA FitsWithin ==
  ASSUME NEW cs \in CompactSizes, Canonical(cs), length \in Nat, Len(raw) \in Nat,
         NEW k \in Nat, NEW m \in Nat, Len(raw) + k + Len(cs.bytes) + cs.value + m <= length
  PROVE  Fits(cs, k + m)
<1>1. Len(cs.bytes) \in Nat /\ cs.value \in Nat
  BY SizeFacts
<1>2. Len(cs.bytes) + cs.value + (k + m) <= length - Len(raw)
  <2> DEFINE a == Len(cs.bytes)
             b == Len(raw)
             c == cs.value
  <2>1. a \in Nat /\ b \in Nat /\ c \in Nat /\ b + k + a + c + m <= length
    BY <1>1
  <2> HIDE DEF a, b, c
  <2>2. a + c + (k + m) <= length - b
    BY <2>1
  <2> QED
    BY <2>2 DEF a, b, c
<1> QED
  BY <1>2 DEF Fits, Available, Remaining, Offset

(* The script length that is read is the next one of the transaction, and  *)
(* the rest of the input is there.                                         *)
LEMMA FollowInput ==
  ASSUME NEW is, NEW os, NEW ws, Aims(is, os, ws), ReadInv, Follows(is, os, ws),
         Ahead(is, os, ws)', ReadInput
  PROVE  Follows(is, os, ws)'
<1> DEFINE F == Full(is, os, ws)
           n == is[Len(ins) + 1]
           u == Append(ins, n)
           z == Zeros(OutpointSize)
           m == n + SequenceSize
<1>1. /\ Written(is, os, ws) /\ Len(F) = length /\ StateOK /\ ins \in Seq(Sizes)
      /\ left \in Nat /\ left > 0 /\ raw' \in Seq(Byte) /\ Starts(raw', F)
      /\ raw = InsRead(hasWitness, ins, Len(ins) + left) /\ (hasWitness <=> ws # <<>>)
      /\ Len(ins) + left = Len(is) /\ Starts(ins, is) /\ hasWitness \in BOOLEAN
  BY DEF Aims, Ahead, ReadInv, ReadInput, BytesInv, ListsInv, StateOK, TypeOK, Follows, Fields,
    BeforeWitness, BeforeOutputs, BeforeInputs
<1>2. /\ is \in Seq(Sizes) /\ Len(is) \in Nat /\ Len(is) \in Sizes /\ F \in Seq(Byte)
      /\ Len(F) \in Nat /\ raw \in Seq(Byte) /\ length \in Nat /\ Len(ins) \in Nat
  BY <1>1, WrittenFacts DEF StateOK, TypeOK
<1>3. Len(ins) < Len(is)
  BY <1>1, <1>2
<1>4. n \in Sizes /\ u \in Seq(Sizes) /\ Len(u) = Len(ins) + 1 /\ Starts(u, is)
  BY <1>1, <1>2, <1>3, StartsNext
<1>5. n \in Nat /\ OutpointSize \in Nat /\ SequenceSize \in Nat /\ m \in Nat
  <2>1. n \in Nat /\ OutpointSize \in Nat /\ SequenceSize \in Nat
    BY <1>4, EncBytes, FormatAssumption
  <2> QED
    BY <2>1
<1>6. raw \o InputOf(n) = InsRead(ws # <<>>, u, Len(is))
  <2>1. hasWitness = (ws # <<>>)
    BY <1>1
  <2> DEFINE c == Len(is)
  <2>2. c \in Sizes /\ raw = InsRead(hasWitness, ins, c)
    BY <1>1, <1>2
  <2>3. ins \in Seq(Sizes) /\ n \in Sizes /\ hasWitness \in BOOLEAN
    BY <1>1, <1>4
  <2>4. TRUE
    BY <1>2
  <2> HIDE DEF n, c
  <2>5. InsRead(hasWitness, u, c) = InsRead(hasWitness, ins, c) \o InputOf(n)
    BY <2>2, <2>3, <2>4, InsGrow
  <2> QED
    BY <2>1, <2>2, <2>5 DEF c
<1>7. Within(raw \o InputOf(n), F, 0)
  <2> DEFINE k == MinInput * (Len(is) - Len(u))
             t == raw \o InputOf(n)
  <2>1. Within(t, F, k)
    BY <1>1, <1>4, <1>6, InsWithin
  <2>2. k \in Nat
    <3>1. Len(is) - Len(u) \in Nat /\ MinInput \in Nat
      BY <1>1, <1>2, <1>3, <1>4, SmallestElements
    <3> QED
      BY <3>1
  <2> HIDE DEF k, t, F
  <2>3. Within(t, F, 0)
    <3>1. t \in Seq(Byte) => Len(t) \in Nat
      OBVIOUS
    <3> QED
      BY <1>2, <2>1, <2>2, <3>1 DEF Within
  <2> QED
    BY <2>3 DEF t
<1> HIDE DEF F, n, u
<1>8. Within(raw \o z \o Enc(n), F, m) /\ z \in Seq(Byte) /\ Len(z) = OutpointSize
  BY <1>2, <1>4, <1>5, <1>7, ElementWithin, ZerosRun
<1>9. PICK cs \in CompactSizes :
        \/ /\ ~Fits(cs, OutpointSize + SequenceSize)
           /\ Reject(Zeros(OutpointSize) \o cs.bytes)
        \/ /\ Fits(cs, OutpointSize + SequenceSize)
           /\ Read(InputBytes(cs), "inputs")
           /\ ins' = Append(ins, cs.value)
           /\ left' = left - 1
           /\ UNCHANGED <<length, hasWitness, itemsLeft, outs, wits, bodyVars>>
  BY DEF ReadInput
<1> HIDE DEF z, m
<1>10. Reject(z \o cs.bytes) \/ Starts(raw \o z \o cs.bytes, raw')
  BY <1>1, <1>9, ElementReads DEF z
<1>11. Canonical(cs) /\ cs.value = n /\ Len(raw) + Len(z) + Len(cs.bytes) + m <= length
  <2>1. /\ StateOK /\ F \in Seq(Byte) /\ Len(F) = length /\ n \in Sizes /\ m \in Nat
        /\ raw' \in Seq(Byte) /\ Starts(raw', F)
    BY <1>1, <1>2, <1>4, <1>5
  <2> QED
    BY <1>8, <1>10, <2>1, SizeRead
<1>12. Fits(cs, OutpointSize + SequenceSize)
  <2>1. Len(raw) \in Nat /\ length \in Nat /\ Len(cs.bytes) \in Nat
    BY <1>2, SizeFacts
  <2>2. Len(raw) + OutpointSize + Len(cs.bytes) + cs.value + SequenceSize <= length
    <3> DEFINE a == Len(cs.bytes)
               b == Len(raw)
               d == Len(z)
    <3>1. a \in Nat /\ b \in Nat /\ d = OutpointSize /\ b + d + a + m <= length
      BY <1>8, <1>11, <2>1
    <3>2. cs.value = n /\ m = n + SequenceSize
      BY <1>11 DEF m
    <3> HIDE DEF a, b, d
    <3>3. b + OutpointSize + a + cs.value + SequenceSize <= length
      BY <1>5, <2>1, <3>1, <3>2
    <3> QED
      BY <3>3 DEF a, b
  <2> QED
    BY <1>5, <1>11, <2>1, <2>2, FitsWithin
<1>13. /\ pc' = "inputs" /\ ins' = u /\ left' = left - 1 /\ hasWitness' = hasWitness
  BY <1>9, <1>11, <1>12 DEF Read, u
<1>14. Len(u) + left' = Len(is)
  <2> DEFINE a == Len(ins)
             b == Len(is)
             d == Len(u)
  <2>1. a \in Nat /\ left \in Nat /\ a + left = b /\ d = a + 1 /\ left' = left - 1
    BY <1>1, <1>2, <1>4, <1>13
  <2> HIDE DEF a, b, d
  <2>2. d + left' = b
    BY <2>1
  <2> QED
    BY <2>2 DEF b, d
<1> QED
  BY <1>1, <1>4, <1>13, <1>14 DEF Follows, AfterBody

(* All inputs of the transaction have been read.                           *)
LEMMA FollowEndInputs ==
  ASSUME NEW is, NEW os, NEW ws, Aims(is, os, ws), ReadInv, Follows(is, os, ws), EndInputs
  PROVE  Follows(is, os, ws)'
<1>1. /\ Written(is, os, ws) /\ ins \in Seq(Sizes) /\ left = 0 /\ (hasWitness <=> ws # <<>>)
      /\ Len(ins) + left = Len(is) /\ Starts(ins, is)
  BY DEF Aims, ReadInv, EndInputs, StateOK, Follows, Fields, BeforeWitness, BeforeOutputs,
    BeforeInputs
<1>2. is \in Seq(Sizes)
  BY <1>1, WrittenFacts
<1>3. Len(ins) = Len(is) /\ Starts(is, is)
  BY <1>1, <1>2 DEF Starts
<1>4. ins = is
  BY <1>1, <1>2, <1>3, StartsSame
<1>5. pc' = "outputCount" /\ ins' = ins /\ hasWitness' = hasWitness
  BY DEF EndInputs, txVars
<1> QED
  BY <1>1, <1>4, <1>5 DEF Follows, AfterBody

(* The outputs that are announced do not exceed what is left.              *)
LEMMA FollowOutputCount ==
  ASSUME NEW is, NEW os, NEW ws, Aims(is, os, ws), ReadInv, Follows(is, os, ws),
         Ahead(is, os, ws)', ReadOutputCount
  PROVE  Follows(is, os, ws)'
<1> DEFINE F == Full(is, os, ws)
           n == Len(os)
           k == MinOutput * n
<1>1. /\ Written(is, os, ws) /\ Len(F) = length /\ StateOK /\ ins = is /\ outs = <<>>
      /\ raw' \in Seq(Byte) /\ Starts(raw', F) /\ hasWitness \in BOOLEAN
      /\ raw = InsRead(hasWitness, ins, Len(ins)) /\ (hasWitness <=> ws # <<>>)
  BY DEF Aims, Ahead, ReadInv, ReadOutputCount, BytesInv, ListsInv, StateOK, TypeOK, Follows,
    Fields, BeforeWitness, BeforeOutputs, BeforeInputs
<1>2. /\ os \in Seq(Sizes) /\ n \in Nat /\ n \in Sizes /\ F \in Seq(Byte)
      /\ Len(F) \in Nat /\ raw \in Seq(Byte) /\ length \in Nat
  BY <1>1, WrittenFacts DEF StateOK, TypeOK
<1>3. Within(raw \o Enc(n), F, k) /\ k \in Nat /\ MinOutput \in Nat \ {0}
  <2>1. hasWitness = (ws # <<>>)
    BY <1>1
  <2>2. MinOutput \in Nat \ {0}
    BY SmallestElements
  <2>3. Within(InsRead(ws # <<>>, is, Len(is)) \o Enc(n), F, k)
    BY <1>1, OutCountWithin
  <2>4. k \in Nat
    BY <1>2, <2>2
  <2> HIDE DEF k, F
  <2> QED
    BY <1>1, <2>1, <2>2, <2>3, <2>4
<1>4. PICK cs \in CompactSizes :
        \/ (~Reads(cs) \/ ExceedsAfter(cs, MinOutput)) /\ Reject(cs.bytes)
        \/ /\ Reads(cs) /\ ~ExceedsAfter(cs, MinOutput)
           /\ Read(cs.bytes, "outputs")
           /\ left' = cs.value
           /\ UNCHANGED <<length, hasWitness, itemsLeft, txVars, bodyVars>>
  BY DEF ReadOutputCount
<1> HIDE DEF F, n
<1>5. Reject(cs.bytes) \/ Starts(raw \o cs.bytes, raw')
  BY <1>1, <1>4, ElementReads
<1>6. cs.value = n /\ Reads(cs) /\ Len(raw) + Len(cs.bytes) + k <= length
  <2> HIDE DEF k
  <2> QED
    BY <1>1, <1>2, <1>3, <1>5, CountRead
<1>7. ~ExceedsAfter(cs, MinOutput)
  <2> DEFINE rest == Remaining - Len(cs.bytes)
  <2>1. Len(cs.bytes) \in Nat /\ Len(raw) \in Nat
    BY <1>2, SizeFacts
  <2>2. rest \in Nat /\ k <= rest
    <3> HIDE DEF k
    <3> QED
      BY <1>2, <1>3, <1>6, <2>1 DEF Remaining, Offset
  <2> HIDE DEF rest
  <2>3. ~TooMany(n, rest, MinOutput)
    BY <1>2, <1>3, <2>2, NotTooMany
  <2> QED
    BY <1>6, <2>3 DEF ExceedsAfter, rest
<1>8. pc' = "outputs" /\ left' = n /\ UNCHANGED <<hasWitness, ins, outs>>
  BY <1>4, <1>6, <1>7 DEF Read, txVars
<1>9. Starts(<<>>, os) /\ Len(<<>>) + n = Len(os)
  BY <1>2 DEF Starts, n
<1> QED
  BY <1>1, <1>8, <1>9 DEF Follows, AfterBody

(* The script length of an output, like that of an input.                  *)
LEMMA FollowOutput ==
  ASSUME NEW is, NEW os, NEW ws, Aims(is, os, ws), ReadInv, Follows(is, os, ws),
         Ahead(is, os, ws)', ReadOutput
  PROVE  Follows(is, os, ws)'
<1> DEFINE F == Full(is, os, ws)
           n == os[Len(outs) + 1]
           u == Append(outs, n)
           z == Zeros(AmountSize)
<1>1. /\ Written(is, os, ws) /\ Len(F) = length /\ StateOK /\ outs \in Seq(Sizes) /\ ins = is
      /\ left \in Nat /\ left > 0 /\ raw' \in Seq(Byte) /\ Starts(raw', F)
      /\ raw = OutsRead(hasWitness, ins, outs, Len(outs) + left) /\ (hasWitness <=> ws # <<>>)
      /\ Len(outs) + left = Len(os) /\ Starts(outs, os) /\ hasWitness \in BOOLEAN
  BY DEF Aims, Ahead, ReadInv, ReadOutput, BytesInv, ListsInv, StateOK, TypeOK, Follows, Fields,
    BeforeWitness, BeforeOutputs, BeforeInputs
<1>2. /\ os \in Seq(Sizes) /\ Len(os) \in Nat /\ Len(os) \in Sizes /\ F \in Seq(Byte)
      /\ Len(F) \in Nat /\ raw \in Seq(Byte) /\ length \in Nat /\ Len(outs) \in Nat
      /\ is \in Seq(Sizes) /\ Len(is) \in Sizes
  BY <1>1, WrittenFacts DEF StateOK, TypeOK
<1>3. Len(outs) < Len(os)
  BY <1>1, <1>2
<1>4. n \in Sizes /\ u \in Seq(Sizes) /\ Len(u) = Len(outs) + 1 /\ Starts(u, os)
  BY <1>1, <1>2, <1>3, StartsNext
<1>5. n \in Nat /\ AmountSize \in Nat
  BY <1>4, EncBytes, FormatAssumption
<1>6. raw \o OutputOf(n) = OutsRead(ws # <<>>, is, u, Len(os))
  <2>1. hasWitness = (ws # <<>>)
    BY <1>1
  <2> DEFINE c == Len(os)
  <2>2. c \in Sizes /\ raw = OutsRead(hasWitness, is, outs, c)
    BY <1>1, <1>2
  <2>3. outs \in Seq(Sizes) /\ n \in Sizes /\ hasWitness \in BOOLEAN
    BY <1>1, <1>4
  <2>4. is \in Seq(Sizes) /\ Len(is) \in Sizes
    BY <1>2
  <2> HIDE DEF n, c
  <2>5. OutsRead(hasWitness, is, u, c) = OutsRead(hasWitness, is, outs, c) \o OutputOf(n)
    BY <2>2, <2>3, <2>4, OutsGrow
  <2> QED
    BY <2>1, <2>2, <2>5 DEF c
<1>7. Within(raw \o OutputOf(n), F, 0)
  <2> DEFINE k == MinOutput * (Len(os) - Len(u))
             t == raw \o OutputOf(n)
  <2>1. Within(t, F, k)
    BY <1>1, <1>4, <1>6, OutsWithin
  <2>2. k \in Nat
    <3>1. Len(os) - Len(u) \in Nat /\ MinOutput \in Nat
      BY <1>1, <1>2, <1>3, <1>4, SmallestElements
    <3> QED
      BY <3>1
  <2> HIDE DEF k, t, F
  <2>3. Within(t, F, 0)
    <3>1. t \in Seq(Byte) => Len(t) \in Nat
      OBVIOUS
    <3> QED
      BY <1>2, <2>1, <2>2, <3>1 DEF Within
  <2> QED
    BY <2>3 DEF t
<1> HIDE DEF F, n, u
<1>8. Within(raw \o z \o Enc(n), F, n) /\ z \in Seq(Byte) /\ Len(z) = AmountSize
  BY <1>2, <1>4, <1>5, <1>7, ElementWithin, ZerosRun
<1>9. PICK cs \in CompactSizes :
        \/ ~Fits(cs, AmountSize) /\ Reject(Zeros(AmountSize) \o cs.bytes)
        \/ /\ Fits(cs, AmountSize)
           /\ Read(OutputBytes(cs), "outputs")
           /\ outs' = Append(outs, cs.value)
           /\ left' = left - 1
           /\ UNCHANGED <<length, hasWitness, itemsLeft, ins, wits, bodyVars>>
  BY DEF ReadOutput
<1> HIDE DEF z
<1>10. Reject(z \o cs.bytes) \/ Starts(raw \o z \o cs.bytes, raw')
  BY <1>1, <1>9, ElementReads DEF z
<1>11. Canonical(cs) /\ cs.value = n /\ Len(raw) + Len(z) + Len(cs.bytes) + n <= length
  <2>1. /\ StateOK /\ F \in Seq(Byte) /\ Len(F) = length /\ n \in Sizes /\ n \in Nat
        /\ raw' \in Seq(Byte) /\ Starts(raw', F)
    BY <1>1, <1>2, <1>4, <1>5
  <2> QED
    BY <1>8, <1>10, <2>1, SizeRead
<1>12. Fits(cs, AmountSize)
  <2>1. Len(raw) \in Nat /\ length \in Nat /\ Len(cs.bytes) \in Nat /\ 0 \in Nat
    BY <1>2, SizeFacts
  <2>2. Len(raw) + AmountSize + Len(cs.bytes) + cs.value + 0 <= length
    <3> DEFINE a == Len(cs.bytes)
               b == Len(raw)
               d == Len(z)
    <3>1. a \in Nat /\ b \in Nat /\ d = AmountSize /\ b + d + a + n <= length
      BY <1>8, <1>11, <2>1
    <3> HIDE DEF a, b, d
    <3>2. b + AmountSize + a + cs.value + 0 <= length
      BY <1>5, <1>11, <2>1, <3>1
    <3> QED
      BY <3>2 DEF a, b
  <2>3. Fits(cs, AmountSize + 0)
    BY <1>5, <1>11, <2>1, <2>2, FitsWithin
  <2>4. AmountSize + 0 = AmountSize
    BY <1>5
  <2> QED
    BY <2>3, <2>4
<1>13. /\ pc' = "outputs" /\ outs' = u /\ left' = left - 1 /\ UNCHANGED <<hasWitness, ins>>
  BY <1>9, <1>11, <1>12 DEF Read, u
<1>14. Len(u) + left' = Len(os)
  <2> DEFINE a == Len(outs)
             b == Len(os)
             d == Len(u)
  <2>1. a \in Nat /\ left \in Nat /\ a + left = b /\ d = a + 1 /\ left' = left - 1
    BY <1>1, <1>2, <1>4, <1>13
  <2> HIDE DEF a, b, d
  <2>2. d + left' = b
    BY <2>1
  <2> QED
    BY <2>2 DEF b, d
<1> QED
  BY <1>1, <1>4, <1>13, <1>14 DEF Follows, AfterBody

(* All outputs have been read.                                             *)
LEMMA FollowEndOutputs ==
  ASSUME NEW is, NEW os, NEW ws, Aims(is, os, ws), ReadInv, Follows(is, os, ws), EndOutputs
  PROVE  Follows(is, os, ws)'
<1>1. /\ Written(is, os, ws) /\ outs \in Seq(Sizes) /\ left = 0 /\ (hasWitness <=> ws # <<>>)
      /\ Len(outs) + left = Len(os) /\ Starts(outs, os) /\ ins = is /\ wits = <<>>
  BY DEF Aims, ReadInv, EndOutputs, StateOK, ListsInv, Follows, Fields, BeforeWitness
<1>2. os \in Seq(Sizes) /\ ws \in Seq(Stacks)
  BY <1>1, WrittenFacts
<1>3. Len(outs) = Len(os) /\ Starts(os, os) /\ Starts(<<>>, ws)
  BY <1>1, <1>2 DEF Starts
<1>4. outs = os
  BY <1>1, <1>2, <1>3, StartsSame
<1>5. /\ pc' = (IF hasWitness THEN "witness" ELSE "locktime")
      /\ UNCHANGED <<hasWitness, ins, outs, wits>>
  BY DEF EndOutputs, txVars
<1> QED
  BY <1>1, <1>3, <1>4, <1>5 DEF Follows, AfterBody

(* The items that are announced do not exceed what is left.                *)
LEMMA FollowItemCount ==
  ASSUME NEW is, NEW os, NEW ws, Aims(is, os, ws), ReadInv, Follows(is, os, ws),
         Ahead(is, os, ws)', ReadItemCount
  PROVE  Follows(is, os, ws)'
<1> DEFINE F == Full(is, os, ws)
           w == ws[Len(wits) + 1]
           n == Len(w)
<1>1. /\ Written(is, os, ws) /\ Len(F) = length /\ StateOK /\ ins = is /\ outs = os
      /\ raw' \in Seq(Byte) /\ Starts(raw', F) /\ hasWitness /\ hasWitness \in BOOLEAN
      /\ raw = WitsRead(hasWitness, ins, outs, wits) /\ ws # <<>> /\ wits \in Seq(Stacks)
      /\ Starts(wits, ws) /\ left \in Nat /\ left > 0 /\ Len(wits) + left = Len(ins)
  BY DEF Aims, Ahead, ReadInv, ReadItemCount, BytesInv, ListsInv, CountsInv, StateOK, TypeOK,
    Follows, Fields, AfterBody
<1>2. /\ ws \in Seq(Stacks) /\ Len(ws) = Len(is) /\ F \in Seq(Byte) /\ Len(ws) \in Nat
      /\ Len(F) \in Nat /\ raw \in Seq(Byte) /\ length \in Nat /\ Len(wits) \in Nat
  <2>1. Len(ws) = Len(is) /\ ws \in Seq(Stacks)
    BY <1>1 DEF Written
  <2>2. F \in Seq(Byte) /\ Len(F) \in Nat /\ Len(ws) \in Nat
    BY <1>1, WrittenFacts
  <2>3. raw \in Seq(Byte) /\ length \in Nat
    BY <1>1 DEF StateOK, TypeOK
  <2>4. Len(wits) \in Nat
    BY <1>1
  <2> QED
    BY <2>1, <2>2, <2>3, <2>4
<1>3. Len(wits) < Len(ws)
  BY <1>1, <1>2
<1>4. w \in Seq(Sizes) /\ n \in Sizes /\ n \in Nat /\ Within(raw \o Enc(n), F, n)
  <2>1. hasWitness = (ws # <<>>)
    BY <1>1
  <2>2. /\ w \in Seq(Sizes) /\ n \in Sizes /\ n \in Nat
        /\ Within(WitsRead(ws # <<>>, is, os, wits) \o Enc(n), F, n)
    BY <1>1, <1>3, ItemCountWithin
  <2> QED
    BY <1>1, <2>1, <2>2
<1>5. PICK cs \in CompactSizes :
        \/ (~Reads(cs) \/ ExceedsAfter(cs, 1)) /\ Reject(cs.bytes)
        \/ /\ Reads(cs) /\ ~ExceedsAfter(cs, 1)
           /\ Read(cs.bytes, "items")
           /\ itemsLeft' = cs.value
           /\ wits' = Append(wits, <<>>)
           /\ UNCHANGED <<length, hasWitness, left, ins, outs, bodyVars>>
  BY DEF ReadItemCount
<1>6. Starts(<<>>, w) /\ Len(<<>>) + n = Len(w) /\ <<>> \in Seq(Sizes)
  BY <1>4 DEF Starts
<1> HIDE DEF F, n
<1>7. Reject(cs.bytes) \/ Starts(raw \o cs.bytes, raw')
  BY <1>1, <1>5, ElementReads
<1>8. cs.value = n /\ Reads(cs) /\ Len(raw) + Len(cs.bytes) + n <= length
  BY <1>1, <1>2, <1>4, <1>7, CountRead
<1>9. ~ExceedsAfter(cs, 1)
  <2> DEFINE rest == Remaining - Len(cs.bytes)
  <2>1. Len(cs.bytes) \in Nat /\ Len(raw) \in Nat
    BY <1>2, SizeFacts
  <2>2. rest \in Nat /\ 1 * n <= rest /\ 1 \in Nat \ {0}
    <3> DEFINE a == Len(cs.bytes)
               b == Len(raw)
    <3>1. a \in Nat /\ b \in Nat /\ n \in Nat /\ length \in Nat /\ b + a + n <= length
      BY <1>2, <1>4, <1>8, <2>1
    <3> HIDE DEF a, b
    <3>2. length - b - a \in Nat /\ 1 * n <= length - b - a
      BY <3>1
    <3> QED
      BY <3>2 DEF a, b, Remaining, Offset
  <2> HIDE DEF rest
  <2>3. ~TooMany(n, rest, 1)
    BY <1>4, <2>2, NotTooMany
  <2> QED
    BY <1>8, <2>3 DEF ExceedsAfter, rest
<1>10. /\ pc' = "items" /\ itemsLeft' = n /\ UNCHANGED <<hasWitness, ins, outs>>
       /\ wits' = Append(wits, <<>>)
  BY <1>5, <1>8, <1>9 DEF Read
<1>11. PICK done : done = wits
  OBVIOUS
<1>12. OnItem(done, <<>>, ws)'
  <2>1. /\ done \in Seq(Stacks) /\ wits' = Append(done, <<>>) /\ Starts(done, ws)
        /\ Len(done) < Len(ws) /\ Starts(<<>>, ws[Len(done) + 1])
        /\ Len(<<>>) + itemsLeft' = Len(ws[Len(done) + 1])
    BY <1>1, <1>3, <1>6, <1>10, <1>11
  <2> QED
    BY <1>6, <2>1 DEF OnItem
<1> QED
  BY <1>1, <1>10, <1>12 DEF Follows, AfterBody

(* The length of an item is the next one of the stack.                     *)
LEMMA FollowItem ==
  ASSUME NEW is, NEW os, NEW ws, Aims(is, os, ws), ReadInv, Follows(is, os, ws),
         Ahead(is, os, ws)', ReadItem
  PROVE  Follows(is, os, ws)'
<1> DEFINE F == Full(is, os, ws)
<1>1. /\ Written(is, os, ws) /\ Len(F) = length /\ StateOK /\ ins = is /\ outs = os
      /\ raw' \in Seq(Byte) /\ Starts(raw', F) /\ hasWitness = TRUE /\ ws # <<>>
      /\ (\E d, x : Reading(d, x)) /\ (\E d, x : OnItem(d, x, ws))
      /\ itemsLeft \in Nat /\ itemsLeft > 0
  BY DEF Aims, Ahead, ReadInv, ReadItem, BytesInv, ListsInv, CountsInv, StateOK, TypeOK,
    Follows, Fields, AfterBody
<1>2. PICK done, w : OnItem(done, w, ws)
  BY <1>1
<1> DEFINE x == ws[Len(done) + 1]
           n == x[Len(w) + 1]
           v == Append(w, n)
           D == Seq(Sizes)
<1>3. /\ done \in Seq(Stacks) /\ w \in D /\ wits = Append(done, w) /\ Starts(done, ws)
      /\ Len(done) < Len(ws) /\ Starts(w, x) /\ Len(w) + itemsLeft = Len(x)
  BY <1>2 DEF OnItem
<1>4. Stacks \subseteq D
  BY DEF Stacks
<1>5. done \in Seq(D)
  <2> HIDE DEF D
  <2> QED
    BY <1>3, <1>4, SeqMonotonic
<1>6. Reading(done, w)
  <2>1. PICK d, y : Reading(d, y)
    BY <1>1
  <2>2. d \in Seq(Stacks) /\ y \in D /\ wits = Append(d, y)
    BY <2>1 DEF Reading
  <2> HIDE DEF D
  <2>3. d \in Seq(D)
    BY <1>4, <2>2, SeqMonotonic
  <2>4. w \in D /\ Append(d, y) = Append(done, w)
    BY <1>3, <2>2
  <2>5. d = done /\ y = w
    BY <1>5, <2>2, <2>3, <2>4, AppendInjective
  <2> QED
    BY <2>1, <2>5
<1>7. raw = ItemsRead(hasWitness, is, os, done, w, Len(x))
  BY <1>1, <1>3, <1>6 DEF Reading
<1>8. /\ F \in Seq(Byte) /\ Len(F) \in Nat /\ raw \in Seq(Byte) /\ length \in Nat
      /\ is \in Seq(Sizes) /\ os \in Seq(Sizes) /\ Len(is) \in Sizes /\ Len(os) \in Sizes
      /\ ws \in Seq(Stacks)
  BY <1>1, WrittenFacts DEF StateOK, TypeOK
<1>9. x \in D /\ Len(x) \in Sizes /\ Len(x) \in Nat /\ Len(w) \in Nat /\ Len(w) < Len(x)
  <2>1. x \in Stacks
    BY <1>3, <1>8, StartsNext
  <2> QED
    BY <1>1, <1>3, <2>1 DEF Stacks
<1>10. n \in Sizes /\ v \in D /\ Len(v) = Len(w) + 1 /\ Starts(v, x)
  <2> HIDE DEF x
  <2> QED
    BY <1>3, <1>9, StartsNext
<1> HIDE DEF D, F, n, v
<1>11. raw \o Blob(n) = ItemsRead(ws # <<>>, is, os, done, v, Len(x))
  <2> DEFINE c == Len(x)
             o == WitsRead(hasWitness, is, os, done)
             e == Enc(c)
  <2>1. o \in Seq(Byte) /\ e \in Seq(Byte) /\ w \in Seq(Sizes)
    <3>1. hasWitness \in BOOLEAN /\ c \in Sizes
      BY <1>1, <1>9
    <3> QED
      BY <1>3, <1>8, <3>1, WitsGrow, EncBytes DEF D
  <2>2. /\ raw = o \o e \o BlobBytes(w) /\ v = Append(w, n)
        /\ ItemsRead(hasWitness, is, os, done, v, c) = o \o e \o BlobBytes(v)
    BY <1>7 DEF ItemsRead, v
  <2>3. hasWitness = (ws # <<>>)
    BY <1>1
  <2> HIDE DEF o, e
  <2>4. o \o e \o BlobBytes(Append(w, n)) = o \o e \o BlobBytes(w) \o Blob(n)
    BY <1>10, <2>1, ItemsGrow
  <2> QED
    BY <2>2, <2>3, <2>4
<1>12. Within(raw \o Blob(n), F, 0)
  <2> DEFINE k == Len(x) - Len(v)
             t == raw \o Blob(n)
  <2>1. Within(t, F, k)
    BY <1>1, <1>3, <1>10, <1>11, ItemsWithin DEF F, D
  <2>2. k \in Nat
    BY <1>9, <1>10
  <2> HIDE DEF k, t
  <2>3. Within(t, F, 0)
    <3>1. t \in Seq(Byte) => Len(t) \in Nat
      OBVIOUS
    <3> QED
      BY <1>8, <2>1, <2>2, <3>1 DEF Within
  <2> QED
    BY <2>3 DEF t
<1>13. Within(raw \o Enc(n), F, n) /\ n \in Nat
  BY <1>8, <1>10, <1>12, ElementWithin, EncBytes
<1>14. PICK cs \in CompactSizes :
         \/ ~Fits(cs, 0) /\ Reject(cs.bytes)
         \/ /\ Fits(cs, 0)
            /\ Read(ItemBytes(cs), "items")
            /\ itemsLeft' = itemsLeft - 1
            /\ wits' = [wits EXCEPT ![Len(wits)] = Append(@, cs.value)]
            /\ UNCHANGED <<length, hasWitness, left, ins, outs, bodyVars>>
  BY DEF ReadItem
<1>15. Reject(cs.bytes) \/ Starts(raw \o cs.bytes, raw')
  BY <1>1, <1>14, ElementReads
<1>16. Canonical(cs) /\ cs.value = n /\ Len(raw) + Len(cs.bytes) + n <= length
  <2>1. /\ StateOK /\ F \in Seq(Byte) /\ Len(F) = length /\ n \in Sizes /\ n \in Nat
        /\ raw' \in Seq(Byte) /\ Starts(raw', F)
    BY <1>1, <1>8, <1>10, <1>13
  <2> QED
    BY <1>13, <1>15, <2>1, CountRead
<1>17. Fits(cs, 0)
  <2>1. Len(raw) \in Nat /\ length \in Nat /\ Len(cs.bytes) \in Nat /\ 0 \in Nat
    BY <1>8, SizeFacts
  <2>2. Len(raw) + 0 + Len(cs.bytes) + cs.value + 0 <= length
    <3> DEFINE a == Len(cs.bytes)
               b == Len(raw)
    <3>1. a \in Nat /\ b \in Nat /\ b + a + n <= length
      BY <1>16, <2>1
    <3> HIDE DEF a, b
    <3>2. b + 0 + a + cs.value + 0 <= length
      BY <1>13, <1>16, <2>1, <3>1
    <3> QED
      BY <3>2 DEF a, b
  <2>3. Fits(cs, 0 + 0)
    BY <1>16, <2>1, <2>2, FitsWithin
  <2> QED
    BY <2>3
<1>18. /\ pc' = "items" /\ itemsLeft' = itemsLeft - 1 /\ UNCHANGED <<hasWitness, ins, outs>>
       /\ wits' = [wits EXCEPT ![Len(wits)] = Append(wits[Len(wits)], n)]
  BY <1>14, <1>16, <1>17 DEF Read
<1>19. wits' = Append(done, v)
  <2>1. wits[Len(wits)] = w
    BY <1>3, <1>5
  <2>2. wits' = [Append(done, w) EXCEPT ![Len(Append(done, w))] = v]
    BY <1>3, <1>18, <2>1 DEF v
  <2> QED
    BY <1>3, <1>5, <1>10, <2>2, LastReplaced
<1>20. Len(v) + itemsLeft' = Len(x)
  <2> DEFINE a == Len(w)
             b == Len(x)
             d == Len(v)
  <2>1. a \in Nat /\ itemsLeft \in Nat /\ a + itemsLeft = b /\ d = a + 1
        /\ itemsLeft' = itemsLeft - 1
    BY <1>1, <1>3, <1>9, <1>10, <1>18
  <2> HIDE DEF a, b, d
  <2>2. d + itemsLeft' = b
    BY <2>1
  <2> QED
    BY <2>2 DEF b, d
<1>21. OnItem(done, v, ws)'
  BY <1>3, <1>10, <1>19, <1>20 DEF OnItem, D
<1> QED
  BY <1>1, <1>18, <1>21 DEF Follows, AfterBody

(* The stack is the one of the transaction.                                *)
LEMMA FollowEndItems ==
  ASSUME NEW is, NEW os, NEW ws, Aims(is, os, ws), ReadInv, Follows(is, os, ws), EndItems
  PROVE  Follows(is, os, ws)'
<1>1. /\ Written(is, os, ws) /\ ins = is /\ outs = os /\ hasWitness /\ ws # <<>>
      /\ (\E d, x : OnItem(d, x, ws)) /\ itemsLeft = 0
  BY DEF Aims, ReadInv, EndItems, ListsInv, Follows, Fields, AfterBody
<1>2. PICK done, w : OnItem(done, w, ws)
  BY <1>1
<1> DEFINE x == ws[Len(done) + 1]
<1>3. /\ done \in Seq(Stacks) /\ w \in Seq(Sizes) /\ wits = Append(done, w) /\ Starts(done, ws)
      /\ Len(done) < Len(ws) /\ Starts(w, x) /\ Len(w) + 0 = Len(x)
  BY <1>1, <1>2 DEF OnItem
<1>4. x \in Seq(Sizes) /\ Starts(Append(done, x), ws)
  <2>1. ws \in Seq(Stacks)
    BY <1>1, WrittenFacts
  <2> QED
    BY <1>3, <2>1, StartsNext DEF Stacks
<1>5. w = x
  <2> HIDE DEF x
  <2>1. Len(w) = Len(x) /\ Starts(x, x)
    BY <1>3, <1>4 DEF Starts
  <2> QED
    BY <1>3, <1>4, <2>1, StartsSame
<1>6. pc' = "witness" /\ UNCHANGED <<hasWitness, ins, outs, wits>>
  BY DEF EndItems, txVars
<1>7. Starts(wits', ws)
  BY <1>3, <1>4, <1>5, <1>6
<1> QED
  BY <1>1, <1>6, <1>7 DEF Follows, AfterBody

(* All stacks have been read, and one of them is not empty.                *)
LEMMA FollowEndWitness ==
  ASSUME NEW is, NEW os, NEW ws, Aims(is, os, ws), ReadInv, Follows(is, os, ws), EndWitness
  PROVE  Follows(is, os, ws)'
<1>1. /\ Written(is, os, ws) /\ ins = is /\ outs = os /\ hasWitness /\ ws # <<>>
      /\ Starts(wits, ws) /\ wits \in Seq(Stacks) /\ left = 0 /\ Len(wits) + left = Len(ins)
  BY DEF Aims, ReadInv, EndWitness, ListsInv, CountsInv, Follows, Fields, AfterBody
<1>2. ws \in Seq(Stacks) /\ Len(ws) = Len(is) /\ (\E k \in DOMAIN ws : ws[k] # <<>>)
  BY <1>1 DEF Written
<1>3. Len(wits) = Len(ws) /\ Starts(ws, ws)
  BY <1>1, <1>2 DEF Starts
<1>4. wits = ws
  BY <1>1, <1>2, <1>3, StartsSame
<1>5. ~Superfluous
  BY <1>2, <1>4 DEF Superfluous
<1>6. pc' = "locktime" /\ UNCHANGED <<hasWitness, ins, outs, wits>>
  BY <1>5 DEF EndWitness, txVars
<1> QED
  BY <1>1, <1>4, <1>6 DEF Follows, AfterBody

(* The locktime ends the input.                                            *)
LEMMA FollowLocktime ==
  ASSUME NEW is, NEW os, NEW ws, Aims(is, os, ws), ReadInv, Follows(is, os, ws), ReadLocktime
  PROVE  Follows(is, os, ws)'
<1> DEFINE F == Full(is, os, ws)
           r == WitsRead(ws # <<>>, is, os, ws)
           z == Zeros(LocktimeSize)
<1>1. /\ Written(is, os, ws) /\ Len(F) = length /\ StateOK /\ ins = is /\ outs = os
      /\ wits = ws /\ hasWitness \in BOOLEAN /\ (hasWitness <=> ws # <<>>)
      /\ raw = WitsRead(hasWitness, ins, outs, wits)
  BY DEF Aims, ReadInv, ReadLocktime, BytesInv, StateOK, TypeOK, Follows, Fields, AfterBody
<1>2. raw = r
  <2>1. hasWitness = (ws # <<>>)
    BY <1>1
  <2> QED
    BY <1>1, <2>1
<1>3. length = Len(raw) + LocktimeSize /\ Len(raw) \in Nat /\ LocktimeSize \in Nat
      /\ Len(z) = LocktimeSize
  <2>1. ws \in Seq(Stacks) /\ LocktimeSize \in Nat
    BY <1>1, WrittenFacts, FormatAssumption
  <2>2. Starts(ws, ws)
    BY <2>1 DEF Starts
  <2>3. Len(F) = Len(r) + LocktimeSize
    BY <1>1, <2>1, <2>2, WitsWithin
  <2>4. Len(raw) \in Nat /\ Len(z) = LocktimeSize
    BY <1>1, <2>1, ZerosRun DEF StateOK, TypeOK
  <2> QED
    BY <1>1, <1>2, <2>1, <2>3, <2>4
<1> HIDE DEF F, r, z
<1>4. ~Truncated(Zeros(LocktimeSize)) /\ ~(Remaining > LocktimeSize)
  BY <1>3 DEF Truncated, Available, Remaining, Offset, z
<1>5. pc' = "accepted" /\ UNCHANGED <<hasWitness, ins, outs, wits>>
  BY <1>4 DEF ReadLocktime, Read, txVars
<1> QED
  BY <1>1, <1>5 DEF Follows, AfterBody

(* A step reads on, in the same input.                                     *)
LEMMA ReadsOn ==
  ASSUME ReadInv, Next
  PROVE  length' = length /\ Starts(raw, raw')
<1>1. StateOK /\ raw \in Seq(Byte)
  BY DEF ReadInv, StateOK, TypeOK
<1>2. ASSUME NEW bs \in Seq(Byte), Reject(bs) PROVE length' = length /\ Starts(raw, raw')
  BY <1>1, <1>2, RejectReads DEF Reject
<1>3. ASSUME NEW bs \in Seq(Byte), NEW to, Read(bs, to) PROVE Starts(raw, raw')
  BY <1>1, <1>3, StartsConcat DEF Read
<1>4. ASSUME raw' = raw PROVE Starts(raw, raw')
  BY <1>1, <1>4, StartsConcat
<1>5. /\ \A n \in {VersionSize, OutpointSize, AmountSize, LocktimeSize} : Zeros(n) \in Seq(Byte)
      /\ \A b \in Byte : <<b>> \in Seq(Byte)
      /\ 0 \in Byte /\ 1 \in Byte
  BY FormatAssumption, ZerosRun DEF Byte
<1>6. ASSUME NEW cs \in CompactSizes
      PROVE  /\ cs.bytes \in Seq(Byte) /\ Zeros(OutpointSize) \o cs.bytes \in Seq(Byte)
             /\ Zeros(AmountSize) \o cs.bytes \in Seq(Byte)
             /\ Canonical(cs) => /\ InputBytes(cs) \in Seq(Byte) /\ OutputBytes(cs) \in Seq(Byte)
                                 /\ ItemBytes(cs) \in Seq(Byte)
  <2>1. cs.bytes \in Seq(Byte)
    BY SizeFacts
  <2> QED
    BY <1>5, <2>1, Cat, ElementBytes
<1>7. CASE ReadVersion
  BY <1>2, <1>3, <1>5, <1>7 DEF ReadVersion, Truncated
<1>8. CASE ReadInputCount
  BY <1>2, <1>3, <1>6, <1>8 DEF ReadInputCount
<1>9. CASE ReadFlag
  BY <1>2, <1>3, <1>5, <1>9 DEF ReadFlag, Truncated
<1>10. CASE ReadWitnessInputCount
  BY <1>2, <1>3, <1>6, <1>10 DEF ReadWitnessInputCount
<1>11. CASE CheckInputs
  BY <1>4, <1>11 DEF CheckInputs
<1>12. CASE ReadInput
  BY <1>2, <1>3, <1>6, <1>12 DEF ReadInput, Fits
<1>13. CASE EndInputs
  BY <1>4, <1>13 DEF EndInputs
<1>14. CASE ReadOutputCount
  BY <1>2, <1>3, <1>6, <1>14 DEF ReadOutputCount
<1>15. CASE ReadOutput
  BY <1>2, <1>3, <1>6, <1>15 DEF ReadOutput, Fits
<1>16. CASE EndOutputs
  BY <1>4, <1>16 DEF EndOutputs
<1>17. CASE ReadItemCount
  BY <1>2, <1>3, <1>6, <1>17 DEF ReadItemCount
<1>18. CASE ReadItem
  BY <1>2, <1>3, <1>6, <1>18 DEF ReadItem, Fits
<1>19. CASE EndItems
  BY <1>4, <1>19 DEF EndItems
<1>20. CASE EndWitness
  BY <1>4, <1>20 DEF EndWitness
<1>21. CASE ReadLocktime
  BY <1>2, <1>3, <1>5, <1>21 DEF ReadLocktime, Truncated
<1> QED
  BY <1>7, <1>8, <1>9, <1>10, <1>11, <1>12, <1>13, <1>14, <1>15, <1>16, <1>17, <1>18, <1>19,
    <1>20, <1>21 DEF Next

(* No step leaves the serialization, or gives it up.                       *)
LEMMA NextFollow == ReadInv /\ FollowInv /\ [Next]_vars => FollowInv'
<1> SUFFICES ASSUME ReadInv, FollowInv, [Next]_vars,
                    NEW is, NEW os, NEW ws, Aims(is, os, ws)', Ahead(is, os, ws)'
             PROVE  Follows(is, os, ws)'
  BY DEF FollowInv
<1>1. CASE UNCHANGED vars
  <2>1. UNCHANGED <<pc, length, raw, hasWitness, left, itemsLeft, ins, outs, wits>>
    BY <1>1 DEF vars, loopVars, txVars
  <2>2. Aims(is, os, ws) /\ Ahead(is, os, ws)
    BY <2>1 DEF Aims, Ahead
  <2>3. Follows(is, os, ws)
    BY <2>2 DEF FollowInv
  <2> QED
    BY <2>1, <2>3 DEF Follows, OnItem
<1>2. CASE Next
  <2>1. ReadInv'
    BY NextRead
  <2>2. length' = length /\ Starts(raw, raw')
    BY <1>2, ReadsOn
  <2>3. Aims(is, os, ws)
    BY <2>2 DEF Aims
  <2>4. raw \in Seq(Byte) /\ raw' \in Seq(Byte) /\ Full(is, os, ws) \in Seq(Byte)
        /\ Starts(raw', Full(is, os, ws))
    BY <2>1, <2>3, WrittenFacts DEF ReadInv, StateOK, TypeOK, Aims, Ahead
  <2>5. Ahead(is, os, ws)
    BY <2>2, <2>4, StartsTrans DEF Ahead
  <2>6. Follows(is, os, ws)
    BY <2>3, <2>5 DEF FollowInv
  <2> QED
    BY <1>2, <2>3, <2>6, FollowVersion, FollowInputCount, FollowFlag, FollowWitnessInputCount,
      FollowCheckInputs, FollowInput, FollowEndInputs, FollowOutputCount, FollowOutput,
      FollowEndOutputs, FollowItemCount, FollowItem, FollowEndItems, FollowEndWitness,
      FollowLocktime DEF Next
<1> QED
  BY <1>1, <1>2

(* A parser whose input has begun with the bytes of a serialization of the *)
(* input's length is parsing that serialization: the counts it announced,  *)
(* the lists so far, and it has not given up.                              *)
THEOREM FollowsSerialization == Spec => []FollowInv
<1>1. Init => FollowInv
  BY DEF Init, FollowInv, Follows, Fields, BeforeWitness, BeforeOutputs, BeforeInputs, AfterBody
<1> QED
  BY <1>1, ReadsSerialization, NextFollow, PTL DEF Spec

-----------------------------------------------------------------------------
(* The well-formed transactions of the bound are among those the parser's  *)
(* invariant is about.                                                     *)

(* One more byte in front of a little-endian number.                       *)
LEMMA NumberStep ==
  ASSUME NEW b \in Byte, NEW bs \in Seq(Byte)
  PROVE  /\ <<b>> \o bs \in Seq(Byte) /\ Len(<<b>> \o bs) = Len(bs) + 1
         /\ Number(<<b>> \o bs) = b + Base * Number(bs)
<1> DEFINE w == Len(bs)
           cs == <<b>> \o bs
<1>1. /\ cs \in Seq(Byte) /\ Len(cs) = w + 1 /\ cs[1] = b /\ w \in Nat
      /\ \A k \in 1 .. w : cs[k + 1] = bs[k]
  OBVIOUS
<1> HIDE DEF cs
<1>2. PICK f : Digits(f, cs)
  BY <1>1, Numbered
<1>3. PICK h : Digits(h, bs)
  BY Numbered
<1>4. /\ f[0] = 0 /\ h[0] = 0
      /\ \A k \in 1 .. (w + 1) : f[k] = cs[(w + 1) - k + 1] + Base * f[k - 1]
      /\ \A k \in 1 .. w : h[k] = bs[w - k + 1] + Base * h[k - 1]
      /\ Number(cs) = f[w + 1] /\ Number(bs) = h[w]
  BY <1>1, <1>2, <1>3 DEF Digits
<1> DEFINE T == {k \in Nat : k <= w => f[k] = h[k]}
<1>5. 0 \in T
  BY <1>4
<1> HIDE DEF w
<1>6. ASSUME NEW k \in Nat, k \in T PROVE k + 1 \in T
  <2>1. SUFFICES ASSUME k + 1 <= w PROVE f[k + 1] = h[k + 1]
    OBVIOUS
  <2>2. /\ k + 1 \in 1 .. w /\ k + 1 \in 1 .. (w + 1) /\ f[k] = h[k] /\ (k + 1) - 1 = k
        /\ w - (k + 1) + 1 \in 1 .. w /\ (w + 1) - (k + 1) + 1 = (w - (k + 1) + 1) + 1
    BY <1>1, <1>6, <2>1
  <2>3. cs[(w + 1) - (k + 1) + 1] = bs[w - (k + 1) + 1]
    BY <1>1, <2>2
  <2>4. /\ f[k + 1] = cs[(w + 1) - (k + 1) + 1] + Base * f[k]
        /\ h[k + 1] = bs[w - (k + 1) + 1] + Base * h[k]
    BY <1>4, <2>2
  <2> QED
    BY <2>2, <2>3, <2>4
<1>7. f[w] = h[w]
  <2>1. w \in T
    <3> HIDE DEF T
    <3> QED
      BY <1>1, <1>5, <1>6, AllNumbers
  <2> QED
    BY <1>1, <2>1
<1>8. f[w + 1] = b + Base * h[w]
  <2>0. w \in Nat
    BY <1>1
  <2>1. w + 1 \in 1 .. (w + 1) /\ (w + 1) - (w + 1) + 1 = 1 /\ (w + 1) - 1 = w
    BY <2>0
  <2>2. f[w + 1] = cs[1] + Base * f[w]
    BY <1>4, <2>1
  <2> QED
    BY <1>1, <1>7, <2>2
<1> QED
  BY <1>1, <1>4, <1>8 DEF cs, w

(* Every number below Base ^ w is the number of w bytes.                   *)
LEMMA NumberReached ==
  ASSUME NEW w \in Nat, NEW v \in Nat, v < Below(w)
  PROVE  \E bs \in Seq(Byte) : Len(bs) = w /\ Number(bs) = v
<1> DEFINE Has(k, u) == \E bs \in Seq(Byte) : Len(bs) = k /\ Number(bs) = u
           T == {k \in Nat : \A u \in Nat : u < Below(k) => Has(k, u)}
<1>1. 0 \in T
  <2>1. <<>> \in Seq(Byte) /\ Len(<<>>) = 0
    OBVIOUS
  <2>2. Number(<<>>) = 0
    <3>1. PICK f : Digits(f, <<>>)
      BY <2>1, Numbered
    <3> QED
      BY <2>1, <3>1 DEF Digits
  <2>3. \A u \in Nat : u < Below(0) => u = 0
    BY BelowStep
  <2> QED
    BY <2>1, <2>2, <2>3
<1>2. ASSUME NEW k \in Nat, k \in T PROVE k + 1 \in T
  <2>1. SUFFICES ASSUME NEW u \in Nat, u < Below(k + 1) PROVE Has(k + 1, u)
    OBVIOUS
  <2> DEFINE q == u \div Base
             r == u % Base
             p == Below(k)
  <2>2. Base \in Nat /\ Base > 0 /\ p \in Nat /\ Below(k + 1) = Base * p
    BY BelowStep, FormatAssumption
  <2>3. q \in Nat /\ r \in 0 .. (Base - 1) /\ u = Base * q + r
    BY <2>2
  <2> HIDE DEF q, r, p
  <2>4. q < p
    <3>1. ASSUME q >= p PROVE FALSE
      <4>1. Base * q >= Base * p
        BY <2>2, <2>3, <3>1
      <4> QED
        BY <2>1, <2>2, <2>3, <4>1
    <3> QED
      BY <2>2, <2>3, <3>1
  <2>5. PICK bs \in Seq(Byte) : Len(bs) = k /\ Number(bs) = q
    BY <1>2, <2>3, <2>4 DEF p
  <2>6. r \in Byte
    BY <2>3 DEF Byte
  <2>7. /\ <<r>> \o bs \in Seq(Byte) /\ Len(<<r>> \o bs) = k + 1
        /\ Number(<<r>> \o bs) = r + Base * q
    BY <2>5, <2>6, NumberStep
  <2>8. r + Base * q = u
    <3> DEFINE m == Base * q
    <3>1. m \in Nat /\ r \in Nat
      BY <2>2, <2>3
    <3> HIDE DEF m
    <3> QED
      BY <2>3, <3>1 DEF m
  <2> QED
    BY <2>7, <2>8
<1>3. w \in T
  <2> HIDE DEF T
  <2> QED
    BY <1>1, <1>2, AllNumbers
<1> QED
  BY <1>3

(* A number in the range of a wide form is a size.                         *)
LEMMA WideSize ==
  ASSUME NEW j \in 1 .. 3, NEW v \in Nat, Minimum(j) <= v, v < Below(Width[j])
  PROVE  v \in Sizes
<1>1. Width[j] \in Nat
  BY FormatAssumption
<1>2. PICK bs \in Seq(Byte) : Len(bs) = Width[j] /\ Number(bs) = v
  BY <1>1, NumberReached
<1>3. bs \in [1 .. Width[j] -> Byte]
  BY <1>2
<1> DEFINE cs == [bytes |-> <<Prefix(j)>> \o bs, value |-> Number(bs), form |-> j]
<1>4. cs \in CompactSizes
  <2>1. cs \in Wide(j)
    BY <1>3 DEF Wide
  <2> HIDE DEF cs
  <2> QED
    BY <2>1 DEF CompactSizes
<1>5. cs.value = v /\ cs.form = j
  BY <1>2
<1> HIDE DEF cs
<1>6. Canonical(cs)
  BY <1>5 DEF Canonical
<1> QED
  BY <1>4, <1>5, <1>6 DEF Sizes

(* Every length that the widest form holds is a size.                      *)
LEMMA SizesReach ==
  ASSUME NEW v \in Lengths
  PROVE  v \in Sizes /\ v \in Nat
<1>1. v \in Nat /\ v < Below(Width[3]) /\ Base \in Nat /\ Base >= 5
  BY Widths, FormatAssumption DEF Lengths
<1>2. Minimum(1) = Base - 3 /\ Minimum(2) = Below(Width[1]) /\ Minimum(3) = Below(Width[2])
  BY DEF Minimum
<1>3. CASE v < Base - 3
  <2>1. v \in 0 .. (Base - 4)
    BY <1>1, <1>3
  <2> QED
    BY <1>1, <2>1, SmallSize
<1>4. CASE v >= Base - 3 /\ v < Below(Width[1])
  BY <1>1, <1>2, <1>4, WideSize
<1>5. CASE v >= Below(Width[1]) /\ v < Below(Width[2])
  BY <1>1, <1>2, <1>5, WideSize
<1>6. CASE v >= Below(Width[2])
  BY <1>1, <1>2, <1>6, WideSize
<1> QED
  BY <1>1, <1>3, <1>4, <1>5, <1>6, Widths

(* What Blobs enumerates: at most n blobs, each of a length within n.      *)
LEMMA BlobsBounded ==
  ASSUME NEW fixed, NEW n \in Nat, NEW s \in Blobs(fixed, n)
  PROVE  s \in Seq(0 .. n) /\ Len(s) \in 0 .. n
<1> DEFINE Taken(t) == fixed * Len(t) + Len(FlattenSeq([k \in DOMAIN t |-> Blob(t[k])]))
           More(R) == {t \in {Append(r, k) : r \in R, k \in 0 .. n} : Taken(t) <= n}
           Fills(b) == b = [j \in 0 .. n |-> IF j = 0 THEN {<<>>} ELSE More(b[j - 1])]
           c == CHOOSE b : Fills(b)
           S == SUBSET Seq(0 .. n)
           g == [k \in Nat |-> [R \in S |-> More(R)]]
<1>1. Blobs(fixed, n) = UNION {c[j] : j \in 0 .. n}
  BY DEF Blobs
<1> HIDE DEF Taken
<1>2. \A R \in S : More(R) \in S
  BY AppendProperties
<1>3. \A R, t : t \in More(R) => \E r \in R, k \in 0 .. n : t = Append(r, k)
  OBVIOUS
<1> HIDE DEF More
<1>4. g \in Steppers(S) /\ {<<>>} \in S
  BY <1>2 DEF Steppers
<1> HIDE DEF S, g
<1>5. PICK b : Steps(b, S, {<<>>}, g, n)
  BY <1>4, StepByStep
<1>6. Fills(b)
  <2>1. b \in [0 .. n -> S] /\ b[0] = {<<>>}
    BY <1>5 DEF Steps
  <2>2. ASSUME NEW j \in 1 .. n PROVE b[j] = More(b[j - 1])
    <3>1. b[j - 1] \in S /\ j \in Nat /\ b[j] = g[j][b[j - 1]]
      BY <1>5 DEF Steps
    <3> QED
      BY <3>1 DEF g
  <2>3. b = [j \in 0 .. n |-> b[j]]
    BY <2>1
  <2>4. \A j \in 0 .. n : b[j] = IF j = 0 THEN {<<>>} ELSE More(b[j - 1])
    BY <2>1, <2>2
  <2> QED
    BY <2>3, <2>4
<1>7. Fills(c)
  <2> HIDE DEF Fills
  <2> QED
    BY <1>6
<1> HIDE DEF c
<1>8. c[0] = {<<>>} /\ \A j \in 1 .. n : c[j] = More(c[j - 1])
  <2> DEFINE none == {<<>>}
  <2>1. \A j \in 0 .. n : c[j] = IF j = 0 THEN none ELSE More(c[j - 1])
    BY <1>7, Zenon
  <2>2. 0 \in 0 .. n /\ \A j \in 1 .. n : j \in 0 .. n /\ j # 0
    OBVIOUS
  <2> HIDE DEF none
  <2>3. c[0] = none /\ \A j \in 1 .. n : c[j] = More(c[j - 1])
    BY <2>1, <2>2
  <2> QED
    BY <2>3 DEF none
<1> DEFINE T == {j \in Nat : j <= n => \A t \in c[j] : t \in Seq(0 .. n) /\ Len(t) = j}
<1>9. 0 \in T
  <2>1. <<>> \in Seq(0 .. n) /\ Len(<<>>) = 0
    OBVIOUS
  <2>2. \A t \in c[0] : t = <<>>
    BY <1>8
  <2> QED
    BY <2>1, <2>2
<1>10. ASSUME NEW j \in Nat, j \in T PROVE j + 1 \in T
  <2>1. SUFFICES ASSUME j + 1 <= n, NEW t \in c[j + 1] PROVE t \in Seq(0 .. n) /\ Len(t) = j + 1
    OBVIOUS
  <2>2. j + 1 \in 1 .. n /\ (j + 1) - 1 = j /\ j <= n
    BY <2>1
  <2>3. PICK r \in c[j], k \in 0 .. n : t = Append(r, k)
    <3>1. t \in More(c[j])
      BY <1>8, <2>1, <2>2
    <3> QED
      BY <1>3, <3>1
  <2>4. r \in Seq(0 .. n) /\ Len(r) = j
    BY <1>10, <2>2, <2>3
  <2> QED
    BY <2>3, <2>4
<1>11. PICK j \in 0 .. n : s \in c[j]
  BY <1>1
<1>12. j \in T
  <2> HIDE DEF T
  <2> QED
    BY <1>9, <1>10, <1>11, AllNumbers
<1> QED
  BY <1>11, <1>12

(* What Witnesses enumerates: one stack for each of j inputs.              *)
LEMMA WitnessesBounded ==
  ASSUME NEW m \in Nat, NEW n, NEW ws \in Witnesses(m, n)
  PROVE  ws \in Seq(Blobs(0, n)) /\ Len(ws) = m
<1> DEFINE D == Blobs(0, n)
           More(R) == {Append(r, w) : r \in R, w \in D}
           Fills(b) == b = [k \in 0 .. m |-> IF k = 0 THEN {<<>>} ELSE More(b[k - 1])]
           c == CHOOSE b : Fills(b)
           S == SUBSET Seq(D)
           g == [k \in Nat |-> [R \in S |-> More(R)]]
<1>1. Witnesses(m, n) = c[m]
  BY DEF Witnesses
<1> HIDE DEF D
<1>2. \A R \in S : More(R) \in S
  BY AppendProperties
<1>3. \A R, t : t \in More(R) => \E r \in R, w \in D : t = Append(r, w)
  OBVIOUS
<1> HIDE DEF More
<1>4. g \in Steppers(S) /\ {<<>>} \in S
  BY <1>2 DEF Steppers
<1> HIDE DEF S, g
<1>5. PICK b : Steps(b, S, {<<>>}, g, m)
  BY <1>4, StepByStep
<1>6. Fills(b)
  <2>1. b \in [0 .. m -> S] /\ b[0] = {<<>>}
    BY <1>5 DEF Steps
  <2>2. ASSUME NEW j \in 1 .. m PROVE b[j] = More(b[j - 1])
    <3>1. b[j - 1] \in S /\ j \in Nat /\ b[j] = g[j][b[j - 1]]
      BY <1>5 DEF Steps
    <3> QED
      BY <3>1 DEF g
  <2>3. b = [j \in 0 .. m |-> b[j]]
    BY <2>1
  <2>4. \A j \in 0 .. m : b[j] = IF j = 0 THEN {<<>>} ELSE More(b[j - 1])
    BY <2>1, <2>2
  <2> QED
    BY <2>3, <2>4
<1>7. Fills(c)
  <2> HIDE DEF Fills
  <2> QED
    BY <1>6
<1> HIDE DEF c
<1>8. c[0] = {<<>>} /\ \A j \in 1 .. m : c[j] = More(c[j - 1])
  <2> DEFINE none == {<<>>}
  <2>1. \A j \in 0 .. m : c[j] = IF j = 0 THEN none ELSE More(c[j - 1])
    BY <1>7, Zenon
  <2>2. 0 \in 0 .. m /\ \A j \in 1 .. m : j \in 0 .. m /\ j # 0
    OBVIOUS
  <2> HIDE DEF none
  <2>3. c[0] = none /\ \A j \in 1 .. m : c[j] = More(c[j - 1])
    BY <2>1, <2>2
  <2> QED
    BY <2>3 DEF none
<1> DEFINE T == {j \in Nat : j <= m => \A t \in c[j] : t \in Seq(D) /\ Len(t) = j}
<1>9. 0 \in T
  <2>1. <<>> \in Seq(D) /\ Len(<<>>) = 0
    OBVIOUS
  <2>2. \A t \in c[0] : t = <<>>
    BY <1>8
  <2> QED
    BY <2>1, <2>2
<1>10. ASSUME NEW j \in Nat, j \in T PROVE j + 1 \in T
  <2>1. SUFFICES ASSUME j + 1 <= m, NEW t \in c[j + 1] PROVE t \in Seq(D) /\ Len(t) = j + 1
    OBVIOUS
  <2>2. j + 1 \in 1 .. m /\ (j + 1) - 1 = j /\ j <= m
    BY <2>1
  <2>3. PICK r \in c[j], w \in D : t = Append(r, w)
    <3>1. t \in More(c[j])
      BY <1>8, <2>1, <2>2
    <3> QED
      BY <1>3, <3>1
  <2>4. r \in Seq(D) /\ Len(r) = j
    BY <1>10, <2>2, <2>3
  <2> QED
    BY <2>3, <2>4
<1>11. m \in T
  <2> HIDE DEF T
  <2> QED
    BY <1>9, <1>10, AllNumbers
<1> QED
  BY <1>1, <1>11 DEF D

(* Serialize writes the parts in the order the parser reads them.          *)
LEMMA SerializeFull ==
  ASSUME NEW is, NEW os, NEW ws, Written(is, os, ws)
  PROVE  Serialize(Tx(is, os, ws)) = Full(is, os, ws)
<1> DEFINE h == ws # <<>>
           tx == Tx(is, os, ws)
           b == BodyOf(tx)
           z == Zeros(VersionSize)
           l == Zeros(LocktimeSize)
<1>1. /\ is \in Seq(Sizes) /\ os \in Seq(Sizes) /\ Len(is) \in Sizes /\ Len(os) \in Sizes
      /\ h \in BOOLEAN /\ tx.wits = ws
  BY WrittenFacts DEF Tx
<1>2. b \in Seq(Byte) /\ BodyRead(h, is, os) = Opening(h) \o b
  <2> HIDE DEF h
  <2> QED
    BY <1>1, BodyBytes
<1>3. Full(is, os, ws) = Opening(h) \o b \o WitBytes(ws) \o l
  BY <1>2 DEF Full, WitsRead
<1>4. z \in Seq(Byte) /\ l \in Seq(Byte)
  BY ZerosRun, FormatAssumption
<1>5. CASE ws # <<>>
  <2>1. Opening(h) = z \o <<0, 1>>
    BY <1>5 DEF Opening
  <2>2. Serialize(tx) = z \o <<0, 1>> \o b \o WitBytes(ws) \o l
    BY <1>1, <1>5 DEF Serialize, WitBytes
  <2> QED
    BY <1>3, <2>1, <2>2
<1>6. CASE ws = <<>>
  <2>1. h = FALSE /\ Opening(FALSE) = z
    BY <1>6, OpeningBytes
  <2>2. WitBytes(ws) = <<>>
    BY <1>6, NoneWritten
  <2>3. Serialize(tx) = z \o b \o l
    BY <1>1, <1>6 DEF Serialize, Stripped
  <2>4. Full(is, os, ws) = z \o b \o <<>> \o l
    BY <1>3, <2>1, <2>2
  <2> HIDE DEF z, b, l
  <2>5. z \o b \o <<>> = z \o b
    BY <1>2, <1>4
  <2> QED
    BY <2>3, <2>4, <2>5
<1> QED
  BY <1>5, <1>6

(* The enumerated lists are lists of sizes, and as long as a size.         *)
LEMMA BlobsSizes ==
  ASSUME NEW fixed, NEW n \in 0 .. MaxLength, NEW s \in Blobs(fixed, n)
  PROVE  s \in Seq(Sizes) /\ Len(s) \in Sizes
<1>1. n \in Nat /\ 0 .. n \subseteq 0 .. MaxLength
  BY FormatAssumption
<1>2. s \in Seq(0 .. n) /\ Len(s) \in 0 .. n
  BY <1>1, BlobsBounded
<1>3. 0 .. n \subseteq Sizes
  <2>1. 0 .. n \subseteq Lengths
    BY <1>1, Widths, FormatAssumption DEF Lengths
  <2> QED
    BY <2>1, SizesReach
<1> DEFINE D == 0 .. n
<1>4. s \in Seq(D) /\ D \subseteq Sizes /\ Len(s) \in D
  BY <1>2, <1>3
<1> HIDE DEF D
<1> QED
  BY <1>4, SeqMonotonic

(* The enumerated transactions without witness.                            *)
LEMMA LegacyWritten ==
  ASSUME NEW tx \in Legacy
  PROVE  /\ Written(tx.ins, tx.outs, <<>>) /\ tx = Tx(tx.ins, tx.outs, <<>>)
         /\ Len(Serialize(tx)) \in Nat
<1>1. PICK is \in Blobs(OutpointSize + SequenceSize, MaxLength),
           os \in Blobs(AmountSize, MaxLength) :
        tx = Tx(is, os, <<>>) /\ (is = <<>> => os = <<>>)
  BY DEF Legacy, Tx
<1>2. tx.ins = is /\ tx.outs = os
  BY <1>1 DEF Tx
<1>3. MaxLength \in 0 .. MaxLength
  BY FormatAssumption
<1>4. is \in Seq(Sizes) /\ os \in Seq(Sizes) /\ Len(is) \in Sizes /\ Len(os) \in Sizes
  BY <1>3, BlobsSizes
<1>5. Written(is, os, <<>>)
  BY <1>1, <1>4 DEF Written
<1>6. Len(Serialize(tx)) \in Nat
  BY <1>1, <1>5, SerializeFull, WrittenFacts
<1> QED
  BY <1>1, <1>2, <1>5, <1>6

(* The enumerated transactions with a witness.                             *)
LEMMA SegwitWritten ==
  ASSUME NEW tx \in Segwit
  PROVE  \E is, os, ws : Written(is, os, ws) /\ tx = Tx(is, os, ws)
<1>1. PICK l \in Legacy :
        /\ l.ins # <<>> /\ Len(Serialize(l)) + 4 <= MaxLength
        /\ \E ws \in Witnesses(Len(l.ins), MaxLength - 3 - Len(Serialize(l))) :
             tx = Tx(l.ins, l.outs, ws) /\ \E k \in DOMAIN tx.wits : tx.wits[k] # <<>>
  BY DEF Segwit
<1> DEFINE n == MaxLength - 3 - Len(Serialize(l))
<1>2. PICK ws \in Witnesses(Len(l.ins), n) :
        tx = Tx(l.ins, l.outs, ws) /\ \E k \in DOMAIN tx.wits : tx.wits[k] # <<>>
  BY <1>1
<1>3. Written(l.ins, l.outs, <<>>) /\ Len(Serialize(l)) \in Nat
  BY LegacyWritten
<1>4. n \in 0 .. MaxLength
  BY <1>1, <1>3, FormatAssumption
<1>5. /\ l.ins \in Seq(Sizes) /\ l.outs \in Seq(Sizes) /\ Len(l.ins) \in Sizes
      /\ Len(l.outs) \in Sizes /\ Len(l.ins) \in Nat
  BY <1>3, WrittenFacts
<1> HIDE DEF n
<1>6. ws \in Seq(Blobs(0, n)) /\ Len(ws) = Len(l.ins)
  BY <1>2, <1>5, WitnessesBounded
<1>7. Blobs(0, n) \subseteq Stacks
  BY <1>4, BlobsSizes DEF Stacks
<1>8. ws \in Seq(Stacks)
  BY <1>6, <1>7, SeqMonotonic
<1>9. \E k \in DOMAIN ws : ws[k] # <<>>
  BY <1>2 DEF Tx
<1>10. Written(l.ins, l.outs, ws)
  BY <1>1, <1>5, <1>6, <1>8, <1>9 DEF Written
<1> QED
  BY <1>2, <1>10

(* What is enumerated as well-formed is written as the parser reads it.    *)
LEMMA WellFormedWritten ==
  ASSUME NEW w \in WellFormed
  PROVE  \E is, os, ws : Written(is, os, ws) /\ w = Full(is, os, ws)
<1>1. PICK tx \in Legacy \union Segwit : w = Serialize(tx)
  BY DEF WellFormed
<1>2. PICK is, os, ws : Written(is, os, ws) /\ tx = Tx(is, os, ws)
  BY <1>1, LegacyWritten, SegwitWritten
<1> QED
  BY <1>1, <1>2, SerializeFull

(* The invariants are stronger than the property.                          *)
LEMMA FollowRejects == ReadInv /\ FollowInv => RejectsOnlyMalformed
<1> SUFFICES ASSUME ReadInv, FollowInv, pc = "rejected", NEW w \in WellFormed,
                    Len(w) = length, IsPrefix(raw, w)
             PROVE  FALSE
  BY DEF RejectsOnlyMalformed
<1>1. PICK is, os, ws : Written(is, os, ws) /\ w = Full(is, os, ws)
  BY WellFormedWritten
<1>2. w \in Seq(Byte) /\ raw \in Seq(Byte)
  BY <1>1, WrittenFacts DEF ReadInv, StateOK, TypeOK
<1>3. Aims(is, os, ws) /\ Ahead(is, os, ws)
  BY <1>1, <1>2, PrefixStarts DEF Aims, Ahead
<1>4. Follows(is, os, ws)
  BY <1>3 DEF FollowInv
<1> QED
  BY <1>4 DEF Follows

(* Nothing well-formed is rejected, whatever the sizes of the fields and   *)
(* the bound: a rejected input does not begin the serialization of any     *)
(* transaction of its length.                                              *)
THEOREM RejectsMalformed == Spec => []RejectsOnlyMalformed
BY FollowRejects, ReadsSerialization, FollowsSerialization, PTL

-----------------------------------------------------------------------------
(* What create_psbt() writes is the serialization of what was asked for.   *)

(* A number is its last digit and those before it.                         *)
LEMMA DigitOff ==
  ASSUME NEW v \in Nat
  PROVE  /\ v \div Base \in Nat /\ v % Base \in Byte /\ v % Base \in Nat
         /\ (v % Base) + Base * (v \div Base) = v
         /\ \A p \in Nat : v < Base * p => v \div Base < p
<1>1. Base \in Nat /\ Base > 0
  BY FormatAssumption
<1> DEFINE q == v \div Base
           r == v % Base
<1>2. q \in Nat /\ r \in 0 .. (Base - 1) /\ v = Base * q + r
  BY <1>1
<1> HIDE DEF q, r
<1>3. r + Base * q = v
  <2> DEFINE m == Base * q
  <2>1. m \in Nat /\ r \in Nat
    BY <1>1, <1>2
  <2> HIDE DEF m
  <2> QED
    BY <1>2, <2>1 DEF m
<1>4. ASSUME NEW p \in Nat, v < Base * p PROVE q < p
  <2>1. ASSUME q >= p PROVE FALSE
    <3>1. Base * q >= Base * p
      BY <1>1, <1>2, <2>1
    <3> QED
      BY <1>1, <1>2, <1>4, <3>1
  <2> QED
    BY <1>2, <2>1
<1> QED
  BY <1>2, <1>3, <1>4 DEF q, r, Byte

(* to_bytes() writes the bytes that from_bytes() reads the number from.    *)
LEMMA LittleEndianBytes ==
  ASSUME NEW n \in Nat, NEW size \in Nat, n < Below(size)
  PROVE  /\ W!LittleEndian(n, size) \in Seq(Byte) /\ Len(W!LittleEndian(n, size)) = size
         /\ Number(W!LittleEndian(n, size)) = n
<1> DEFINE Fills(b) == b = [i \in 0 .. size |-> IF i = 0 THEN n ELSE b[i - 1] \div Base]
           c == CHOOSE b : Fills(b)
           bs == [i \in 1 .. size |-> c[i - 1] % Base]
           g == [k \in Nat |-> [v \in Nat |-> v \div Base]]
<1>1. W!LittleEndian(n, size) = bs
  BY DEF W!LittleEndian
<1>2. g \in Steppers(Nat)
  BY DigitOff DEF Steppers
<1> HIDE DEF g
<1>3. PICK b : Steps(b, Nat, n, g, size)
  BY <1>2, StepByStep
<1>4. Fills(b)
  <2>1. b \in [0 .. size -> Nat] /\ b[0] = n
    BY <1>3 DEF Steps
  <2>2. ASSUME NEW j \in 1 .. size PROVE b[j] = b[j - 1] \div Base
    <3>1. b[j - 1] \in Nat /\ j \in Nat /\ b[j] = g[j][b[j - 1]]
      BY <1>3 DEF Steps
    <3> QED
      BY <3>1 DEF g
  <2>3. b = [j \in 0 .. size |-> b[j]]
    BY <2>1
  <2>4. \A j \in 0 .. size : b[j] = IF j = 0 THEN n ELSE b[j - 1] \div Base
    BY <2>1, <2>2
  <2> QED
    BY <2>3, <2>4
<1>5. Fills(c)
  <2> HIDE DEF Fills
  <2> QED
    BY <1>4
<1> HIDE DEF c
<1>6. c[0] = n /\ \A j \in 1 .. size : c[j] = c[j - 1] \div Base
  <2>1. \A j \in 0 .. size : c[j] = IF j = 0 THEN n ELSE c[j - 1] \div Base
    BY <1>5, Zenon
  <2>2. 0 \in 0 .. size /\ \A j \in 1 .. size : j \in 0 .. size /\ j # 0
    OBVIOUS
  <2> QED
    BY <2>1, <2>2
<1> HIDE DEF bs
(* What is left after k digits is below what size - k digits hold.         *)
<1> DEFINE T == {k \in Nat : k <= size => c[k] \in Nat /\ c[k] < Below(size - k)}
<1>7. \A k \in Nat : k \in T
  <2>1. 0 \in T
    BY <1>6
  <2>2. ASSUME NEW k \in Nat, k \in T PROVE k + 1 \in T
    <3>1. SUFFICES ASSUME k + 1 <= size PROVE c[k + 1] \in Nat /\ c[k + 1] < Below(size - (k + 1))
      OBVIOUS
    <3> DEFINE m == size - (k + 1)
    <3>2. m \in Nat /\ size - k = m + 1 /\ k + 1 \in 1 .. size /\ (k + 1) - 1 = k /\ k <= size
      BY <3>1
    <3> HIDE DEF m
    <3>3. c[k] \in Nat /\ c[k] < Base * Below(m) /\ Below(m) \in Nat
      BY <2>2, <3>2, BelowStep
    <3>4. c[k + 1] = c[k] \div Base
      BY <1>6, <3>2
    <3>5. c[k + 1] \in Nat /\ c[k + 1] < Below(m)
      BY <3>3, <3>4, DigitOff
    <3> QED
      BY <3>5 DEF m
  <2> HIDE DEF T
  <2> QED
    BY <2>1, <2>2, AllNumbers
<1>8. \A k \in 0 .. size : c[k] \in Nat
  BY <1>7
<1>9. c[size] = 0
  <2>1. size - size = 0 /\ Below(0) = 1
    BY BelowStep
  <2>2. c[size] \in Nat /\ c[size] < Below(size - size)
    BY <1>7
  <2> QED
    BY <2>1, <2>2
<1>10. bs \in Seq(Byte) /\ Len(bs) = size /\ \A i \in 1 .. size : bs[i] = c[i - 1] % Base
  <2>1. \A i \in 1 .. size : c[i - 1] \in Nat
    BY <1>8
  <2>2. \A i \in 1 .. size : c[i - 1] % Base \in Byte
    BY <2>1, DigitOff
  <2> QED
    BY <2>2 DEF bs
<1>11. PICK f : Digits(f, bs)
  BY <1>10, Numbered
<1>12. f[0] = 0 /\ Number(bs) = f[size]
       /\ \A k \in 1 .. size : f[k] = bs[size - k + 1] + Base * f[k - 1]
  BY <1>10, <1>11 DEF Digits
(* The number of the last k digits is what was left before them.           *)
<1> DEFINE U == {k \in Nat : k <= size => f[k] = c[size - k]}
<1>13. 0 \in U
  BY <1>9, <1>12
<1>14. ASSUME NEW k \in Nat, k \in U PROVE k + 1 \in U
  <2>1. SUFFICES ASSUME k + 1 <= size PROVE f[k + 1] = c[size - (k + 1)]
    OBVIOUS
  <2> DEFINE m == size - (k + 1)
  <2>2. /\ m \in 0 .. size /\ k + 1 \in 1 .. size /\ (k + 1) - 1 = k /\ k <= size
        /\ size - (k + 1) + 1 = m + 1 /\ m + 1 \in 1 .. size /\ (m + 1) - 1 = m /\ size - k = m + 1
    BY <2>1
  <2> HIDE DEF m
  <2>3. f[k] = c[m + 1] /\ c[m + 1] = c[m] \div Base /\ bs[m + 1] = c[m] % Base
    BY <1>6, <1>10, <1>14, <2>2
  <2>4. f[k + 1] = bs[m + 1] + Base * f[k]
    BY <1>12, <2>2
  <2>5. (c[m] % Base) + Base * (c[m] \div Base) = c[m]
    BY <1>8, <2>2, DigitOff
  <2> QED
    BY <2>3, <2>4, <2>5 DEF m
<1>15. f[size] = n
  <2>1. size \in U
    <3> HIDE DEF U
    <3> QED
      BY <1>13, <1>14, AllNumbers
  <2>2. size - size = 0
    OBVIOUS
  <2> QED
    BY <1>6, <2>1, <2>2
<1> QED
  BY <1>1, <1>10, <1>12, <1>15

(* The writer's choice of form is the only one the parser takes.           *)
LEMMA SizeWritten ==
  ASSUME NEW n \in Lengths
  PROVE  n \in Sizes /\ n \in Nat /\ W!CompactSize(n) = Enc(n)
<1>1. n \in Sizes /\ n \in Nat /\ n < Below(Width[3])
  <2>1. n \in Sizes /\ n \in Nat
    BY SizesReach
  <2>2. n < Below(Width[3])
    BY Widths DEF Lengths
  <2> QED
    BY <2>1, <2>2
<1> DEFINE P(f) == /\ f < 3 => n < W!Limit(f)
                   /\ \A g \in 0 .. f - 1 : n >= W!Limit(g)
           form == CHOOSE f \in 0 .. 3 : P(f)
<1>2. /\ W!Limit(0) = Base - 3
      /\ \A j \in 1 .. 3 : W!Limit(j) = Below(Width[j])
  BY DEF W!Limit, W!Below, Below
<1>3. /\ Below(Width[1]) \in Nat /\ Below(Width[2]) \in Nat /\ Below(Width[3]) \in Nat
      /\ Base \in Nat /\ Base >= 5
  BY Widths, FormatAssumption
<1>4. \E f \in 0 .. 3 : P(f)
  <2>1. CASE n < W!Limit(0)
    <3>1. P(0)
      BY <2>1
    <3> QED
      BY <3>1
  <2>2. CASE n >= W!Limit(0) /\ n < W!Limit(1)
    <3>1. P(1)
      BY <2>2
    <3> QED
      BY <3>1
  <2>3. CASE n >= W!Limit(0) /\ n >= W!Limit(1) /\ n < W!Limit(2)
    <3>1. 0 .. 2 - 1 = {0, 1}
      OBVIOUS
    <3>2. P(2)
      BY <2>3, <3>1
    <3> QED
      BY <3>2
  <2>4. CASE n >= W!Limit(0) /\ n >= W!Limit(1) /\ n >= W!Limit(2)
    <3>1. 0 .. 3 - 1 = {0, 1, 2}
      OBVIOUS
    <3>2. P(3)
      BY <2>4, <3>1
    <3> QED
      BY <3>2
  <2> QED
    BY <1>1, <1>2, <1>3, <2>1, <2>2, <2>3, <2>4
<1>5. form \in 0 .. 3 /\ P(form)
  <2> HIDE DEF P
  <2> QED
    BY <1>4
<1>6. W!CompactSize(n) = IF form = 0 THEN <<n>>
                         ELSE <<Base - 4 + form>> \o W!LittleEndian(n, Width[form])
  BY DEF W!CompactSize
<1> HIDE DEF form
<1>7. CASE form = 0
  <2>1. n \in 0 .. (Base - 4)
    BY <1>1, <1>2, <1>3, <1>5, <1>7
  <2> QED
    BY <1>1, <1>6, <1>7, <2>1, SmallSize
<1>8. CASE form # 0
  <2>1. form \in 1 .. 3 /\ form - 1 \in 0 .. form - 1
    BY <1>5, <1>8
  <2>2. n >= W!Limit(form - 1) /\ (form < 3 => n < W!Limit(form))
    BY <1>5, <2>1
  <2>3. Minimum(form) <= n
    <3>1. W!Limit(form - 1) = Minimum(form)
      BY <1>2, <2>1 DEF Minimum
    <3> QED
      BY <1>1, <1>2, <1>3, <2>1, <2>2, <3>1
  <2>4. n < Below(Width[form]) /\ Width[form] \in Nat
    BY <1>1, <1>2, <2>1, <2>2, FormatAssumption
  <2> DEFINE bs == W!LittleEndian(n, Width[form])
             cs == [bytes |-> <<Prefix(form)>> \o bs, value |-> Number(bs), form |-> form]
  <2>5. bs \in Seq(Byte) /\ Len(bs) = Width[form] /\ Number(bs) = n
    BY <1>1, <2>4, LittleEndianBytes
  <2> HIDE DEF bs
  <2>6. cs \in CompactSizes
    <3>1. bs \in [1 .. Width[form] -> Byte]
      BY <2>5
    <3>2. cs \in Wide(form)
      BY <3>1 DEF Wide
    <3> HIDE DEF cs
    <3> QED
      BY <2>1, <3>2 DEF CompactSizes
  <2>7. cs.value = n /\ cs.form = form /\ cs.bytes = <<Prefix(form)>> \o bs
    BY <2>5
  <2> HIDE DEF cs
  <2>8. Enc(n) = cs.bytes
    BY <2>3, <2>6, <2>7, EncOf DEF Canonical
  <2>9. W!CompactSize(n) = <<Prefix(form)>> \o bs
    BY <1>6, <1>8 DEF bs, Prefix
  <2> QED
    BY <1>1, <2>7, <2>8, <2>9
<1> QED
  BY <1>7, <1>8

(* The inputs of a PSBT's transaction, with empty scripts.                 *)
Empty(m) == [k \in 1 .. m |-> 0]

(* What create_psbt() writes.                                              *)
LEMMA TxWritten ==
  ASSUME NEW m \in Lengths, NEW os \in Seq(Lengths), Len(os) \in Lengths, W!Complete(m, os)
  PROVE  /\ Written(Empty(m), os, <<>>)
         /\ W!TxBytes(m, os) = Full(Empty(m), os, <<>>)
<1> DEFINE is == Empty(m)
<1>1. m \in Sizes /\ m \in Nat /\ W!CompactSize(m) = Enc(m) /\ m # 0
  BY SizeWritten DEF W!Complete
<1>2. Len(os) \in Sizes /\ W!CompactSize(Len(os)) = Enc(Len(os))
  BY SizeWritten
<1>3. os \in Seq(Sizes)
  <2>1. Lengths \subseteq Sizes
    BY SizesReach
  <2> QED
    BY <2>1, SeqMonotonic
<1>4. 0 \in Sizes /\ Enc(0) = <<0>>
  BY SmallSize, FormatAssumption
<1>5. is \in Seq(Sizes) /\ Len(is) = m /\ DOMAIN is = 1 .. m /\ \A k \in 1 .. m : is[k] = 0
  BY <1>1, <1>4 DEF Empty
<1>6. is # <<>>
  BY <1>1, <1>5
<1>7. Written(is, os, <<>>)
  BY <1>1, <1>2, <1>3, <1>5, <1>6 DEF Written
<1>8. \A k \in Nat : W!Zeros(k) = Zeros(k)
  BY DEF W!Zeros, Zeros
<1>9. W!TxIn = InputOf(0)
  <2>1. OutpointSize \in Nat /\ SequenceSize \in Nat
    BY FormatAssumption
  <2>2. Blob(0) = <<0>>
    <3>1. Zeros(0) = <<>>
      BY DEF Zeros
    <3>2. Blob(0) = <<0>> \o <<>>
      BY <1>4, <3>1 DEF Blob
    <3>3. <<0>> \o <<>> = <<0>>
      OBVIOUS
    <3> QED
      BY <3>2, <3>3
  <2> QED
    BY <1>8, <2>1, <2>2 DEF W!TxIn, InputOf
<1>10. ASSUME NEW n \in Lengths PROVE W!TxOut(n) = OutputOf(n)
  <2>1. n \in Nat /\ AmountSize \in Nat
    BY SizeWritten, FormatAssumption
  <2>2. Len(Zeros(n)) = n
    BY <2>1, ZerosRun
  <2>3. W!Blob(Zeros(n)) = Blob(n)
    BY <2>2, SizeWritten DEF W!Blob, Blob
  <2> QED
    BY <1>8, <2>1, <2>3 DEF W!TxOut, OutputOf
<1>11. FlattenSeq([k \in 1 .. m |-> W!TxIn]) = InBytes(is)
  <2>1. [k \in 1 .. m |-> W!TxIn] = [k \in DOMAIN is |-> InputOf(is[k])]
    BY <1>5, <1>9
  <2> QED
    BY <2>1 DEF InBytes
<1>12. FlattenSeq([k \in DOMAIN os |-> W!TxOut(os[k])]) = OutBytes(os)
  <2>1. \A k \in DOMAIN os : os[k] \in Lengths
    OBVIOUS
  <2>2. [k \in DOMAIN os |-> W!TxOut(os[k])] = [k \in DOMAIN os |-> OutputOf(os[k])]
    BY <1>10, <2>1
  <2> QED
    BY <2>2 DEF OutBytes
<1>13. W!Zeros(VersionSize) = Opening(FALSE) /\ W!Zeros(LocktimeSize) = Zeros(LocktimeSize)
  BY <1>8, OpeningBytes, FormatAssumption
<1>14. WitsRead(FALSE, is, os, <<>>) = BodyRead(FALSE, is, os)
  <2>1. <<>> \in Seq(Stacks) /\ FALSE \in BOOLEAN /\ Len(is) \in Sizes
    BY <1>1, <1>5
  <2> HIDE DEF is
  <2> QED
    BY <1>2, <1>3, <1>5, <2>1, WitsGrow
<1>15. BodyRead(FALSE, is, os) = W!Zeros(VersionSize)
         \o W!CompactSize(m) \o FlattenSeq([k \in 1 .. m |-> W!TxIn])
         \o W!CompactSize(Len(os)) \o FlattenSeq([k \in DOMAIN os |-> W!TxOut(os[k])])
  <2> HIDE DEF is
  <2> QED
    BY <1>1, <1>2, <1>5, <1>11, <1>12, <1>13 DEF BodyRead, OutsRead, InsRead
<1>16. Full(is, os, <<>>) = BodyRead(FALSE, is, os) \o Zeros(LocktimeSize)
  BY <1>14 DEF Full
<1>17. W!TxBytes(m, os) = BodyRead(FALSE, is, os) \o W!Zeros(LocktimeSize)
  <2> HIDE DEF is
  <2> DEFINE body == W!Zeros(VersionSize)
           \o W!CompactSize(m) \o FlattenSeq([k \in 1 .. m |-> W!TxIn])
           \o W!CompactSize(Len(os)) \o FlattenSeq([k \in DOMAIN os |-> W!TxOut(os[k])])
  <2>1. W!TxBytes(m, os) = body \o W!Zeros(LocktimeSize)
    <3>1. \A ss : W!FlattenSeq(ss) = FlattenSeq(ss)
      BY Zenon DEF W!FlattenSeq, FlattenSeq
    <3> QED
      BY <3>1, Zenon DEF W!TxBytes
  <2>2. BodyRead(FALSE, is, os) = body
    BY <1>15
  <2> HIDE DEF body
  <2> QED
    BY <2>1, <2>2
<1> QED
  BY <1>7, <1>13, <1>16, <1>17

-----------------------------------------------------------------------------
(* The parser with inputs from anywhere and from create_psbt().            *)

(* Before create_psbt() has written anything.                              *)
Waiting ==
  /\ length = 0 /\ raw = <<>> /\ hasWitness = FALSE
  /\ left = 0 /\ itemsLeft = 0
  /\ ins = <<>> /\ outs = <<>> /\ wits = <<>>
  /\ bodyStart = 0 /\ bodyEnd = 0
  /\ written = <<>>
  /\ request.ins \in InCounts /\ request.outs \in OutLists

(* What was written is the serialization of the request, and what has been *)
(* read begins it.                                                         *)
UnsignedInv ==
  /\ pc = "create" => Waiting
  /\ pc # "create" => ReadInv /\ FollowInv
  /\ written # <<>> =>
       /\ pc # "create" /\ length = Len(written) /\ Starts(raw, written)
       /\ Written(Empty(request.ins), request.outs, <<>>)
       /\ written = Full(Empty(request.ins), request.outs, <<>>)

(* A parser that starts follows every serialization.                       *)
LEMMA FreshFollows == Fresh => FollowInv
BY DEF Fresh, FollowInv, Follows, Fields, BeforeWitness, BeforeOutputs, BeforeInputs, AfterBody

(* The same after create_psbt().                                           *)
LEMMA FreshNext == Fresh' => ReadInv' /\ FollowInv'
BY FreshRead, FreshFollows, PTL

(* The parser's own invariants hold at first.                              *)
LEMMA InitUnsigned == UInit => UnsignedInv
<1>1. Init => Fresh
  BY FormatAssumption DEF Init, Fresh
<1>2. pc = "create" /\ UInit => Waiting
  BY DEF UInit, Init, Waiting
<1>3. pc # "create" /\ UInit => ReadInv /\ FollowInv
  BY <1>1, FreshRead, FreshFollows DEF UInit
<1> QED
  BY <1>2, <1>3 DEF UInit, UnsignedInv

(* create_psbt() hands over the serialization of the request.              *)
LEMMA CreateStep ==
  ASSUME UnsignedInv, Create
  PROVE  UnsignedInv'
<1> DEFINE m == request.ins
           os == request.outs
<1>1. Waiting /\ W!Complete(m, os) /\ written' = W!TxBytes(m, os)
  BY DEF UnsignedInv, Create
<1>2. m \in Lengths /\ os \in Seq(Lengths) /\ Len(os) \in Lengths
  BY <1>1, RequestAssumption DEF Waiting
<1>3. Written(Empty(m), os, <<>>) /\ written' = Full(Empty(m), os, <<>>)
  <2> HIDE DEF m, os
  <2> QED
    BY <1>1, <1>2, TxWritten
<1>4. written' \in Seq(Byte) /\ Len(written') \in Nat
  BY <1>3, WrittenFacts
<1>5. /\ pc' = "version" /\ length' = Len(written') /\ request' = request
      /\ UNCHANGED <<raw, hasWitness, left, itemsLeft, ins, outs, wits, bodyStart, bodyEnd>>
  BY DEF Create, loopVars, txVars, bodyVars
<1>6. Fresh'
  BY <1>1, <1>4, <1>5 DEF Waiting, Fresh
<1>7. raw' = <<>>
  BY <1>1, <1>5 DEF Waiting
<1>8. Starts(raw', written')
  BY <1>4, <1>7 DEF Starts
<1> QED
  BY <1>3, <1>5, <1>6, <1>8, FreshNext DEF UnsignedInv

(* The parser's step, on what was written.                                 *)
LEMMA ParseStep ==
  ASSUME UnsignedInv, Parse
  PROVE  UnsignedInv'
<1>1. pc # "create"
  BY DEF Parse, Next, ReadVersion, ReadInputCount, ReadFlag, ReadWitnessInputCount, CheckInputs,
    ReadInput, EndInputs, ReadOutputCount, ReadOutput, EndOutputs, ReadItemCount, ReadItem,
    EndItems, EndWitness, ReadLocktime
<1>2. ReadInv /\ FollowInv /\ Next /\ request' = request /\ written' = written
  BY <1>1 DEF UnsignedInv, Parse
<1>3. ReadInv' /\ FollowInv'
  BY <1>2, NextRead, NextFollow
<1>4. pc' # "create" /\ raw' \in Seq(Byte)
  BY <1>3 DEF ReadInv, StateOK, TypeOK, Fields, BeforeWitness, BeforeOutputs, BeforeInputs,
    AfterBody
<1>5. length' = length
  BY <1>2, ReadsOn
<1>6. ASSUME written # <<>> PROVE Starts(raw', written)
  <2>1. written \in Seq(Byte)
    BY <1>6, WrittenFacts DEF UnsignedInv
  <2>2. IsPrefix(raw', written)
    BY <1>6 DEF Parse
  <2> QED
    BY <1>4, <2>1, <2>2, PrefixStarts
<1> QED
  BY <1>2, <1>3, <1>4, <1>5, <1>6 DEF UnsignedInv

(* Nothing else happens.                                                   *)
LEMMA UnsignedStays ==
  ASSUME UnsignedInv, UNCHANGED <<vars, request, written>>
  PROVE  UnsignedInv'
<1>1. UNCHANGED <<pc, length, raw, hasWitness, left, itemsLeft, ins, outs, wits, bodyStart, bodyEnd>>
  BY DEF vars, loopVars, txVars, bodyVars
<1>2. pc # "create" => ReadInv' /\ FollowInv'
  <2>1. UNCHANGED vars
    OBVIOUS
  <2> QED
    BY <2>1, NextRead, NextFollow DEF UnsignedInv
<1>3. pc = "create" => Waiting'
  BY <1>1 DEF UnsignedInv, Waiting
<1> QED
  BY <1>1, <1>2, <1>3 DEF UnsignedInv

(* Whatever the input, and when create_psbt() wrote it: the parser's       *)
(* invariants hold, and what it reads begins what was written.             *)
THEOREM ReadsWritten == USpec => []UnsignedInv
<1>1. UnsignedInv /\ [UNext]_<<vars, request, written>> => UnsignedInv'
  BY CreateStep, ParseStep, UnsignedStays DEF UNext, Finished
<1> QED
  BY <1>1, InitUnsigned, PTL DEF USpec

(* parse_transaction() reads the transaction that create_psbt() writes,    *)
(* with the inputs and scripts that were asked for, for any counts and     *)
(* lengths that a CompactSize holds: it neither rejects it nor takes an    *)
(* input count for a witness marker.                                       *)
THEOREM PsbtReadBack == USpec => []PsbtTxParses
<1>1. UnsignedInv => PsbtTxParses
  <2> SUFFICES ASSUME UnsignedInv, written # <<>> 
               PROVE  /\ pc # "rejected"
                      /\ pc = "accepted" =>
                         /\ raw = written /\ ~hasWitness
                         /\ ins = [k \in 1 .. request.ins |-> 0]
                         /\ outs = request.outs
    BY DEF PsbtTxParses
  <2> DEFINE is == Empty(request.ins)
             os == request.outs
  <2>1. /\ ReadInv /\ FollowInv /\ length = Len(written) /\ Starts(raw, written)
        /\ Written(is, os, <<>>) /\ written = Full(is, os, <<>>)
    BY DEF UnsignedInv
  <2>2. raw \in Seq(Byte) /\ written \in Seq(Byte)
    BY <2>1, WrittenFacts DEF ReadInv, StateOK, TypeOK
  <2>3. Aims(is, os, <<>>) /\ Ahead(is, os, <<>>)
    BY <2>1, <2>2 DEF Aims, Ahead
  <2>4. Follows(is, os, <<>>)
    BY <2>1, <2>3 DEF FollowInv
  <2>5. pc = "accepted" => ins = is /\ outs = os /\ ~hasWitness
    BY <2>4 DEF Follows, Fields, AfterBody
  <2>6. ASSUME pc = "accepted" PROVE raw = written
    <3>1. Len(raw) = Len(written)
      BY <2>1, <2>6 DEF ReadInv, BytesInv, Offset
    <3>2. Starts(written, written)
      BY <2>2 DEF Starts
    <3> QED
      BY <2>1, <2>2, <3>1, <3>2, StartsSame
  <2> QED
    BY <2>4, <2>5, <2>6 DEF Follows, Empty
<1> QED
  BY <1>1, ReadsWritten, PTL

(* With both sources of inputs the parser accepts only canonical bytes,    *)
(* hashes the stripped form and rejects nothing well-formed.               *)
THEOREM ParsesEither == USpec => [](RoundTrip /\ StrippedForm /\ RejectsOnlyMalformed)
<1>1. ASSUME UnsignedInv, pc = "create" PROVE RoundTrip /\ StrippedForm /\ RejectsOnlyMalformed
  <2>1. Waiting
    BY <1>1 DEF UnsignedInv
  <2>2. raw \in Seq(Byte) /\ Len(raw) = 0
    BY <2>1 DEF Waiting
  <2>3. TypeOK
    <3>1. length = 0 /\ hasWitness = FALSE /\ left = 0 /\ itemsLeft = 0
          /\ bodyStart = 0 /\ bodyEnd = 0
      BY <2>1 DEF Waiting
    <3>2. {bodyStart, bodyEnd} \subseteq 0 .. length
      BY <3>1
    <3>3. hasWitness \in BOOLEAN /\ left \in Nat /\ itemsLeft \in Nat
      BY <3>1
    <3>4. length \in Nat /\ Len(raw) <= length
      BY <2>2, <3>1
    <3> QED
      BY <2>2, <3>2, <3>3, <3>4 DEF TypeOK, Offset
  <2> QED
    BY <1>1, <2>3 DEF RoundTrip, StrippedForm, RejectsOnlyMalformed
<1>2. UnsignedInv => RoundTrip /\ StrippedForm /\ RejectsOnlyMalformed
  BY <1>1, ReadRoundTrip, ReadStripped, FollowRejects DEF UnsignedInv
<1> QED
  BY <1>2, ReadsWritten, PTL
=============================================================================
