---------------------------- MODULE PublicPoints ----------------------------
(***************************************************************************)
(* Public-key arithmetic (src/bitwalkit/_secp.py) and its two users:       *)
(* ExtendedKey.child() (bip32.py) and _taproot_output_key() (address.py).  *)
(*                                                                         *)
(* The curve is y^2 = x^3 + 7 over a field that is a parameter; GE() is    *)
(* the empty tuple, a finite GE a pair and a Jacobian triple a triple.     *)
(* One operation runs at a time, its double-and-add loop bit by bit.       *)
(***************************************************************************)
EXTENDS Integers, Sequences, FiniteSets
LOCAL INSTANCE SequencesExt

CONSTANTS
  Field,        \* _FIELD
  Order,        \* _ORDER
  Gx, Gy,       \* the generator
  Scalars       \* integers a point is multiplied by, negative ones included

VARIABLES
  phase,        \* "idle", "loop", "returned" or "raised"
  ask,          \* the operation and its arguments
  scalar, result, addend,                \* the locals of __rmul__()
  out           \* what it returns

pointVars == <<phase, ask, scalar, result, addend, out>>

F         == 0 .. Field - 1
OnThisCurve(x, y) == (y * y - x * x * x - 7) % Field = 0
Infinity  == <<>>
Finite    == {point \in F \X F : OnThisCurve(point[1], point[2])}
G         == <<Gx, Gy>>

ASSUME CurveAssumption ==
  /\ Field \in Nat /\ Field % 4 = 3
  /\ \A d \in 2 .. Field - 1 : Field % d # 0
  /\ Order = Cardinality(Finite) + 1
  /\ \A d \in 2 .. Order - 1 : Order % d # 0
  /\ G \in Finite

Reciprocal(d) == CHOOSE i \in F : (d % Field) * i % Field = 1
Power(b, e) == LET f[n \in 0 .. e] == IF n = 0 THEN 1 ELSE b * f[n - 1] % Field
               IN  f[e]

-----------------------------------------------------------------------------
(* GE.__add__().                                                           *)

OnlyVertical(p, q) == p[1] = q[1] /\ p[2] = 0                     \* mutant
Opposite(p, q)     == p[1] = q[1] /\ (p[2] # q[2] \/ p[2] = 0)
Slope(p, q) ==
  (IF p[1] = q[1] THEN 3 * p[1] * p[1] * Reciprocal(2 * p[2])
                  ELSE (q[2] - p[2]) * Reciprocal(q[1] - p[1])) % Field

Plus(p, q) ==
  CASE p = Infinity   -> q
    [] q = Infinity   -> p
    [] p # Infinity /\ q # Infinity /\ Opposite(p, q) -> Infinity
    [] OTHER ->
         LET slope == Slope(p, q)
             x     == (slope * slope - p[1] - q[1]) % Field
         IN  <<x, (slope * (p[1] - x) - p[2]) % Field>>

-----------------------------------------------------------------------------
(* double() and add() of __rmul__().  None is the empty tuple too.         *)

Double(p) ==
  LET yy == p[2] * p[2] % Field
      s  == 4 * p[1] * yy % Field
      m  == 3 * p[1] * p[1] % Field
      x  == (m * m - 2 * s) % Field
  IN  IF p[2] = 0 THEN <<>>
      ELSE <<x, (m * (s - x) - 8 * yy * yy) % Field, 2 * p[2] * p[3] % Field>>

(* u1 = u2: the two triples stand for points of one abscissa.              *)
Add(p, q) ==
  LET u(a, b) == a[1] * b[3] * b[3] % Field
      s(a, b) == a[2] * b[3] * (b[3] * b[3] % Field) % Field
      h   == (u(q, p) - u(p, q)) % Field
      r   == (s(q, p) - s(p, q)) % Field
      hhh == h * (h * h % Field) % Field
      uhh == u(p, q) * (h * h % Field) % Field
      x   == (r * r - hhh - 2 * uhh) % Field
  IN  CASE p = <<>> -> q
        [] q = <<>> -> p
        [] p # <<>> /\ q # <<>> /\ h = 0 -> IF r # 0 THEN <<>> ELSE Double(p)
        [] OTHER -> <<x, (r * (uhh - x) - s(p, q) * hhh) % Field,
                      h * p[3] * q[3] % Field>>

Affine(p) ==
  IF p = <<>> THEN Infinity
  ELSE LET i == Reciprocal(p[3]) IN <<p[1] * i * i % Field, p[2] * i * i * i % Field>>

-----------------------------------------------------------------------------
(* lift_x() and the two serialized forms.  The prefix is the first byte;   *)
(* the other 32 hold any number, those beyond the field too.               *)

Root(x)     == Power((Power(x % Field, 3) + 7) % Field, (Field + 1) \div 4)
Liftable(x) == x \in F /\ Root(x) * Root(x) % Field = (Power(x, 3) + 7) % Field
Lift(x)     == <<x, IF Root(x) % 2 = 1 THEN Field - Root(x) ELSE Root(x)>>

Compressible(bytes) == Len(bytes) = 2 /\ bytes[1] \in {2, 3} /\ Liftable(bytes[2])
FromCompressed(bytes) ==
  LET point == Lift(bytes[2])
  IN  IF point[2] % 2 # bytes[1] % 2 THEN <<point[1], Field - point[2]>> ELSE point
ToCompressed(point) == <<2 + (point[2] % 2), point[1]>>
ToXOnly(point)      == <<point[1]>>

-----------------------------------------------------------------------------
(* Operations.  Multiply starts scalar * base, whose product the operation *)
(* then adds to ask.point, the point it started from.                      *)

Reduced(k)   == k % Order

Multiply(k, base) ==
  /\ phase' = "loop"
  /\ scalar' = IF base = Infinity THEN 0 ELSE Reduced(k)
  /\ addend' = Append(base, 1)
  /\ result' = <<>>
  /\ UNCHANGED out

Answer(value) ==
  /\ phase' = "returned"
  /\ out' = value
  /\ UNCHANGED <<scalar, result, addend>>

Raise ==
  /\ phase' = "raised"
  /\ UNCHANGED <<scalar, result, addend, out>>

(* k * point                                                               *)
Times(k, point) ==
  /\ phase = "idle"
  /\ ask' = [op |-> "times", k |-> k, point |-> point]
  /\ Multiply(k, point)

(* GE.from_bytes_compressed(bytes), as ExtendedKey.parse() calls it        *)
Parse(bytes) ==
  /\ phase = "idle"
  /\ ask' = [op |-> "parse", bytes |-> bytes]
  /\ IF Compressible(bytes) THEN Answer(FromCompressed(bytes)) ELSE Raise

(* child(): il comes out of an HMAC and may be any 32-byte number          *)
ChildPoint(il, key) ==
  /\ phase = "idle"
  /\ ask' = [op |-> "child", k |-> il, point |-> FromCompressed(key)]
  /\ IF il >= Order THEN Raise ELSE Multiply(il, G)

(* _taproot_output_key(): t comes out of a hash.  The key is 32 bytes, or  *)
(* 33 whose first one is not looked at.                                    *)
Taproot(t, bytes) ==
  LET usable == Len(bytes) \in {1, 2} /\ Liftable(Last(bytes))
  IN  /\ phase = "idle"
      /\ ask' = [op |-> "taproot", k |-> t, bytes |-> bytes,
                 point |-> IF usable THEN Lift(Last(bytes)) ELSE Infinity]
      /\ IF t >= Order \/ ~usable THEN Raise ELSE Multiply(t, G)

SkippedBit   == IF scalar % 4 = 3 THEN result ELSE Add(result, addend) \* mutant
AddedBit     == Add(result, addend)

(* One turn of `while scalar`                                              *)
DoubleAndAdd ==
  /\ phase = "loop"
  /\ scalar # 0
  /\ result' = IF scalar % 2 = 1 THEN AddedBit ELSE result
  /\ addend' = Double(addend)
  /\ scalar' = scalar \div 2
  /\ UNCHANGED <<phase, ask, out>>

EndOf(op) == phase = "loop" /\ scalar = 0 /\ ask.op = op /\ UNCHANGED ask

EndTimes == EndOf("times") /\ Answer(Affine(result))

EndChild ==
  LET point == Plus(Affine(result), ask.point)
  IN  /\ EndOf("child")
      /\ IF point = Infinity THEN Raise ELSE Answer(ToCompressed(point))

EndTaproot ==
  LET q == Plus(ask.point, Affine(result))
  IN  /\ EndOf("taproot")
      /\ IF q = Infinity THEN Raise ELSE Answer(ToXOnly(q))

-----------------------------------------------------------------------------
NotAsked == [op |-> "none"]

PointsInit ==
  /\ phase = "idle"
  /\ ask = NotAsked
  /\ scalar = 0
  /\ result = <<>> /\ addend = <<>> /\ out = <<>>

(* 32-byte numbers, scaled: some are not below the order, nor the field.   *)
Numbers == 0 .. Field + 1

Start ==
  \/ \E k \in Scalars, point \in Finite \cup {Infinity} : Times(k, point)
  \/ \E prefix \in 0 .. 4, x \in Numbers : Parse(<<prefix, x>>)
  \/ \E il \in Numbers, point \in Finite : ChildPoint(il, ToCompressed(point))
  \/ \E t, x \in Numbers, prefix \in {<<>>, <<2>>, <<3>>, <<4, 2>>} : Taproot(t, Append(prefix, x))

Step == DoubleAndAdd \/ EndTimes \/ EndChild \/ EndTaproot

Ended == phase \in {"returned", "raised"}

PointsNext == Start \/ Step

PointsSpec == PointsInit /\ [][PointsNext]_pointVars

-----------------------------------------------------------------------------
(* What the arithmetic is for: a signer knows a secret s below the order   *)
(* and the watching side the point s * G.  Multiples[s + 1] is that point, *)
(* reached by adding G s times with __add__().                             *)

Multiples == FoldLeft(LAMBDA ms, n : Append(ms, Plus(Last(ms), G)),
                      <<Infinity>>, [n \in 1 .. Order - 1 |-> n])
Public(s) == Multiples[(s % Order) + 1]
Secret    == [point \in Finite \cup {Infinity} |->
                CHOOSE s \in 0 .. Order : s = Order \/ Public(s) = point]

Finished(op) == Ended /\ ask.op = op
Answers(ok, value) == phase = (IF ok THEN "returned" ELSE "raised") /\ (ok => out = value)

(* The registers hold points of the curve in Jacobian form, or None, which *)
(* the addend never becomes while a bit is left, and every turn of the     *)
(* loop keeps result + scalar * addend: an addition of equal, opposite or  *)
(* missing points, or a bit taken twice, would lose it.  The loop ends, as *)
(* the scalar is halved and is not negative: Python's >> never brings a    *)
(* negative number to 0, so this rests on the reduction.                   *)
LoopInvariant ==
  /\ result = <<>> \/ (result \in F \X F \X (F \ {0}) /\ Affine(result) \in Finite)
  /\ scalar # 0 => scalar \in 1 .. Order - 1 /\ Affine(addend) \in Finite
  /\ phase = "loop" =>
       LET base == IF ask.op = "times" THEN ask.point ELSE G
           rest == IF scalar = 0 THEN 0 ELSE scalar * Secret[Affine(addend)]
       IN  (Secret[Affine(result)] + rest - ask.k * Secret[base]) % Order = 0

(* k * P, by doubling in Jacobian coordinates with k reduced, is P added k *)
(* times with __add__(), for negative and oversized k as well.             *)
TimesIsRepeatedAddition ==
  Finished("times") => Answers(TRUE, Public(ask.k * Secret[ask.point]))

(* The child public key is the point of the child secret a signer derives, *)
(* parent secret + IL modulo the order, and the derivation fails exactly   *)
(* when the signer's does: IL not below the order, or a child secret of 0. *)
ChildMatchesSigner ==
  Finished("child") =>
    LET s == (Secret[ask.point] + ask.k) % Order
    IN  Answers(ask.k < Order /\ s # 0, ToCompressed(Public(s)))

(* The taproot output key is the abscissa of the signer's tweaked secret,  *)
(* where the signer negates a secret whose point has an odd ordinate; only *)
(* the abscissa of the key counts.  An abscissa that no secret has, or a   *)
(* key of another length, is refused.                                      *)
TaprootMatchesSigner ==
  Finished("taproot") =>
    LET even   == {s \in 1 .. Order - 1 :
                     Public(s)[1] = Last(ask.bytes) /\ Public(s)[2] % 2 = 0}
        secret == {(s + ask.k) % Order : s \in even}
    IN  IF Len(ask.bytes) \in {1, 2} /\ ask.k < Order /\ secret # {} /\ secret # {0}
        THEN \E s \in secret : Answers(TRUE, ToXOnly(Public(s)))
        ELSE phase = "raised"

(* A compressed key is accepted exactly when some point serializes to it,  *)
(* and then it is that point.                                              *)
ParsesExactly ==
  Finished("parse") =>
    LET points == {point \in Finite : ToCompressed(point) = ask.bytes}
    IN  IF points = {} THEN phase = "raised" ELSE phase = "returned" /\ points = {out}

(* What leaves this module is what a signer computes from secrets.         *)
AgreesWithSigner ==
  /\ TimesIsRepeatedAddition /\ ChildMatchesSigner /\ TaprootMatchesSigner
  /\ ParsesExactly
=============================================================================
