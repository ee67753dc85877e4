------------------------------ MODULE KeyPaths ------------------------------
(***************************************************************************)
(* ExtendedKey.derive_path() and the path parser under it (bip32.py), the  *)
(* second path parser, KeyOrigin.parse() (psbt.py), and to_xpub(),         *)
(* to_zpub() and to_Zpub(), applied to one key in any order.               *)
(*                                                                         *)
(* A path is a sequence of characters: decimal digits, "h" for the three   *)
(* marks of a hardened step, "m", "/", "sp" for a blank, and "sup", a      *)
(* superscript digit that str.isdigit() takes for a digit and int() does   *)
(* not.  (An iterable of integers takes the steps of the path that spells  *)
(* them.)                                                                  *)
(***************************************************************************)
EXTENDS HdKeys, FiniteSetsExt

CONSTANTS
  Keys,           \* the keys to start from: network, seed and whole path
  Texts,          \* paths given to derive_path()
  MaxCalls        \* bound: calls in a row

(* A key is given by its network, its seed and its whole path, a text by   *)
(* its characters.                                                         *)
TextsGiven == \A t \in Texts : t \in Seq(ToSet(t))
KeysGiven  == Keys \subseteq [network : {"mainnet", "testnet"}, seed : Masters, path : Seq(Nat)]

VARIABLES
  pc,             \* "idle", "derive" or the class of the error
  key,            \* the key the caller holds
  from, hint,     \* its seed and whole path; the hint last converted to
  text, parts,    \* the argument of derive_path() and what is left of it
  node, path,     \* the key and the indexes derived in this call
  calls

vars == <<pc, key, from, hint, text, parts, node, path, calls>>

-----------------------------------------------------------------------------
(* One part of a split path.                                               *)

DigitValue == [c \in {"0", "1", "2"} |-> IF c = "0" THEN 0 ELSE IF c = "1" THEN 1 ELSE 2]
AllIn(part, chars) == \A i \in DOMAIN part : part[i] \in chars

Marked(part)  == part # <<>> /\ Last(part) = "h"
Number(part)  == IF Marked(part) THEN Front(part) ELSE part
Decimal(part) == FoldLeft(LAMBDA n, c : 10 * n + DigitValue[c], 0, Number(part))
Index(part)   == Decimal(part) + (IF Marked(part) THEN Hardened ELSE 0)

IsDigit(part) == Number(part) # <<>> /\ AllIn(Number(part), DOMAIN DigitValue \cup {"sup"})
IsInt(part)   == AllIn(Number(part), DOMAIN DigitValue)

(* _parse_path(): strip(), split("/"), then part by part.                  *)
Strip(t) ==
  LET kept == {i \in DOMAIN t : t[i] # "sp"}
  IN  IF kept = {} THEN <<>> ELSE SubSeq(t, Min(kept), Max(kept))

(* The k-th of some positions, and the parts between the slashes.          *)
Nth(places, k) == CHOOSE i \in places : Cardinality({j \in places : j <= i}) = k
Slashes(t)     == {i \in DOMAIN t : t[i] = "/"}
Split(t) ==
  LET cuts     == Slashes(t)
      many     == Cardinality(cuts)
      first(k) == IF k = 1 THEN 1 ELSE Nth(cuts, k - 1) + 1
      last(k)  == IF k = many + 1 THEN Len(t) ELSE Nth(cuts, k) - 1
  IN  [k \in 1 .. many + 1 |-> SubSeq(t, first(k), last(k))]

(* Parts carry their position: "m" is skipped in front only, "" anywhere.  *)
Positioned(list) == [k \in DOMAIN list |-> [at |-> k, part |-> list[k]]]
NoMarker(p)   == p.part = <<>>                                    \* mutant
Skipped(p)    == p.part = <<>> \/ (p.at = 1 /\ p.part = <<"m">>)

Fault(part) ==
  CASE ~IsDigit(part)                                   -> "DerivationError"
    [] IsDigit(part) /\ ~IsInt(part)                    -> "ValueError"
    [] IsInt(part) /\ Decimal(part) >= Hardened         -> "DerivationError"
    [] OTHER                                            -> "none"

(* KeyOrigin.parse(): no blanks, no empty steps, ASCII digits only.        *)
OriginSteps(t) ==
  IF t = <<"m">> THEN <<>>
  ELSE Split(IF Len(t) >= 2 /\ t[1] = "m" /\ t[2] = "/" THEN SubSeq(t, 3, Len(t)) ELSE t)
OriginParses(t) ==
  \A k \in DOMAIN OriginSteps(t) :
    LET step == OriginSteps(t)[k]
    IN  /\ Number(step) # <<>> /\ IsInt(step)
        /\ Decimal(step) \in 0 .. Hardened - 1
OriginPath(t) == [k \in DOMAIN OriginSteps(t) |-> Index(OriginSteps(t)[k])]

-----------------------------------------------------------------------------
Init ==
  /\ pc = "idle"
  /\ from \in Keys
  /\ key \in {Exported(v, from.seed, from.path) :
               v \in {v \in DOMAIN Versions : Versions[v][1] = from.network}}
  /\ hint = Hint(key)
  /\ text = <<"m">> /\ parts = <<>> /\ node = key /\ path = <<>>
  /\ calls = 0

Call == pc = "idle" /\ calls < MaxCalls /\ calls' = calls + 1

(* ExtendedKey.parse(key.to_zpub()) and the like                           *)
Convert ==
  /\ Call
  /\ \E to \in {<<ToXpub(key), "p2pkh">>, <<ToZpub(key), "p2wpkh">>,
                 <<ToMultisigZpub(key), "p2wsh">>} :
       key' = to[1] /\ node' = to[1] /\ hint' = to[2]
  /\ path' = <<>> /\ text' = <<"m">>
  /\ UNCHANGED <<pc, from, parts>>

DerivePath(t) ==
  /\ Call
  /\ pc' = "derive"
  /\ text' = t
  /\ parts' = Positioned(Split(Strip(t)))
  /\ node' = key /\ path' = <<>>
  /\ UNCHANGED <<key, from, hint>>

NextPart ==
  /\ pc = "derive" /\ parts # <<>>
  /\ UNCHANGED <<key, from, hint, text, calls>>

Skip ==
  /\ NextPart
  /\ Skipped(Head(parts))
  /\ parts' = Tail(parts)
  /\ UNCHANGED <<pc, node, path>>

Refuse ==
  /\ NextPart
  /\ ~Skipped(Head(parts))
  /\ Fault(Head(parts).part) # "none"
  /\ pc' = Fault(Head(parts).part)
  /\ UNCHANGED <<parts, node, path>>

FromSelf(n, index)  == Child(key, index)                          \* mutant
NextChild(n, index) == Child(n, index)

(* Children are derived as the parser yields: a fault further on counts    *)
(* only when it is reached.                                                *)
DeriveChild ==
  LET index == Index(Head(parts).part)
  IN  /\ NextPart
      /\ ~Skipped(Head(parts))
      /\ Fault(Head(parts).part) = "none"
      /\ IF HasChild(node, index)
         THEN /\ node' = NextChild(node, index)
              /\ path' = Append(path, index)
              /\ parts' = Tail(parts)
              /\ UNCHANGED pc
         ELSE pc' = "DerivationError" /\ UNCHANGED <<node, path, parts>>

(* The caller goes on with the derived key.                                *)
Return ==
  /\ pc = "derive" /\ parts = <<>>
  /\ pc' = "idle"
  /\ key' = node
  /\ from' = [from EXCEPT !.path = @ \o path]
  /\ UNCHANGED <<hint, text, parts, node, path, calls>>

Next ==
  \/ Convert \/ Skip \/ DeriveChild \/ Refuse \/ Return
  \/ \E t \in Texts : DerivePath(t)

Spec == Init /\ [][Next]_vars

-----------------------------------------------------------------------------
(* However it was converted and derived, and at every step on the way, the *)
(* key is the one a wallet that holds the master key exports at the whole  *)
(* path: depth, parent fingerprint, child number and point; its network    *)
(* never changes and its hint is that of the last conversion.              *)
KeyAtWholePath ==
  /\ key = Exported(key.version, from.seed, from.path)
  /\ pc # "idle" => node = Exported(key.version, from.seed, from.path \o path)
  /\ Network(key) = from.network /\ Hint(key) = hint

(* The two parsers read one notation alike: an origin path that            *)
(* KeyOrigin.parse() accepts leads derive_path() through the same indexes, *)
(* to the end or to the first index that has no public child.              *)
ParsersAgree ==
  OriginParses(text) =>
    LET origin == OriginPath(text)
    IN  CASE pc = "idle"            -> path = origin
          [] pc = "derive"          -> IsPrefix(path, origin)
          [] pc = "DerivationError" ->
               /\ IsStrictPrefix(path, origin)
               /\ ~HasChild(node, origin[Len(path) + 1])
          [] OTHER                  -> FALSE
=============================================================================
