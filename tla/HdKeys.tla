------------------------------- MODULE HdKeys -------------------------------
(***************************************************************************)
(* Extended public keys (src/bitwalkit/bip32.py), the scripts made from    *)
(* their public keys (address.py) and the accounts of hd.py.               *)
(*                                                                         *)
(* A public key, with its chain code, is the point reached from a master   *)
(* key by a path.  Fingerprints, hashes and addresses are what they are    *)
(* computed from: collisions are left out.  The order of public keys as    *)
(* byte strings has nothing to do with their paths: it is a parameter.     *)
(***************************************************************************)
EXTENDS Integers, Sequences, FiniteSets, SequencesExt

CONSTANTS
  Masters,        \* master keys
  Hardened,       \* HARDENED: indexes from here on need the private key
  MaxDepth,       \* 255, what the depth byte holds
  NoChild,        \* pairs <<point, index>> whose HMAC yields no key
  Before(_, _)    \* order of public keys as bytes

ASSUME KeyAssumption ==
  /\ Hardened \in Nat \ {0}
  /\ MaxDepth \in Nat \ {0}

Point(seed, path) == [seed |-> seed, path |-> path]
OnCurve(point)    == point.seed \in Masters
Zero              == Point("zero", <<>>)         \* four zero bytes

(* Public version bytes, their network and script-type hint.  Any other    *)
(* version, a private one included, is refused.                            *)
Versions ==
  [xpub |-> <<"mainnet", "p2pkh">>,       tpub |-> <<"testnet", "p2pkh">>,
   ypub |-> <<"mainnet", "p2sh-p2wpkh">>, upub |-> <<"testnet", "p2sh-p2wpkh">>,
   zpub |-> <<"mainnet", "p2wpkh">>,      vpub |-> <<"testnet", "p2wpkh">>,
   Ypub |-> <<"mainnet", "p2sh-p2wsh">>,  Upub |-> <<"testnet", "p2sh-p2wsh">>,
   Zpub |-> <<"mainnet", "p2wsh">>,       Vpub |-> <<"testnet", "p2wsh">>]
Network(key)  == Versions[key.version][1]
Hint(key)     == Versions[key.version][2]
Parsable(raw) == raw.version \in DOMAIN Versions /\ OnCurve(raw.point)

Fingerprint(key) == key.point
WithVersion(key, main, test) ==
  [key EXCEPT !.version = IF Network(key) = "mainnet" THEN main ELSE test]
ToXpub(key)         == WithVersion(key, "xpub", "tpub")
ToZpub(key)         == WithVersion(key, "zpub", "vpub")     \* to_zpub()
ToMultisigZpub(key) == WithVersion(key, "Zpub", "Vpub")     \* to_Zpub()

HardenedAllowed(key, index) ==                   \* mutant: the limit itself passes
  /\ key.depth # MaxDepth
  /\ index <= Hardened
  /\ <<key.point, index>> \notin NoChild
HasChild(key, index) ==
  /\ key.depth # MaxDepth
  /\ index < Hardened
  /\ <<key.point, index>> \notin NoChild
Child(key, index) ==
  [key EXCEPT !.depth  = @ + 1,
              !.parent = Fingerprint(key),
              !.number = index,
              !.point  = Point(@.seed, Append(@.path, index))]

(* key.child(change).child(index)                                          *)
HasLeaf(key, change, index) ==
  HasChild(key, change) /\ HasChild(Child(key, change), index)
Leaf(key, change, index) == Child(Child(key, change), index)

(* What BIP32 says of the same two steps, for properties: both indexes are *)
(* public, two more levels fit the depth byte, and neither point is one of *)
(* those that have no such child.                                          *)
DepthFits(key) ==
  {"depth", "point"} \subseteq DOMAIN key /\ key.depth \in 0 .. MaxDepth
WithinLimits(key, change, index) ==
  /\ {change, index} \subseteq 0 .. (Hardened - 1)
  /\ key.depth + 2 <= MaxDepth
  /\ <<key.point, change>> \notin NoChild
  /\ <<Point(key.point.seed, Append(key.point.path, change)), index>> \notin NoChild

(* The extended key a wallet that holds the master key exports.            *)
Exported(version, seed, path) ==
  [version |-> version,
   depth   |-> Len(path),
   parent  |-> IF path = <<>> THEN Zero ELSE Point(seed, Front(path)),
   number  |-> IF path = <<>> THEN 0 ELSE Last(path),
   point   |-> Point(seed, path)]

-----------------------------------------------------------------------------
(* Scripts and addresses.                                                  *)

NoScript        == [m |-> 0, keys |-> <<>>]      \* b""
CanP2MS(m, n)   == 1 <= m /\ m <= n /\ n <= 16
P2MS(m, points) == [m |-> m, keys |-> points]
P2WSH(witness)  == [sh |-> witness]
P2WPKH(point)   == [pkh |-> point]

(* address_from_pubkey() and address_from_script(): the type decides the   *)
(* encoding, `of` is the key or the script that is hashed.                 *)
AddressOf(type, of, network) == [type |-> type, of |-> of, network |-> network]

(* sorted(): the entries in an order that puts none before a smaller one.  *)
Orders(n)      == {p \in [1 .. n -> 1 .. n] : IsInjective(p)}
Arranged(s, p) == [k \in DOMAIN s |-> s[p[k]]]
Ascending(s)   == \A j, k \in DOMAIN s : j < k => ~Before(s[k], s[j])
InOrder(points) ==
  CHOOSE p \in Orders(Len(points)) : Ascending(Arranged(points, p))

NotSorted(points) == points                      \* mutant
Sorted(points)    == Arranged(points, InOrder(points))

(* What byte strings guarantee of Before, and what a sorted list of a set  *)
(* is, for the assumptions and properties of the modules that sort.        *)
Ordered(points) ==
  \A p, q, r \in points :
    /\ ~Before(p, p)
    /\ p = q \/ Before(p, q) \/ Before(q, p)
    /\ Before(p, q) /\ Before(q, r) => Before(p, r)
Lists(s, points) ==
  /\ Range(s) = points
  /\ \A j, k \in DOMAIN s : j < k => Before(s[j], s[k])

-----------------------------------------------------------------------------
(* Account.address() and MultisigAccount.address().                        *)

AccountAddress(key, type, change, index) ==
  AddressOf(type, Leaf(key, change, index).point, Network(key))

Cosigners(keys, sort, change, index) ==
  LET points == [k \in DOMAIN keys |-> Leaf(keys[k], change, index).point]
  IN  IF sort THEN Sorted(points) ELSE points

MultisigAddress(keys, m, type, sort, change, index) ==
  AddressOf(type, P2MS(m, Cosigners(keys, sort, change, index)), Network(keys[1]))
=============================================================================
