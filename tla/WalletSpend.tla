---------------------------- MODULE WalletSpend -----------------------------
(***************************************************************************)
(* derive_native_segwit() of src/bitwalkit/psbt.py: from the account keys  *)
(* of a wallet and their declared origins to the script, the signing       *)
(* metadata and the address of one branch and index.                       *)
(***************************************************************************)
EXTENDS SpendMetadata

CONSTANTS
  KeyLimit,       \* 15: most keys of a wallet
  Offers          \* entries [key, origin] of `keys`; origin is {} for None
                  \* and {o} for an origin o

(* No more keys than a script of p2ms_script() may have.                   *)
ASSUME LimitAssumption == KeyLimit \in 1 .. 16

(* An offered key is one a wallet exports, with a depth that is a byte, an *)
(* origin is any fingerprint with any path.                                *)
ASSUME OffersAssumption ==
  \A offer \in Offers :
    /\ offer.key.point.path \in Seq(0 .. (2 * Hardened - 1))
    /\ offer.key = Exported(offer.key.version, offer.key.point.seed, offer.key.point.path)
    /\ offer.key.depth <= MaxDepth
    /\ offer.origin = {} \/ \E o \in offer.origin : offer.origin = {o}
    /\ \A o \in offer.origin : o.path \in Seq(Int) /\ o = Origin(o.fingerprint, o.path)

(* Public keys are byte strings, and byte strings have a total order.      *)
ASSUME OrderAssumption ==
  Ordered({Leaf(offer.key, change, index).point :
             offer \in Offers, change \in 0 .. 1, index \in 0 .. (Hardened - 1)})

VARIABLES
  pc,             \* "arguments", "keys", "done" or the class of the error
  args,           \* change, index, threshold and len(keys)
  keys,           \* the part of `keys` the loop has taken
  derivations, xpubs, networks,
  spend           \* the result

lists == <<derivations, xpubs, networks>>
vars  == <<pc, args, keys, lists, spend>>

NoSpend == Spend(<<>>, <<>>, <<>>, <<>>, NoScript)

Init ==
  /\ pc = "arguments"
  /\ args \in [change : 0 .. 2, index : 0 .. Hardened,
               threshold : 0 .. (KeyLimit + 1), count : 0 .. (KeyLimit + 1)]
  /\ keys = <<>> /\ derivations = <<>> /\ xpubs = <<>> /\ networks = {}
  /\ spend = NoSpend

ThresholdFits(m, n) == 1 <= m /\ m <= n

ArgumentFault ==
  \/ args.change > 1
  \/ args.index >= Hardened
  \/ args.count \notin 1 .. KeyLimit
  \/ ~ThresholdFits(args.threshold, args.count)

CheckArguments ==
  /\ pc = "arguments"
  /\ pc' = IF ArgumentFault THEN "EncodingError" ELSE "keys"
  /\ UNCHANGED <<args, keys, lists, spend>>

(* The origin of a master key is known; the others have to declare theirs. *)
Resolved(offer) ==
  IF offer.key.depth = 0 THEN {Origin(Fingerprint(offer.key), <<>>)}
  ELSE offer.origin

LengthFault(key, origin) ==                     \* mutant: last index unchecked
  ~Serializable(origin) \/ Len(origin.path) # key.depth
PathFault(key, origin) ==
  \/ ~Serializable(origin)
  \/ Len(origin.path) # key.depth
  \/ origin.path # <<>> /\ Last(origin.path) # key.number

ParentUnchecked(key, origin) == FALSE           \* mutant
ParentFault(key, origin) ==
  key.depth = 1 /\ origin.fingerprint # key.parent

OriginFault(offer) ==
  \/ offer.key.depth = 0 /\ offer.origin # {} /\ offer.origin # Resolved(offer)
  \/ Resolved(offer) = {}
  \/ \E origin \in Resolved(offer) :
        PathFault(offer.key, origin) \/ ParentFault(offer.key, origin)

Suffix == <<args.change, args.index>>

LeafXpub(key) == ToXpub(Leaf(key, args.change, args.index))    \* mutant
StoredXpub(key) == ToXpub(key)

Refuse(offer) ==
  /\ ~Parsable(offer.key) \/ OriginFault(offer)
  /\ pc' = "EncodingError"
  /\ networks' = IF Parsable(offer.key) THEN networks \union {Network(offer.key)}
                 ELSE networks
  /\ UNCHANGED <<derivations, xpubs>>

Derives(offer) ==
  /\ Parsable(offer.key) /\ ~OriginFault(offer)
  /\ networks' = networks \union {Network(offer.key)}

CannotDerive(offer) ==
  /\ Derives(offer) /\ ~HasLeaf(offer.key, args.change, args.index)
  /\ pc' = "DerivationError"
  /\ UNCHANGED <<derivations, xpubs>>

Derive(offer) ==
  LET leaf == Leaf(offer.key, args.change, args.index)
  IN  /\ Derives(offer) /\ HasLeaf(offer.key, args.change, args.index)
      /\ \E origin \in Resolved(offer) :
           /\ derivations' =
                Append(derivations, [point |-> leaf.point, origin |-> Extend(origin, Suffix)])
           /\ xpubs' = Append(xpubs, [xpub |-> StoredXpub(offer.key), origin |-> origin])
      /\ UNCHANGED pc

(* One round of the loop over keys.                                        *)
TakeKey ==
  /\ pc = "keys" /\ Len(keys) < args.count
  /\ \E offer \in Offers :
       /\ keys' = Append(keys, offer)
       /\ \/ Refuse(offer) \/ CannotDerive(offer) \/ Derive(offer)
  /\ UNCHANGED <<args, spend>>

AnyNetworks(set) == TRUE                        \* mutant
OneNetwork(set)  == Cardinality(set) = 1

InGivenOrder(ds) == ds                          \* mutant: not sorted
InKeyOrder(ds)   == Arranged(ds, InOrder(Points(ds)))

Result ==
  LET ds      == InKeyOrder(derivations)
      points  == Points(ds)
      witness == P2MS(args.threshold, points)
      network == CHOOSE n \in networks : TRUE
  IN  IF args.count > 1
      THEN Spend(AddressOf("p2wsh", witness, network), P2WSH(witness), ds, xpubs, witness)
      ELSE Spend(AddressOf("p2wpkh", points[1], network), P2WPKH(points[1]), ds, xpubs,
                 NoScript)

(* The checks after the loop, and the result.                              *)
Finish ==
  /\ pc = "keys" /\ Len(keys) = args.count
  /\ IF OneNetwork(networks) /\ IsInjective(Points(derivations))
     THEN pc' = "done" /\ spend' = Result
     ELSE pc' = "EncodingError" /\ UNCHANGED spend
  /\ UNCHANGED <<args, keys, lists>>

Next == CheckArguments \/ TakeKey \/ Finish

Spec == Init /\ [][Next]_vars

-----------------------------------------------------------------------------
(* Properties.  Offered keys are what wallets export; offered origins may  *)
(* be wrong.                                                               *)

LeafPoint(offer) == Leaf(offer.key, args.change, args.index).point
TrueOrigin(key)  == Origin(Point(key.point.seed, <<>>), key.point.path)

(* The variables have the types the code gives them; a result has a        *)
(* threshold its keys can meet.                                            *)
TypeOK ==
  /\ pc \in {"arguments", "keys", "done", "EncodingError", "DerivationError"}
  /\ keys \in Seq(Offers) /\ Len(keys) <= args.count
  /\ Len(derivations) = Len(xpubs) /\ Len(derivations) <= Len(keys)
  /\ networks \subseteq {"mainnet", "testnet"}
  /\ pc = "done" /\ args.count > 1 =>
       CanP2MS(spend.witness.m, Len(spend.witness.keys))

(* The script is that of the set of derived keys, whatever the order the   *)
(* keys were given in (BIP 67), and so is the metadata.                    *)
KeyOrderIrrelevant ==
  pc = "done" =>
    LET sorted == Points(spend.derivations)
    IN  /\ Lists(sorted, {LeafPoint(keys[k]) : k \in DOMAIN keys})
        /\ spend.script = IF Len(keys) = 1 THEN P2WPKH(sorted[1])
                          ELSE P2WSH(P2MS(args.threshold, sorted))
        /\ \A k \in DOMAIN keys :
             \E d \in Range(spend.derivations) :
               /\ d.point = LeafPoint(keys[k])
               /\ Resolved(keys[k]) = {Origin(d.origin.fingerprint,
                                              Front(Front(d.origin.path)))}

(* An origin that is right where the extended key tells: everything for a  *)
(* master key and its children, the length and the last index below.       *)
Plausible(offer) ==
  LET true == TrueOrigin(offer.key)
  IN  \/ offer.origin = {true}
      \/ offer.origin = {} /\ offer.key.depth = 0
      \/ /\ offer.key.depth > 1
         /\ \E o \in offer.origin : /\ Serializable(o)
                                    /\ Len(o.path) = Len(true.path)
                                    /\ Last(o.path) = Last(true.path)

(* Whether keys are accepted does not depend on their order either: every  *)
(* key has a plausible origin and a child within the limits of BIP32, all  *)
(* networks are the same and all derived keys different.                   *)
Acceptable ==
  /\ \A k \in DOMAIN keys : /\ Parsable(keys[k].key)
                            /\ Plausible(keys[k])
                            /\ WithinLimits(keys[k].key, args.change, args.index)
  /\ \A j, k \in DOMAIN keys :
       /\ Network(keys[j].key) = Network(keys[k].key)
       /\ LeafPoint(keys[j]) = LeafPoint(keys[k]) => j = k
AcceptsExactly ==
  /\ TypeOK
  /\ pc = "done" => Acceptable
  /\ pc \in {"EncodingError", "DerivationError"} /\ ~ArgumentFault => ~Acceptable

(* A signer that holds the master key an origin names, and follows its     *)
(* path, arrives at the public key, if the origin declared for a key       *)
(* deeper than one is true.                                                *)
OriginsLead ==
  pc = "done" =>
    \A k \in DOMAIN keys :
      (keys[k].key.depth <= 1 \/ keys[k].origin = {TrueOrigin(keys[k].key)}) =>
        \E d \in Range(spend.derivations) :
           /\ d.point = LeafPoint(keys[k])
           /\ d.point = Point(d.origin.fingerprint.seed,
                              d.origin.fingerprint.path \o d.origin.path)

(* The address is the one that Account, or MultisigAccount with the keys   *)
(* in any order, gives for the same branch and index: coins sent to an     *)
(* address of the one can be spent with the metadata of the other.         *)
AgreesWithAccounts ==
  pc = "done" =>
    IF args.count = 1
    THEN spend.address = AccountAddress(keys[1].key, "p2wpkh", args.change, args.index)
    ELSE \A p \in Orders(Len(keys)) :
           spend.address =
             MultisigAddress([k \in DOMAIN keys |-> keys[p[k]].key],
                             args.threshold, "p2wsh", TRUE, args.change, args.index)

(* create_psbt() accepts the metadata of every result.                     *)
UsableByPsbt ==
  pc = "done" =>
    /\ ~MetadataFault(spend)
    /\ \A x \in Range(spend.xpubs) : ~XpubFault(x)
    /\ ~Conflict({<<XpubKey(x.xpub), x.origin>> : x \in Range(spend.xpubs)})
=============================================================================
