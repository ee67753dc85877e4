------------------------- MODULE WalletSpend_proofs --------------------------
(***************************************************************************)
(* Proofs about WalletSpend: what derive_native_segwit() accepts, and what *)
(* its result tells a signer, the accounts of hd.py and create_psbt().     *)
(***************************************************************************)
EXTENDS WalletSpend, HdKeys_proofs

(* An offered key that the loop takes.                                     *)
Sound(offer) ==
  /\ Parsable(offer.key)
  /\ ~OriginFault(offer)
  /\ HasLeaf(offer.key, args.change, args.index)

(* What the two lists hold of the k-th key.                                *)
Kept(k) ==
  /\ Sound(keys[k])
  /\ Resolved(keys[k]) = {xpubs[k].origin}
  /\ xpubs[k].xpub = ToXpub(keys[k].key)
  /\ derivations[k] = [point  |-> LeafPoint(keys[k]),
                       origin |-> Extend(xpubs[k].origin, Suffix)]

(* The three lists of the loop keep pace with the keys taken.              *)
ListsInv ==
  /\ pc \in {"arguments", "keys", "done", "EncodingError", "DerivationError"}
  /\ args \in [change : 0 .. 2, index : 0 .. Hardened,
               threshold : 0 .. (KeyLimit + 1), count : 0 .. (KeyLimit + 1)]
  /\ pc \notin {"arguments", "EncodingError"} => ~ArgumentFault
  /\ keys \in Seq(Offers) /\ Len(keys) <= args.count
  /\ \E S : derivations \in Seq(S)
  /\ \E S : xpubs \in Seq(S)
  /\ Len(derivations) = Len(xpubs) /\ Len(derivations) <= Len(keys)
  /\ \A k \in 1 .. Len(derivations) : Kept(k)
  /\ networks \subseteq {"mainnet", "testnet"}
  /\ pc \in {"arguments", "keys", "done"} =>
       /\ Len(derivations) = Len(keys)
       /\ networks = {Network(keys[k].key) : k \in DOMAIN keys}

(* Why keys are refused.                                                   *)
Unacceptable ==
  \/ \E k \in DOMAIN keys : ~Sound(keys[k])
  \/ \E j, k \in DOMAIN keys : Network(keys[j].key) # Network(keys[k].key)
  \/ \E j, k \in DOMAIN keys : j # k /\ LeafPoint(keys[j]) = LeafPoint(keys[k])

(* How the derivation ends.                                                *)
EndInv ==
  /\ pc = "arguments" => keys = <<>>
  /\ pc = "done" => /\ Len(keys) = args.count
                    /\ OneNetwork(networks) /\ IsInjective(Points(derivations))
                    /\ spend = Result
  /\ pc \in {"EncodingError", "DerivationError"} => ArgumentFault \/ Unacceptable

SpendInv == ListsInv /\ EndInv

(* Public keys are on one of two networks, and stay public as xpub or tpub.*)
LEMMA NetworksTwo ==
  ASSUME NEW key, Parsable(key)
  PROVE  Network(key) \in {"mainnet", "testnet"}
  BY DEF Parsable, Network, Versions

(* Before the first key the lists are empty.                               *)
LEMMA InitSpend == Init => SpendInv
<1> SUFFICES ASSUME Init PROVE SpendInv
  OBVIOUS
<1>1. /\ keys = <<>> /\ derivations = <<>> /\ xpubs = <<>> /\ networks = {}
      /\ pc = "arguments"
      /\ args \in [change : 0 .. 2, index : 0 .. Hardened,
                   threshold : 0 .. (KeyLimit + 1), count : 0 .. (KeyLimit + 1)]
  BY DEF Init
<1>2. /\ Len(keys) = 0 /\ Len(derivations) = 0 /\ Len(xpubs) = 0
      /\ keys \in Seq(Offers) /\ derivations \in Seq({}) /\ xpubs \in Seq({})
  BY <1>1
<1>3. 0 <= args.count
  BY <1>1, LimitAssumption
<1>4. ListsInv
  <2>1. networks = {Network(keys[k].key) : k \in DOMAIN keys}
    BY <1>1
  <2> QED
    BY <1>1, <1>2, <1>3, <2>1 DEF ListsInv
<1>5. EndInv
  BY <1>1 DEF EndInv
<1> QED
  BY <1>4, <1>5 DEF SpendInv

(* What is said of an offer does not change while the arguments do not.    *)
LEMMA ArgumentsFix ==
  ASSUME UNCHANGED args
  PROVE  /\ ArgumentFault' <=> ArgumentFault
         /\ Suffix' = Suffix
         /\ \A offer : (Sound(offer)' <=> Sound(offer)) /\ LeafPoint(offer)' = LeafPoint(offer)
  BY DEF ArgumentFault, Suffix, Sound, LeafPoint

(* The check of the arguments keeps the invariant.                         *)
LEMMA CheckKeeps ==
  ASSUME SpendInv, CheckArguments
  PROVE  SpendInv'
<1>1. /\ pc = "arguments" /\ pc' = (IF ArgumentFault THEN "EncodingError" ELSE "keys")
      /\ UNCHANGED <<args, keys, derivations, xpubs, networks, spend>>
  BY DEF CheckArguments, lists
<1>2. /\ ArgumentFault' <=> ArgumentFault
      /\ \A k : Kept(k)' <=> Kept(k)
  BY <1>1, ArgumentsFix DEF Kept
<1>3. ListsInv'
  BY <1>1, <1>2 DEF SpendInv, ListsInv
<1>4. EndInv'
  BY <1>1, <1>2 DEF EndInv
<1> QED
  BY <1>3, <1>4 DEF SpendInv

(* One round of the loop: the three lists grow together, or the key that   *)
(* was taken is one that nobody may accept.                                *)
LEMMA TakeKeeps ==
  ASSUME SpendInv, TakeKey
  PROVE  SpendInv'
<1>1. /\ pc = "keys" /\ Len(keys) < args.count
      /\ UNCHANGED <<args, spend>>
      /\ ~ArgumentFault
      /\ keys \in Seq(Offers)
      /\ args \in [change : 0 .. 2, index : 0 .. Hardened,
                   threshold : 0 .. (KeyLimit + 1), count : 0 .. (KeyLimit + 1)]
  BY DEF TakeKey, SpendInv, ListsInv
<1>2. PICK offer \in Offers :
        /\ keys' = Append(keys, offer)
        /\ Refuse(offer) \/ CannotDerive(offer) \/ Derive(offer)
  BY DEF TakeKey
<1>0. PICK n : n = Len(keys)
  OBVIOUS
<1>3. /\ n \in Nat /\ args.count \in Nat /\ n + 1 <= args.count
      /\ DOMAIN keys = 1 .. n
  <2>1. args.count \in Nat
    BY <1>1, LimitAssumption
  <2> QED
    BY <1>0, <1>1, <2>1, LenProperties
<1>4. /\ keys' \in Seq(Offers) /\ Len(keys') = n + 1 /\ DOMAIN keys' = 1 .. (n + 1)
      /\ \A k \in 1 .. n : keys'[k] = keys[k]
      /\ keys'[n + 1] = offer
  BY <1>0, <1>1, <1>2, AppendProperties, LenProperties
<1>5. /\ \E S : derivations \in Seq(S)
      /\ \E S : xpubs \in Seq(S)
      /\ Len(derivations) = n /\ Len(xpubs) = n
      /\ \A k \in 1 .. n : Kept(k)
      /\ networks \subseteq {"mainnet", "testnet"}
      /\ networks = {Network(keys[k].key) : k \in 1 .. n}
  BY <1>0, <1>1, <1>3 DEF SpendInv, ListsInv
<1>6. /\ ~ArgumentFault'
      /\ \A o : (Sound(o)' <=> Sound(o)) /\ LeafPoint(o)' = LeafPoint(o)
      /\ Suffix' = Suffix
  BY <1>1, ArgumentsFix
<1>7. networks' \subseteq {"mainnet", "testnet"}
  BY <1>2, <1>5, NetworksTwo DEF Refuse, CannotDerive, Derive, Derives
<1>8. ASSUME Refuse(offer) \/ CannotDerive(offer) PROVE SpendInv'
  <2>1. /\ pc' \in {"EncodingError", "DerivationError"}
        /\ UNCHANGED <<derivations, xpubs>>
        /\ ~Sound(offer)
    BY <1>8 DEF Refuse, CannotDerive, Derives, Sound
  <2>2. \A k \in 1 .. n : Kept(k)'
    BY <1>4, <1>5, <1>6, <2>1 DEF Kept
  <2>3. ListsInv'
    BY <1>1, <1>3, <1>4, <1>5, <1>6, <1>7, <2>1, <2>2 DEF ListsInv
  <2>4. Unacceptable'
    <3>1. n + 1 \in DOMAIN keys' /\ keys'[n + 1] = offer /\ ~Sound(offer)'
      BY <1>3, <1>4, <1>6, <2>1
    <3> QED
      BY <3>1 DEF Unacceptable
  <2>5. EndInv'
    BY <2>1, <2>4 DEF EndInv
  <2> QED
    BY <2>3, <2>5 DEF SpendInv
<1>9. ASSUME Derive(offer) PROVE SpendInv'
  <2>1. PICK origin \in Resolved(offer) :
          /\ derivations' = Append(derivations, [point |-> LeafPoint(offer),
                                                 origin |-> Extend(origin, Suffix)])
          /\ xpubs' = Append(xpubs, [xpub |-> ToXpub(offer.key), origin |-> origin])
    BY <1>9 DEF Derive, LeafPoint, StoredXpub
  <2>2. /\ pc' = "keys" /\ Sound(offer)
        /\ networks' = networks \union {Network(offer.key)}
    BY <1>1, <1>9 DEF Derive, Derives, Sound
  <2>3. Resolved(offer) = {origin}
    BY <1>2, <2>1, OffersAssumption DEF Resolved
  <2>4. PICK d, x : /\ d = [point |-> LeafPoint(offer), origin |-> Extend(origin, Suffix)]
                    /\ x = [xpub |-> ToXpub(offer.key), origin |-> origin]
    OBVIOUS
  <2>5. /\ \E S : derivations' \in Seq(S)
        /\ Len(derivations') = n + 1
        /\ \A k \in 1 .. n : derivations'[k] = derivations[k]
        /\ derivations'[n + 1] = d
        /\ \E S : xpubs' \in Seq(S)
        /\ Len(xpubs') = n + 1
        /\ \A k \in 1 .. n : xpubs'[k] = xpubs[k]
        /\ xpubs'[n + 1] = x
    <3>1. derivations' = Append(derivations, d) /\ xpubs' = Append(xpubs, x)
      BY <2>1, <2>4
    <3>2. /\ \E S : Append(derivations, d) \in Seq(S)
          /\ Len(Append(derivations, d)) = n + 1
          /\ \A k \in 1 .. n : Append(derivations, d)[k] = derivations[k]
          /\ Append(derivations, d)[n + 1] = d
      <4>1. /\ \E S : Append(derivations, d) \in Seq(S)
            /\ Len(Append(derivations, d)) = Len(derivations) + 1
            /\ \A k \in 1 .. Len(derivations) : Append(derivations, d)[k] = derivations[k]
            /\ Append(derivations, d)[Len(derivations) + 1] = d
        <5>1. \E S : derivations \in Seq(S)
          BY <1>5
        <5> QED
          BY <5>1, Appended, Zenon
      <4>2. Len(derivations) = n
        BY <1>5
      <4> QED
        BY <4>1, <4>2
    <3>3. /\ \E S : Append(xpubs, x) \in Seq(S)
          /\ Len(Append(xpubs, x)) = n + 1
          /\ \A k \in 1 .. n : Append(xpubs, x)[k] = xpubs[k]
          /\ Append(xpubs, x)[n + 1] = x
      <4>1. /\ \E S : Append(xpubs, x) \in Seq(S)
            /\ Len(Append(xpubs, x)) = Len(xpubs) + 1
            /\ \A k \in 1 .. Len(xpubs) : Append(xpubs, x)[k] = xpubs[k]
            /\ Append(xpubs, x)[Len(xpubs) + 1] = x
        <5>1. \E S : xpubs \in Seq(S)
          BY <1>5
        <5> QED
          BY <5>1, Appended, Zenon
      <4>2. Len(xpubs) = n
        BY <1>5
      <4> QED
        BY <4>1, <4>2
    <3> QED
      BY <3>1, <3>2, <3>3
  <2>6. ASSUME NEW k \in 1 .. n PROVE Kept(k)'
    <3>1. Kept(k) /\ keys'[k] = keys[k] /\ derivations'[k] = derivations[k] /\ xpubs'[k] = xpubs[k]
      BY <1>4, <1>5, <2>5
    <3> QED
      BY <1>6, <3>1 DEF Kept
  <2>7. Kept(n + 1)'
    <3>1. /\ xpubs'[n + 1].origin = origin /\ xpubs'[n + 1].xpub = ToXpub(offer.key)
          /\ keys'[n + 1] = offer /\ Sound(offer)' /\ Resolved(offer) = {origin}
          /\ derivations'[n + 1] = [point  |-> LeafPoint(offer)',
                                    origin |-> Extend(origin, Suffix')]
      BY <1>4, <1>6, <2>2, <2>3, <2>4, <2>5
    <3> QED
      BY <3>1 DEF Kept
  <2>8. \A k \in 1 .. (n + 1) : Kept(k)'
    <3> SUFFICES ASSUME NEW k \in 1 .. (n + 1) PROVE Kept(k)'
      OBVIOUS
    <3>1. k = n + 1 \/ k \in 1 .. n
      BY <1>3
    <3> QED
      BY <2>6, <2>7, <3>1
  <2>9. networks' = {Network(keys'[k].key) : k \in DOMAIN keys'}
    <3>1. \A k \in 1 .. (n + 1) : k = n + 1 \/ k \in 1 .. n
      BY <1>3
    <3> QED
      BY <1>3, <1>4, <1>5, <2>2, <3>1
  <2>10. ListsInv'
    BY <1>1, <1>3, <1>4, <1>6, <1>7, <2>2, <2>5, <2>8, <2>9 DEF ListsInv
  <2>11. EndInv'
    BY <2>2 DEF EndInv
  <2> QED
    BY <2>10, <2>11 DEF SpendInv
<1> QED
  BY <1>2, <1>8, <1>9

(* The lists as functions of the keys, once the loop is over.              *)
LEMMA LoopOver ==
  ASSUME SpendInv, pc \in {"keys", "done"}, Len(keys) = args.count
  PROVE  /\ Len(keys) \in 1 .. KeyLimit /\ DOMAIN keys = 1 .. Len(keys)
         /\ args.count = Len(keys) /\ args.threshold \in 1 .. Len(keys)
         /\ args.change \in 0 .. 1 /\ args.index \in 0 .. (Hardened - 1)
         /\ \A k \in 1 .. Len(keys) : keys[k] \in Offers /\ Kept(k)
         /\ DOMAIN derivations = 1 .. Len(keys) /\ Len(derivations) = Len(keys)
         /\ DOMAIN xpubs = 1 .. Len(keys) /\ Len(xpubs) = Len(keys)
         /\ \E S : derivations \in Seq(S)
         /\ networks = {Network(keys[k].key) : k \in 1 .. Len(keys)}
         /\ networks \subseteq {"mainnet", "testnet"}
<1>1. /\ ~ArgumentFault
      /\ args \in [change : 0 .. 2, index : 0 .. Hardened,
                   threshold : 0 .. (KeyLimit + 1), count : 0 .. (KeyLimit + 1)]
      /\ keys \in Seq(Offers)
      /\ \E S : derivations \in Seq(S)
      /\ \E S : xpubs \in Seq(S)
      /\ Len(derivations) = Len(keys) /\ Len(xpubs) = Len(keys)
      /\ \A k \in 1 .. Len(keys) : Kept(k)
      /\ networks = {Network(keys[k].key) : k \in DOMAIN keys}
      /\ networks \subseteq {"mainnet", "testnet"}
  BY DEF SpendInv, ListsInv
<1>2. /\ Len(keys) \in Nat /\ DOMAIN keys = 1 .. Len(keys)
      /\ \A k \in 1 .. Len(keys) : keys[k] \in Offers
  BY <1>1, LenProperties, ElementOfSeq
<1>3. DOMAIN derivations = 1 .. Len(keys) /\ DOMAIN xpubs = 1 .. Len(keys)
  BY <1>1, LenProperties
<1>4. /\ args.count \in 1 .. KeyLimit /\ args.threshold \in 1 .. args.count
      /\ args.change \in 0 .. 1 /\ args.index \in 0 .. (Hardened - 1)
  BY <1>1, LimitAssumption, KeyAssumption DEF ArgumentFault, ThresholdFits
<1> QED
  BY <1>1, <1>2, <1>3, <1>4

(* A result has one network.                                               *)
LEMMA FiniteNetworks ==
  ASSUME SpendInv
  PROVE  /\ IsFiniteSet(networks)
         /\ OneNetwork(networks) => \E n : networks = {n}
<1>1. networks \subseteq {"mainnet", "testnet"}
  BY DEF SpendInv, ListsInv
<1>2. IsFiniteSet({"mainnet", "testnet"})
  <2>1. IsFiniteSet({"mainnet"})
    BY FS_Singleton
  <2>2. IsFiniteSet({"mainnet"} \union {"testnet"})
    BY <2>1, FS_AddElement
  <2>3. {"mainnet", "testnet"} = {"mainnet"} \union {"testnet"}
    OBVIOUS
  <2> QED
    BY <2>2, <2>3
<1>3. IsFiniteSet(networks)
  BY <1>1, <1>2, FS_Subset
<1>4. OneNetwork(networks) => \E n : networks = {n}
  BY <1>3, FS_Singleton DEF OneNetwork
<1> QED
  BY <1>3, <1>4

(* The end: a result, or keys that do not go together.                     *)
LEMMA FinishKeeps ==
  ASSUME SpendInv, Finish
  PROVE  SpendInv'
<1>1. /\ pc = "keys" /\ Len(keys) = args.count
      /\ UNCHANGED <<args, keys, derivations, xpubs, networks>>
      /\ pc' \in {"done", "EncodingError"}
  BY DEF Finish, lists
<1>2. /\ ArgumentFault' <=> ArgumentFault
      /\ \A k : Kept(k)' <=> Kept(k)
      /\ Unacceptable' <=> Unacceptable
      /\ Result' = Result
  <2>1. \A offer : (Sound(offer)' <=> Sound(offer)) /\ LeafPoint(offer)' = LeafPoint(offer)
    BY <1>1, ArgumentsFix
  <2>2. \A k : Kept(k)' <=> Kept(k)
    BY <1>1, <2>1, ArgumentsFix DEF Kept
  <2>3. Unacceptable' <=> Unacceptable
    BY <1>1, <2>1 DEF Unacceptable
  <2>4. Result' = Result
    BY <1>1 DEF Result
  <2> QED
    BY <1>1, <2>2, <2>3, <2>4, ArgumentsFix
<1>3. ListsInv'
  BY <1>1, <1>2 DEF SpendInv, ListsInv
<1>4. EndInv'
  <2>1. CASE OneNetwork(networks) /\ IsInjective(Points(derivations))
    <3>1. pc' = "done" /\ spend' = Result
      BY <2>1 DEF Finish
    <3> QED
      BY <1>1, <1>2, <2>1, <3>1 DEF EndInv
  <2>2. CASE ~(OneNetwork(networks) /\ IsInjective(Points(derivations)))
    <3>1. pc' = "EncodingError"
      BY <2>2 DEF Finish
    <3>2. /\ Len(keys) \in Nat /\ 1 \in DOMAIN keys /\ DOMAIN keys = 1 .. Len(keys)
          /\ networks = {Network(keys[k].key) : k \in DOMAIN keys}
          /\ networks \subseteq {"mainnet", "testnet"}
          /\ DOMAIN derivations = DOMAIN keys
          /\ \A k \in DOMAIN keys : Kept(k)
      BY <1>1, LoopOver, LimitAssumption
    <3>3. ASSUME ~OneNetwork(networks) PROVE Unacceptable
      <4>2. IsFiniteSet(networks)
        BY FiniteNetworks
      <4>3. networks # {Network(keys[1].key)}
        BY <3>3, <4>2, FS_Singleton DEF OneNetwork
      <4>4. \E k \in DOMAIN keys : Network(keys[1].key) # Network(keys[k].key)
        BY <3>2, <4>3
      <4> QED
        BY <3>2, <4>4 DEF Unacceptable
    <3>4. ASSUME ~IsInjective(Points(derivations)) PROVE Unacceptable
      <4>1. PICK j \in DOMAIN keys, k \in DOMAIN keys :
              j # k /\ derivations[j].point = derivations[k].point
        BY <3>2, <3>4 DEF IsInjective, Points
      <4>2. Kept(j) /\ Kept(k)
        BY <3>2
      <4>3. LeafPoint(keys[j]) = LeafPoint(keys[k])
        BY <4>1, <4>2 DEF Kept
      <4> QED
        BY <4>1, <4>3 DEF Unacceptable
    <3> QED
      BY <1>2, <2>2, <3>1, <3>3, <3>4 DEF EndInv
  <2> QED
    BY <2>1, <2>2
<1> QED
  BY <1>3, <1>4 DEF SpendInv

(* The inductive invariant holds in every behaviour.                       *)
LEMMA SpendInvHolds == Spec => []SpendInv
<1>1. SpendInv /\ [Next]_vars => SpendInv'
  <2> SUFFICES ASSUME SpendInv, [Next]_vars PROVE SpendInv'
    OBVIOUS
  <2>1. CASE UNCHANGED vars
    <3>1. UNCHANGED <<pc, args, keys, derivations, xpubs, networks, spend>>
      BY <2>1 DEF vars, lists
    <3>2. \A offer : (Sound(offer)' <=> Sound(offer)) /\ LeafPoint(offer)' = LeafPoint(offer)
      BY <3>1, ArgumentsFix
    <3>3. /\ ArgumentFault' <=> ArgumentFault
          /\ \A k : Kept(k)' <=> Kept(k)
      BY <3>1, <3>2, ArgumentsFix DEF Kept
    <3>4. Unacceptable' <=> Unacceptable
      BY <3>1, <3>2 DEF Unacceptable
    <3>5. Result' = Result
      BY <3>1 DEF Result
    <3>6. ListsInv'
      BY <3>1, <3>3 DEF SpendInv, ListsInv
    <3>7. EndInv'
      BY <3>1, <3>3, <3>4, <3>5 DEF SpendInv, EndInv
    <3> QED
      BY <3>6, <3>7 DEF SpendInv
  <2> QED
    BY <2>1, CheckKeeps, TakeKeeps, FinishKeeps DEF Next
<1> QED
  BY <1>1, InitSpend, PTL DEF Spec

-----------------------------------------------------------------------------
(* What the loop takes is what is plausible.                               *)

(* What the fields of an exported key say of its path.                     *)
LEMMA OfferFields ==
  ASSUME NEW offer \in Offers
  PROVE  LET key  == offer.key
             path == offer.key.point.path
         IN  /\ path \in Seq(0 .. (2 * Hardened - 1)) /\ path \in Seq(Int)
             /\ Len(path) \in Nat
             /\ \A k \in 1 .. Len(path) : path[k] \in 0 .. (2 * Hardened - 1)
             /\ key.depth = Len(path)
             /\ key.point = Point(key.point.seed, path)
             /\ path # <<>> => /\ key.number = path[Len(path)]
                               /\ key.parent = Point(key.point.seed, Front(path))
             /\ path = <<>> <=> Len(path) = 0
<1> DEFINE S == 0 .. (2 * Hardened - 1)
<1>1. /\ offer.key.point.path \in Seq(S)
      /\ offer.key = Exported(offer.key.version, offer.key.point.seed, offer.key.point.path)
  BY OffersAssumption
<1>2. /\ offer.key.depth = Len(offer.key.point.path)
      /\ offer.key.point = Point(offer.key.point.seed, offer.key.point.path)
      /\ offer.key.point.path # <<>> =>
           /\ offer.key.number = offer.key.point.path[Len(offer.key.point.path)]
           /\ offer.key.parent = Point(offer.key.point.seed, Front(offer.key.point.path))
  BY <1>1 DEF Exported, Last
<1> DEFINE path == offer.key.point.path
<1>3. path \in Seq(S)
  BY <1>1
<1>4. \A i \in S : i \in Int
  BY KeyAssumption
<1> HIDE DEF path, S
<1>5. /\ Len(path) \in Nat /\ \A k \in 1 .. Len(path) : path[k] \in S
      /\ path \in Seq(Int)
  BY <1>3, <1>4, LenProperties, ElementOfSeq, SeqMonotonic
<1>6. path = <<>> <=> Len(path) = 0
  BY <1>3, EmptySeq
<1> QED
  BY <1>2, <1>3, <1>5, <1>6 DEF path, S

(* The refusals of _resolved_origin() are those of implausible origins.    *)
LEMMA OriginsPlausible ==
  ASSUME NEW offer \in Offers
  PROVE  ~OriginFault(offer) <=> Plausible(offer)
<1> DEFINE key  == offer.key
           path == key.point.path
           true == TrueOrigin(key)
<1>1. /\ path \in Seq(Int) /\ Len(path) \in Nat
      /\ \A k \in 1 .. Len(path) : path[k] \in 0 .. (2 * Hardened - 1)
      /\ key.depth = Len(path)
      /\ key.point = Point(key.point.seed, path)
      /\ path # <<>> => /\ key.number = path[Len(path)]
                        /\ key.parent = Point(key.point.seed, Front(path))
      /\ path = <<>> <=> Len(path) = 0
  BY OfferFields
<1>2. /\ true = Origin(Point(key.point.seed, <<>>), path)
      /\ true.path = path /\ true.fingerprint = Point(key.point.seed, <<>>)
  BY DEF TrueOrigin, Origin
<1>3. Serializable(true)
  BY <1>1, <1>2, LenProperties DEF Serializable
<1>4. /\ offer.origin = {} \/ \E o \in offer.origin : offer.origin = {o}
      /\ \A o \in offer.origin : o.path \in Seq(Int) /\ o = Origin(o.fingerprint, o.path)
  BY OffersAssumption
<1> HIDE DEF true, path
<1>5. CASE key.depth = 0
  <2>1. path = <<>>
    BY <1>1, <1>5
  <2>2. Resolved(offer) = {true}
    BY <1>1, <1>2, <1>5, <2>1 DEF Resolved, Fingerprint
  <2>3. ~PathFault(key, true) /\ ~ParentFault(key, true)
    BY <1>1, <1>2, <1>3, <1>5, <2>1 DEF PathFault, ParentFault
  <2>4. ~OriginFault(offer) <=> offer.origin = {} \/ offer.origin = {true}
    BY <1>5, <2>2, <2>3 DEF OriginFault
  <2>5. Plausible(offer) <=> offer.origin = {} \/ offer.origin = {true}
    BY <1>5 DEF Plausible, true
  <2> QED
    BY <2>4, <2>5
<1>6. CASE key.depth # 0 /\ offer.origin = {}
  BY <1>4, <1>6 DEF OriginFault, Plausible, Resolved
<1>7. CASE key.depth # 0 /\ offer.origin # {}
  <2>1. PICK o : /\ offer.origin = {o} /\ o.path \in Seq(Int)
                 /\ o = Origin(o.fingerprint, o.path)
    BY <1>4, <1>7
  <2>2. Resolved(offer) = {o}
    BY <1>7, <2>1 DEF Resolved
  <2>3. ~OriginFault(offer) <=> ~PathFault(key, o) /\ ~ParentFault(key, o)
    BY <1>7, <2>2 DEF OriginFault
  <2>4. ~PathFault(key, o) <=> /\ Serializable(o) /\ Len(o.path) = Len(path)
                               /\ o.path[Len(path)] = path[Len(path)]
    <3>1. Len(o.path) = Len(path) => o.path # <<>>
      BY <1>1, <1>7
    <3> QED
      BY <1>1, <1>7, <3>1 DEF PathFault, Last
  <2>5. CASE key.depth > 1
    <3>1. ~ParentFault(key, o)
      BY <1>1, <2>5 DEF ParentFault
    <3>2. Plausible(offer) <=> \/ o = true
                               \/ /\ Serializable(o) /\ Len(o.path) = Len(path)
                                  /\ Last(o.path) = Last(path)
      BY <1>2, <1>7, <2>1, <2>5 DEF Plausible, true
    <3>3. o = true => Serializable(o) /\ o.path = path
      BY <1>2, <1>3
    <3> QED
      BY <2>3, <2>4, <3>1, <3>2, <3>3 DEF Last
  <2>6. CASE key.depth = 1
    <3>1. Len(path) = 1 /\ path # <<>>
      BY <1>1, <2>6
    <3>2. key.parent = Point(key.point.seed, <<>>)
      <4>1. Front(path) = <<>>
        <5>1. Front(path) = SubSeq(path, 1, 0)
          BY <3>1 DEF Front
        <5>2. SubSeq(path, 1, 0) = <<>>
          BY SubSeqEmpty
        <5> QED
          BY <5>1, <5>2
      <4> QED
        BY <1>1, <3>1, <4>1
    <3>3. ~ParentFault(key, o) <=> o.fingerprint = true.fingerprint
      BY <1>2, <2>6, <3>2 DEF ParentFault
    <3>4. Plausible(offer) <=> o = true
      BY <1>7, <2>1, <2>6 DEF Plausible, true
    <3>5. o = true => Serializable(o) /\ o.path = path
      BY <1>2, <1>3
    <3>6. Len(o.path) = Len(path) /\ o.path[Len(path)] = path[Len(path)] => o.path = path
      BY <1>1, <2>1, <3>1, SeqEqual
    <3>7. o.path = path /\ o.fingerprint = true.fingerprint => o = true
      BY <1>2, <2>1
    <3> QED
      BY <2>3, <2>4, <3>3, <3>4, <3>5, <3>6, <3>7
  <2>7. key.depth = 1 \/ key.depth > 1
    <3>1. key.depth \in Nat
      BY <1>1
    <3> QED
      BY <1>7, <3>1
  <2> QED
    BY <2>5, <2>6, <2>7
<1> QED
  BY <1>5, <1>6, <1>7

(* The depth of an offered key is a byte.                                  *)
LEMMA DepthsFit ==
  ASSUME NEW offer \in Offers
  PROVE  DepthFits(offer.key)
<1>1. /\ offer.key.point.path \in Seq(0 .. (2 * Hardened - 1))
      /\ offer.key = Exported(offer.key.version, offer.key.point.seed, offer.key.point.path)
      /\ offer.key.depth <= MaxDepth
  BY OffersAssumption
<1>2. offer.key.depth = Len(offer.key.point.path) /\ {"depth", "point"} \subseteq DOMAIN offer.key
  BY <1>1 DEF Exported
<1>3. Len(offer.key.point.path) \in Nat
  BY <1>1, LenProperties
<1> QED
  BY <1>1, <1>2, <1>3, KeyAssumption DEF DepthFits

(* Keys are refused for a reason, and only then.                           *)
LEMMA UnacceptableOnly ==
  ASSUME keys \in Seq(Offers), args.change \in Nat, args.index \in Nat
  PROVE  Acceptable <=> ~Unacceptable
<1>1. \A k \in DOMAIN keys : keys[k] \in Offers
  BY LenProperties, ElementOfSeq
<1>2. \A k \in DOMAIN keys : Plausible(keys[k]) <=> ~OriginFault(keys[k])
  BY <1>1, OriginsPlausible
<1>3. \A k \in DOMAIN keys :
        HasLeaf(keys[k].key, args.change, args.index)
          <=> WithinLimits(keys[k].key, args.change, args.index)
  BY <1>1, DepthsFit, LeafLimits
<1>4. \A k \in DOMAIN keys :
        Sound(keys[k]) <=> /\ Parsable(keys[k].key) /\ Plausible(keys[k])
                           /\ WithinLimits(keys[k].key, args.change, args.index)
  BY <1>2, <1>3 DEF Sound
<1> QED
  BY <1>4 DEF Acceptable, Unacceptable

(* The points of the derivations are those of the keys, and are ordered.   *)
LeafPoints == {Leaf(offer.key, change, index).point :
                 offer \in Offers, change \in 0 .. 1, index \in 0 .. (Hardened - 1)}

(* The points of the derivations are those of the keys taken, in their     *)
(* order, and keys have an order.                                          *)
LEMMA PointsOf ==
  ASSUME SpendInv, pc \in {"keys", "done"}, Len(keys) = args.count
  PROVE  /\ Ordered(LeafPoints)
         /\ Points(derivations) \in Seq(LeafPoints)
         /\ Len(Points(derivations)) = Len(keys)
         /\ DOMAIN Points(derivations) = 1 .. Len(keys)
         /\ \A k \in 1 .. Len(keys) : /\ Points(derivations)[k] = LeafPoint(keys[k])
                                      /\ derivations[k].point = LeafPoint(keys[k])
                                      /\ LeafPoint(keys[k]) \in LeafPoints
<1>1. /\ Len(keys) \in Nat /\ DOMAIN derivations = 1 .. Len(keys)
      /\ args.change \in 0 .. 1 /\ args.index \in 0 .. (Hardened - 1)
      /\ \A k \in 1 .. Len(keys) : keys[k] \in Offers /\ Kept(k)
  BY LoopOver, LimitAssumption
<1>2. Ordered(LeafPoints)
  BY OrderAssumption DEF LeafPoints
<1>3. \A k \in 1 .. Len(keys) : LeafPoint(keys[k]) \in LeafPoints
  BY <1>1 DEF LeafPoint, LeafPoints
<1>4. \A k \in 1 .. Len(keys) : derivations[k].point = LeafPoint(keys[k])
  <2> TAKE k \in 1 .. Len(keys)
  <2>1. Kept(k)
    BY <1>1
  <2>2. derivations[k] = [point  |-> LeafPoint(keys[k]),
                          origin |-> Extend(xpubs[k].origin, Suffix)]
    BY <2>1 DEF Kept
  <2> QED
    BY <2>2
<1>5. /\ DOMAIN Points(derivations) = 1 .. Len(keys)
      /\ \A k \in 1 .. Len(keys) : Points(derivations)[k] = LeafPoint(keys[k])
      /\ Points(derivations) = [k \in 1 .. Len(keys) |-> derivations[k].point]
  BY <1>1, <1>4 DEF Points
<1>6. \A k \in 1 .. Len(keys) : derivations[k].point \in LeafPoints
  BY <1>3, <1>4
<1>7. /\ Points(derivations) \in Seq(LeafPoints)
      /\ Len(Points(derivations)) = Len(keys)
  BY <1>1, <1>5, <1>6
<1> QED
  BY <1>2, <1>3, <1>4, <1>5, <1>7

(* What the result consists of.                                            *)
LEMMA ResultIs ==
  ASSUME SpendInv, pc = "done"
  PROVE  LET points == Points(derivations)
             p      == InOrder(points)
         IN  /\ Len(keys) = args.count /\ OneNetwork(networks) /\ IsInjective(points)
             /\ p \in Orders(Len(keys))
             /\ \A k \in 1 .. Len(keys) : p[k] \in 1 .. Len(keys)
             /\ spend.derivations = Arranged(derivations, p)
             /\ Points(spend.derivations) = Sorted(points)
             /\ spend.xpubs = xpubs
             /\ \A n : networks = {n} =>
                  /\ Len(keys) > 1 =>
                       /\ spend.witness = P2MS(args.threshold, Sorted(points))
                       /\ spend.script = P2WSH(spend.witness)
                       /\ spend.address = AddressOf("p2wsh", spend.witness, n)
                  /\ Len(keys) <= 1 =>
                       /\ spend.witness = NoScript
                       /\ spend.script = P2WPKH(Sorted(points)[1])
                       /\ spend.address = AddressOf("p2wpkh", Sorted(points)[1], n)
<1> DEFINE points == Points(derivations)
           p == InOrder(points)
<1>1. /\ Len(keys) = args.count /\ spend = Result
      /\ OneNetwork(networks) /\ IsInjective(points)
  BY DEF SpendInv, EndInv
<1>3. /\ Ordered(LeafPoints) /\ points \in Seq(LeafPoints) /\ Len(points) = Len(keys)
      /\ DOMAIN points = 1 .. Len(keys)
  BY <1>1, PointsOf
<1>4. p \in Orders(Len(keys))
  <2>1. InOrder(points) \in Orders(Len(points))
    BY <1>3, SortedSorts
  <2> QED
    BY <1>3, <2>1
<1>5. /\ Len(keys) \in Nat /\ DOMAIN derivations = 1 .. Len(keys)
  BY <1>1, LoopOver, LimitAssumption
<1>6. \A k \in 1 .. Len(keys) : p[k] \in 1 .. Len(keys)
  <2>1. PICK n : n = Len(keys)
    OBVIOUS
  <2>2. \A k \in 1 .. n : p[k] \in 1 .. n
    <3> HIDE DEF p
    <3> QED
      BY <1>4, <1>5, <2>1, OrdersBijective
  <2> QED
    BY <2>1, <2>2
<1>7. Points(Arranged(derivations, p)) = Sorted(points)
  BY <1>3, <1>5, <1>6 DEF Points, Arranged, Sorted
<1>8. InKeyOrder(derivations) = Arranged(derivations, p)
  BY DEF InKeyOrder
<1>9. \A n : networks = {n} => (CHOOSE m \in networks : TRUE) = n
  OBVIOUS
<1> HIDE DEF p, points
<1>10. /\ spend.derivations = Arranged(derivations, p)
       /\ spend.xpubs = xpubs
       /\ \A n : networks = {n} =>
            /\ Len(keys) > 1 =>
                 /\ spend.witness = P2MS(args.threshold, Sorted(points))
                 /\ spend.script = P2WSH(spend.witness)
                 /\ spend.address = AddressOf("p2wsh", spend.witness, n)
            /\ Len(keys) <= 1 =>
                 /\ spend.witness = NoScript
                 /\ spend.script = P2WPKH(Sorted(points)[1])
                 /\ spend.address = AddressOf("p2wpkh", Sorted(points)[1], n)
  <2>1. CASE Len(keys) > 1
    BY <1>1, <1>5, <1>7, <1>8, <1>9, <2>1 DEF Result, Spend
  <2>2. CASE Len(keys) <= 1
    BY <1>1, <1>5, <1>7, <1>8, <1>9, <2>2 DEF Result, Spend
  <2> QED
    BY <1>5, <2>1, <2>2
<1> QED
  BY <1>1, <1>4, <1>6, <1>7, <1>10 DEF p, points

-----------------------------------------------------------------------------
(* Keys are accepted exactly when every one has a plausible origin and a   *)
(* child, all are of one network and their children differ; the threshold  *)
(* of a result can be met by its keys.                                     *)
THEOREM ChecksAreExact == Spec => []AcceptsExactly
<1>1. SpendInv => AcceptsExactly
  <2> SUFFICES ASSUME SpendInv PROVE AcceptsExactly
    OBVIOUS
  <2>1. keys \in Seq(Offers)
    BY DEF SpendInv, ListsInv
  <2>2. Acceptable <=> ~Unacceptable
    <3>1. args.change \in Nat /\ args.index \in Nat
      BY KeyAssumption DEF SpendInv, ListsInv
    <3> QED
      BY <2>1, <3>1, UnacceptableOnly
  <2>3. ASSUME pc = "done" PROVE Acceptable
    <3>1. /\ Len(keys) = args.count /\ OneNetwork(networks)
          /\ IsInjective(Points(derivations))
      BY <2>3, ResultIs
    <3>2. /\ DOMAIN keys = 1 .. Len(keys)
          /\ \A k \in 1 .. Len(keys) : Kept(k)
          /\ networks = {Network(keys[k].key) : k \in 1 .. Len(keys)}
      BY <2>3, <3>1, LoopOver, LimitAssumption
    <3>3. /\ DOMAIN Points(derivations) = 1 .. Len(keys)
          /\ \A k \in 1 .. Len(keys) : Points(derivations)[k] = LeafPoint(keys[k])
      BY <2>3, <3>1, PointsOf
    <3>4. \A k \in DOMAIN keys : Sound(keys[k])
      BY <3>2 DEF Kept
    <3>5. \A j, k \in DOMAIN keys : Network(keys[j].key) = Network(keys[k].key)
      <4>1. PICK n : networks = {n}
        BY <3>1, FiniteNetworks
      <4> QED
        BY <3>2, <4>1
    <3>6. \A j, k \in DOMAIN keys : LeafPoint(keys[j]) = LeafPoint(keys[k]) => j = k
      BY <3>1, <3>2, <3>3 DEF IsInjective
    <3> QED
      BY <2>2, <3>4, <3>5, <3>6 DEF Unacceptable
  <2>4. ASSUME pc \in {"EncodingError", "DerivationError"}, ~ArgumentFault
        PROVE  ~Acceptable
    BY <2>2, <2>4 DEF SpendInv, EndInv
  <2>5. ASSUME pc = "done", args.count > 1
        PROVE  CanP2MS(spend.witness.m, Len(spend.witness.keys))
    <3>1. /\ Len(keys) = args.count /\ IsInjective(Points(derivations))
      BY <2>5, ResultIs
    <3>2. Len(keys) \in 1 .. KeyLimit /\ args.threshold \in 1 .. Len(keys)
      BY <2>5, <3>1, LoopOver, LimitAssumption
    <3>3. Len(Sorted(Points(derivations))) = Len(keys)
      BY <2>5, <3>1, PointsOf, SortedLists
    <3>4. PICK n : networks = {n}
      BY <2>5, ResultIs, FiniteNetworks
    <3>5. spend.witness = P2MS(args.threshold, Sorted(Points(derivations)))
      <4>1. Len(keys) > 1
        BY <2>5, <3>1
      <4> QED
        BY <2>5, <3>4, <4>1, ResultIs
    <3>6. /\ spend.witness.m = args.threshold
          /\ Len(spend.witness.keys) = Len(keys)
      BY <3>3, <3>5 DEF P2MS
    <3> QED
      BY <3>2, <3>6, LimitAssumption DEF CanP2MS
  <2>6. TypeOK
    BY <2>5 DEF TypeOK, SpendInv, ListsInv
  <2> QED
    BY <2>3, <2>4, <2>6 DEF AcceptsExactly
<1> QED
  BY <1>1, SpendInvHolds, PTL

-----------------------------------------------------------------------------
(* What the result tells a signer.                                         *)

(* A path and two more steps.                                              *)
LEMMA TwoSteps ==
  ASSUME NEW path \in Seq(Int), NEW c \in Int, NEW i \in Int
  PROVE  /\ path \o <<c, i>> = Append(Append(path, c), i)
         /\ path \o <<c, i>> \in Seq(Int)
         /\ <<>> \o (path \o <<c, i>>) = path \o <<c, i>>
         /\ Front(Front(path \o <<c, i>>)) = path
         /\ \A k \in 1 .. Len(path) : (path \o <<c, i>>)[k] = path[k]
         /\ (path \o <<c, i>>)[Len(path) + 1] = c
         /\ (path \o <<c, i>>)[Len(path) + 2] = i
         /\ Len(path \o <<c, i>>) = Len(path) + 2
<1> DEFINE steps == <<c, i>>
           long  == path \o steps
<1>1. /\ steps \in Seq(Int) /\ Len(steps) = 2 /\ steps[1] = c /\ steps[2] = i
      /\ Len(path) \in Nat
  BY LenProperties
<1> HIDE DEF steps
<1>0. PICK n : n = Len(path)
  OBVIOUS
<1>2. /\ long \in Seq(Int) /\ Len(long) = n + 2
      /\ \A k \in 1 .. (n + 2) : long[k] = IF k <= n THEN path[k] ELSE steps[k - n]
  <2>1. /\ long \in Seq(Int) /\ Len(long) = Len(path) + Len(steps)
        /\ \A k \in 1 .. Len(path) + Len(steps) :
             long[k] = IF k <= Len(path) THEN path[k] ELSE steps[k - Len(path)]
    BY <1>1, ConcatProperties
  <2>2. Len(path) = n /\ Len(steps) = 2
    BY <1>0, <1>1
  <2> QED
    BY <2>1, <2>2
<1>3. /\ \A k \in 1 .. n : long[k] = path[k]
      /\ long[n + 1] = c /\ long[n + 2] = i
  BY <1>0, <1>1, <1>2
<1>4. /\ Append(Append(path, c), i) \in Seq(Int)
      /\ Len(Append(Append(path, c), i)) = n + 2
      /\ \A k \in 1 .. n : Append(Append(path, c), i)[k] = path[k]
      /\ Append(Append(path, c), i)[n + 1] = c
      /\ Append(Append(path, c), i)[n + 2] = i
  BY <1>0, <1>1
<1> HIDE DEF long
<1>5. long = Append(Append(path, c), i)
  <2>1. ASSUME NEW k \in 1 .. (n + 2) PROVE long[k] = Append(Append(path, c), i)[k]
    <3>1. k \in 1 .. n \/ k = n + 1 \/ k = n + 2
      BY <1>0, <1>1
    <3> QED
      BY <1>3, <1>4, <3>1
  <2> QED
    BY <1>0, <1>1, <1>2, <1>4, <2>1, SeqEqual
<1>6. Front(Front(long)) = path
  <2> DEFINE f == Front(long)
             g == Front(f)
  <2>1. f \in Seq(Int) /\ Len(f) = n + 1 /\ \A k \in 1 .. Len(f) : f[k] = long[k]
    <3>1. f = SubSeq(long, 1, n + 1)
      BY <1>0, <1>1, <1>2 DEF Front
    <3>2. \A k \in 1 .. (n + 1) : long[k] \in Int
      BY <1>0, <1>1, <1>2, LenProperties
    <3> QED
      BY <1>0, <1>1, <3>1, <3>2, SubSeqProperties
  <2> HIDE DEF f
  <2>2. g \in Seq(Int) /\ Len(g) = n /\ \A k \in 1 .. Len(g) : g[k] = f[k]
    <3>1. g = SubSeq(f, 1, n)
      BY <1>0, <1>1, <2>1 DEF Front
    <3>2. \A k \in 1 .. n : f[k] \in Int
      BY <1>0, <1>1, <2>1, LenProperties
    <3> QED
      BY <1>0, <1>1, <3>1, <3>2, SubSeqProperties
  <2> HIDE DEF g
  <2>3. ASSUME NEW k \in 1 .. n PROVE g[k] = path[k]
    <3>1. k \in 1 .. (n + 1) /\ n \in Nat
      BY <1>0, <1>1
    <3>2. g[k] = f[k] /\ f[k] = long[k]
      BY <1>0, <2>1, <2>2, <3>1
    <3> QED
      BY <1>0, <1>3, <3>2
  <2>4. g = path
    BY <1>0, <2>2, <2>3, SeqEqual
  <2> QED
    BY <2>4 DEF f, g
<1>7. <<>> \o long = long
  BY <1>2, ConcatEmptySeq
<1> QED
  BY <1>0, <1>2, <1>3, <1>5, <1>6, <1>7 DEF long, steps

(* The key of an offer two steps down.                                     *)
LEMMA LeafPath ==
  ASSUME NEW offer \in Offers, NEW c \in Int, NEW i \in Int
  PROVE  Leaf(offer.key, c, i).point =
           Point(offer.key.point.seed, offer.key.point.path \o <<c, i>>)
<1>1. /\ offer.key = Exported(offer.key.version, offer.key.point.seed, offer.key.point.path)
      /\ offer.key.point.path \in Seq(Int)
  BY OffersAssumption, OfferFields
<1>2. PICK v, seed, path :
        /\ v = offer.key.version /\ seed = offer.key.point.seed /\ path = offer.key.point.path
  OBVIOUS
<1>3. Child(offer.key, c).point = Point(seed, Append(path, c))
  BY <1>1, <1>2 DEF Exported, Child, Point
<1>4. DOMAIN Child(offer.key, c) = {"version", "depth", "parent", "number", "point"}
  BY <1>1, <1>2 DEF Exported, Child
<1>5. Leaf(offer.key, c, i).point = Point(seed, Append(Append(path, c), i))
  BY <1>3, <1>4 DEF Leaf, Child, Point
<1>6. path \o <<c, i>> = Append(Append(path, c), i)
  BY <1>1, <1>2, TwoSteps
<1> QED
  BY <1>2, <1>5, <1>6

(* The origin of a key that was accepted.                                  *)
LEMMA ResolvedForm ==
  ASSUME NEW offer \in Offers, ~OriginFault(offer), NEW origin, Resolved(offer) = {origin}
  PROVE  /\ origin = Origin(origin.fingerprint, origin.path)
         /\ origin.path \in Seq(Int)
         /\ Serializable(origin) /\ Len(origin.path) = offer.key.depth
         /\ offer.key.depth <= 1 \/ offer.origin = {TrueOrigin(offer.key)}
              => origin = TrueOrigin(offer.key)
<1>1. ~PathFault(offer.key, origin)
  BY DEF OriginFault
<1>2. Serializable(origin) /\ Len(origin.path) = offer.key.depth
  BY <1>1 DEF PathFault
<1>3. Plausible(offer)
  BY OriginsPlausible
<1>4. PICK path : path = offer.key.point.path
  OBVIOUS
<1>5. /\ Len(path) \in Nat /\ offer.key.depth = Len(path)
      /\ offer.key.point = Point(offer.key.point.seed, path)
      /\ path = <<>> <=> Len(path) = 0
  BY <1>4, OfferFields
<1>6. CASE offer.key.depth = 0
  <2>1. origin = Origin(offer.key.point, <<>>) /\ path = <<>>
    BY <1>5, <1>6 DEF Resolved, Fingerprint
  <2>2. TrueOrigin(offer.key) = Origin(offer.key.point, <<>>)
    BY <1>4, <1>5, <2>1 DEF TrueOrigin
  <2>3. origin.fingerprint = offer.key.point /\ origin.path = <<>>
    BY <2>1 DEF Origin
  <2>4. origin = Origin(origin.fingerprint, origin.path) /\ origin.path \in Seq(Int)
    <3>1. <<>> \in Seq(Int)
      OBVIOUS
    <3> QED
      BY <2>1, <2>3, <3>1
  <2> QED
    BY <1>2, <2>1, <2>2, <2>4
<1>7. CASE offer.key.depth # 0
  <2>1. offer.origin = {origin}
    BY <1>7 DEF Resolved
  <2>2. origin = Origin(origin.fingerprint, origin.path) /\ origin.path \in Seq(Int)
    BY <2>1, OffersAssumption
  <2>3. offer.key.depth <= 1 => offer.origin = {TrueOrigin(offer.key)}
    BY <1>3, <1>5, <1>7, <2>1 DEF Plausible
  <2> QED
    BY <1>2, <2>1, <2>2, <2>3
<1> QED
  BY <1>6, <1>7

(* An origin followed by steps.                                            *)
LEMMA Extended ==
  ASSUME NEW fingerprint, NEW path, NEW steps, NEW origin,
         origin = Origin(fingerprint, path)
  PROVE  /\ Extend(origin, steps) = Origin(fingerprint, path \o steps)
         /\ origin.fingerprint = fingerprint /\ origin.path = path
<1>1. PICK long : long = path \o steps
  OBVIOUS
<1>2. origin.path = path /\ origin.fingerprint = fingerprint
  BY DEF Origin
<1>3. [Origin(fingerprint, path) EXCEPT !.path = long] = Origin(fingerprint, long)
  BY DEF Origin
<1>4. Extend(origin, steps) = [origin EXCEPT !.path = long]
  BY <1>1, <1>2 DEF Extend
<1> QED
  BY <1>1, <1>2, <1>3, <1>4

(* What stands in the result of the k-th key.                              *)
LEMMA EntryOf ==
  ASSUME SpendInv, pc = "done", NEW k \in 1 .. Len(keys)
  PROVE  \E origin \in Resolved(keys[k]) :
           /\ Resolved(keys[k]) = {origin}
           /\ keys[k] \in Offers /\ Sound(keys[k])
           /\ origin = Origin(origin.fingerprint, origin.path)
           /\ origin.path \in Seq(Int)
           /\ Serializable(origin) /\ Len(origin.path) = keys[k].key.depth
           /\ keys[k].key.depth <= 1 \/ keys[k].origin = {TrueOrigin(keys[k].key)}
                => origin = TrueOrigin(keys[k].key)
           /\ xpubs[k].origin = origin /\ xpubs[k].xpub = ToXpub(keys[k].key)
           /\ derivations[k].point = LeafPoint(keys[k])
           /\ derivations[k].origin =
                Origin(origin.fingerprint, origin.path \o <<args.change, args.index>>)
           /\ args.change \in Int /\ args.index \in Int
<1>1. /\ Len(keys) = args.count
  BY ResultIs
<1>2. /\ keys[k] \in Offers /\ Kept(k)
      /\ args.change \in Int /\ args.index \in Int
  BY <1>1, LoopOver, LimitAssumption, KeyAssumption
<1>3. PICK origin : /\ origin = xpubs[k].origin
                    /\ Resolved(keys[k]) = {origin}
                    /\ xpubs[k].xpub = ToXpub(keys[k].key)
                    /\ derivations[k] = [point  |-> LeafPoint(keys[k]),
                                         origin |-> Extend(origin, Suffix)]
  BY <1>2 DEF Kept
<1>4. Sound(keys[k]) /\ ~OriginFault(keys[k])
  BY <1>2 DEF Kept, Sound
<1>5. /\ origin = Origin(origin.fingerprint, origin.path)
      /\ origin.path \in Seq(Int)
      /\ Serializable(origin) /\ Len(origin.path) = keys[k].key.depth
      /\ keys[k].key.depth <= 1 \/ keys[k].origin = {TrueOrigin(keys[k].key)}
           => origin = TrueOrigin(keys[k].key)
  BY <1>2, <1>3, <1>4, ResolvedForm
<1>6. Extend(origin, Suffix) =
        Origin(origin.fingerprint, origin.path \o <<args.change, args.index>>)
  <2>1. Extend(origin, Suffix) = Origin(origin.fingerprint, origin.path \o Suffix)
    BY <1>5, Extended
  <2> QED
    BY <2>1 DEF Suffix
<1> QED
  BY <1>2, <1>3, <1>4, <1>5, <1>6

(* Every key is in the result, and nothing else is.                        *)
LEMMA ResultHolds ==
  ASSUME SpendInv, pc = "done"
  PROVE  /\ \A k \in 1 .. Len(keys) : derivations[k] \in Range(spend.derivations)
         /\ DOMAIN spend.derivations = 1 .. Len(keys)
         /\ \A j \in 1 .. Len(keys) :
              \E k \in 1 .. Len(keys) : spend.derivations[j] = derivations[k]
<1>1. PICK p : p = InOrder(Points(derivations))
  OBVIOUS
<1>2. /\ Len(keys) = args.count
      /\ p \in Orders(Len(keys))
      /\ \A k \in 1 .. Len(keys) : p[k] \in 1 .. Len(keys)
      /\ spend.derivations = Arranged(derivations, p)
  BY <1>1, ResultIs
<1>3. Len(keys) \in Nat /\ DOMAIN derivations = 1 .. Len(keys)
  BY <1>2, LoopOver, LimitAssumption
<1>4. \A k \in 1 .. Len(keys) : \E j \in 1 .. Len(keys) : p[j] = k
  <2>1. PICK n : n = Len(keys)
    OBVIOUS
  <2>2. n \in Nat /\ p \in Orders(n)
    BY <1>2, <1>3, <2>1
  <2>3. \A k \in 1 .. n : \E j \in 1 .. n : p[j] = k
    BY <2>2, OrdersBijective
  <2> QED
    BY <2>1, <2>3
<1>5. /\ DOMAIN spend.derivations = 1 .. Len(keys)
      /\ \A j \in 1 .. Len(keys) : spend.derivations[j] = derivations[p[j]]
  BY <1>2, <1>3 DEF Arranged
<1>6. \A k \in 1 .. Len(keys) : derivations[k] \in Range(spend.derivations)
  BY <1>4, <1>5 DEF Range
<1> QED
  BY <1>2, <1>5, <1>6

(* The script is that of the set of derived keys, in the order of BIP 67,  *)
(* and every key stands in the metadata below the origin it came with.     *)
THEOREM GivenOrderIrrelevant == Spec => []KeyOrderIrrelevant
<1>1. SpendInv => KeyOrderIrrelevant
  <2> SUFFICES ASSUME SpendInv, pc = "done" PROVE KeyOrderIrrelevant
    BY DEF KeyOrderIrrelevant
  <2> DEFINE points == Points(derivations)
             sorted == Points(spend.derivations)
  <2>1. /\ Len(keys) = args.count /\ OneNetwork(networks) /\ IsInjective(points)
        /\ sorted = Sorted(points)
    BY ResultIs
  <2>2. /\ Ordered(LeafPoints) /\ points \in Seq(LeafPoints) /\ Len(points) = Len(keys)
        /\ DOMAIN points = 1 .. Len(keys)
        /\ \A k \in 1 .. Len(keys) : points[k] = LeafPoint(keys[k])
    BY <2>1, PointsOf
  <2>3. Len(keys) \in Nat \ {0} /\ DOMAIN keys = 1 .. Len(keys)
    BY <2>1, LoopOver, LimitAssumption
  <2>4. Lists(sorted, {LeafPoint(keys[k]) : k \in DOMAIN keys})
    <3>1. Lists(Sorted(points), Range(points))
      BY <2>1, <2>2, SortedLists
    <3>2. Range(points) = {LeafPoint(keys[k]) : k \in DOMAIN keys}
      BY <2>2, <2>3 DEF Range
    <3> QED
      BY <2>1, <3>1, <3>2
  <2>5. spend.script = IF Len(keys) = 1 THEN P2WPKH(sorted[1])
                       ELSE P2WSH(P2MS(args.threshold, sorted))
    <3>1. PICK n : networks = {n}
      BY <2>1, FiniteNetworks
    <3>2. /\ Len(keys) > 1 => /\ spend.witness = P2MS(args.threshold, Sorted(points))
                              /\ spend.script = P2WSH(spend.witness)
          /\ Len(keys) <= 1 => spend.script = P2WPKH(Sorted(points)[1])
      BY <3>1, ResultIs
    <3>3. Len(keys) = 1 \/ Len(keys) > 1
      BY <2>3
    <3>4. Len(keys) = 1 => Len(keys) <= 1
      OBVIOUS
    <3>5. Len(keys) > 1 => Len(keys) # 1
      OBVIOUS
    <3> HIDE DEF points, sorted
    <3> QED
      BY <2>1, <3>2, <3>3, <3>4, <3>5
  <2>6. ASSUME NEW k \in DOMAIN keys
        PROVE  \E d \in Range(spend.derivations) :
                 /\ d.point = LeafPoint(keys[k])
                 /\ Resolved(keys[k]) = {Origin(d.origin.fingerprint,
                                                Front(Front(d.origin.path)))}
    <3>1. k \in 1 .. Len(keys)
      BY <2>3
    <3>2. PICK origin \in Resolved(keys[k]) :
            /\ Resolved(keys[k]) = {origin}
            /\ origin = Origin(origin.fingerprint, origin.path)
            /\ origin.path \in Seq(Int)
            /\ derivations[k].point = LeafPoint(keys[k])
            /\ derivations[k].origin =
                 Origin(origin.fingerprint, origin.path \o <<args.change, args.index>>)
            /\ args.change \in Int /\ args.index \in Int
      BY <3>1, EntryOf
    <3>3. Front(Front(origin.path \o <<args.change, args.index>>)) = origin.path
      BY <3>2, TwoSteps
    <3>4. /\ derivations[k].origin.fingerprint = origin.fingerprint
          /\ derivations[k].origin.path = origin.path \o <<args.change, args.index>>
      BY <3>2 DEF Origin
    <3>5. derivations[k] \in Range(spend.derivations)
      BY <3>1, ResultHolds
    <3>6. Resolved(keys[k]) = {Origin(derivations[k].origin.fingerprint,
                                      Front(Front(derivations[k].origin.path)))}
      BY <3>2, <3>3, <3>4
    <3> QED
      BY <3>2, <3>5, <3>6
  <2> QED
    BY <2>4, <2>5, <2>6 DEF KeyOrderIrrelevant
<1> QED
  BY <1>1, SpendInvHolds, PTL

(* Whoever holds the master key of an origin and follows its path arrives  *)
(* at the key, if the declared origins of deeper keys are true.            *)
THEOREM OriginsLeadToKeys == Spec => []OriginsLead
<1>1. SpendInv => OriginsLead
  <2> SUFFICES ASSUME SpendInv, pc = "done", NEW k \in DOMAIN keys,
                      keys[k].key.depth <= 1 \/ keys[k].origin = {TrueOrigin(keys[k].key)}
               PROVE  \E d \in Range(spend.derivations) :
                        /\ d.point = LeafPoint(keys[k])
                        /\ d.point = Point(d.origin.fingerprint.seed,
                                           d.origin.fingerprint.path \o d.origin.path)
    BY DEF OriginsLead
  <2>1. Len(keys) = args.count
    BY ResultIs
  <2>2. k \in 1 .. Len(keys)
    BY <2>1, LoopOver, LimitAssumption
  <2>3. PICK origin \in Resolved(keys[k]) :
          /\ keys[k] \in Offers
          /\ origin = TrueOrigin(keys[k].key)
          /\ origin.path \in Seq(Int)
          /\ derivations[k].point = LeafPoint(keys[k])
          /\ derivations[k].origin =
               Origin(origin.fingerprint, origin.path \o <<args.change, args.index>>)
          /\ args.change \in Int /\ args.index \in Int
    BY <2>2, EntryOf
  <2>4. PICK seed, path : seed = keys[k].key.point.seed /\ path = keys[k].key.point.path
    OBVIOUS
  <2>5. /\ origin.path = path /\ origin.fingerprint.seed = seed
        /\ origin.fingerprint.path = <<>>
    BY <2>3, <2>4 DEF TrueOrigin, Origin, Point
  <2>6. LeafPoint(keys[k]) = Point(seed, path \o <<args.change, args.index>>)
    BY <2>3, <2>4, LeafPath DEF LeafPoint
  <2>7. <<>> \o (path \o <<args.change, args.index>>) = path \o <<args.change, args.index>>
    BY <2>3, <2>5, TwoSteps
  <2>8. /\ derivations[k].origin.fingerprint = origin.fingerprint
        /\ derivations[k].origin.path = path \o <<args.change, args.index>>
    BY <2>3, <2>5 DEF Origin
  <2>9. derivations[k].point = Point(derivations[k].origin.fingerprint.seed,
                                     derivations[k].origin.fingerprint.path
                                       \o derivations[k].origin.path)
    BY <2>3, <2>5, <2>6, <2>7, <2>8
  <2>10. derivations[k] \in Range(spend.derivations)
    BY <2>2, ResultHolds
  <2> QED
    BY <2>3, <2>9, <2>10
<1> QED
  BY <1>1, SpendInvHolds, PTL

(* The address is that of Account, or of MultisigAccount for every order   *)
(* of the keys.                                                            *)
THEOREM AddressesAgree == Spec => []AgreesWithAccounts
<1>1. SpendInv => AgreesWithAccounts
  <2> SUFFICES ASSUME SpendInv, pc = "done" PROVE AgreesWithAccounts
    BY DEF AgreesWithAccounts
  <2> DEFINE points == Points(derivations)
  <2>1. Len(keys) = args.count /\ OneNetwork(networks)
    BY ResultIs
  <2>2. /\ Ordered(LeafPoints) /\ points \in Seq(LeafPoints) /\ Len(points) = Len(keys)
        /\ DOMAIN points = 1 .. Len(keys)
        /\ \A k \in 1 .. Len(keys) : points[k] = LeafPoint(keys[k])
    BY <2>1, PointsOf
  <2>3. /\ Len(keys) \in Nat \ {0} /\ DOMAIN keys = 1 .. Len(keys)
        /\ networks = {Network(keys[k].key) : k \in 1 .. Len(keys)}
    BY <2>1, LoopOver, LimitAssumption
  <2>4. PICK n : networks = {n}
    BY <2>1, FiniteNetworks
  <2>5. \A k \in 1 .. Len(keys) : Network(keys[k].key) = n
    BY <2>3, <2>4
  <2>6. /\ Len(keys) > 1 =>
             /\ spend.witness = P2MS(args.threshold, Sorted(points))
             /\ spend.address = AddressOf("p2wsh", spend.witness, n)
        /\ Len(keys) <= 1 => spend.address = AddressOf("p2wpkh", Sorted(points)[1], n)
    BY <2>4, ResultIs
  <2> HIDE DEF points
  <2>7. ASSUME args.count = 1
        PROVE  spend.address = AccountAddress(keys[1].key, "p2wpkh", args.change, args.index)
    <3>1. 1 \in 1 .. Len(keys) /\ Len(keys) <= 1
      BY <2>1, <2>7
    <3>2. Sorted(points)[1] = LeafPoint(keys[1])
      <4>1. PICK q : q = InOrder(points)
        OBVIOUS
      <4>2. q \in Orders(Len(keys))
        BY <2>2, <4>1, SortedSorts
      <4>3. q \in Orders(1)
        BY <2>1, <2>7, <4>2
      <4>4. q[1] = 1
        BY <4>3, OrdersBijective
      <4> QED
        BY <2>2, <3>1, <4>1, <4>4 DEF Sorted, Arranged
    <3> QED
      BY <2>5, <2>6, <3>1, <3>2 DEF AccountAddress, LeafPoint
  <2>8. ASSUME args.count # 1, NEW q \in Orders(Len(keys))
        PROVE  spend.address =
                 MultisigAddress([k \in DOMAIN keys |-> keys[q[k]].key],
                                 args.threshold, "p2wsh", TRUE, args.change, args.index)
    <3> DEFINE given == [k \in DOMAIN keys |-> keys[q[k]].key]
    <3>1. Len(keys) > 1 /\ 1 \in 1 .. Len(keys)
      BY <2>1, <2>3, <2>8
    <3>2. \A k \in 1 .. Len(keys) : q[k] \in 1 .. Len(keys)
      <4>1. PICK m : m = Len(keys)
        OBVIOUS
      <4>2. m \in Nat /\ q \in Orders(m)
        BY <2>3, <4>1
      <4>3. \A k \in 1 .. m : q[k] \in 1 .. m
        BY <4>2, OrdersBijective
      <4> QED
        BY <4>1, <4>3
    <3>3. /\ DOMAIN given = 1 .. Len(keys)
          /\ \A k \in 1 .. Len(keys) : given[k] = keys[q[k]].key
      BY <2>3
    <3> HIDE DEF given
    <3>4. [k \in DOMAIN given |-> Leaf(given[k], args.change, args.index).point]
            = Arranged(points, q)
      <4>1. \A k \in 1 .. Len(keys) :
              Leaf(given[k], args.change, args.index).point = points[q[k]]
        BY <2>2, <3>2, <3>3 DEF LeafPoint
      <4> QED
        BY <2>2, <3>3, <4>1 DEF Arranged
    <3>5. Sorted(Arranged(points, q)) = Sorted(points)
      <4>1. q \in Orders(Len(points))
        BY <2>2
      <4> QED
        BY <2>2, <4>1, SortedOfArranged
    <3>6. Network(given[1]) = n
      BY <2>5, <3>1, <3>2, <3>3
    <3>7. Cosigners(given, TRUE, args.change, args.index) = Sorted(points)
      BY <3>4, <3>5 DEF Cosigners
    <3>8. MultisigAddress(given, args.threshold, "p2wsh", TRUE, args.change, args.index)
            = AddressOf("p2wsh", P2MS(args.threshold, Sorted(points)), n)
      BY <3>6, <3>7 DEF MultisigAddress
    <3> QED
      BY <2>6, <3>1, <3>8 DEF given
  <2> QED
    BY <2>7, <2>8 DEF AgreesWithAccounts
<1> QED
  BY <1>1, SpendInvHolds, PTL

(* An origin with two unhardened steps more can still be written.          *)
LEMMA LongerSerializable ==
  ASSUME NEW origin, Serializable(origin), origin.path \in Seq(Int),
         NEW c \in 0 .. (2 * Hardened - 1), NEW i \in 0 .. (2 * Hardened - 1),
         NEW o, o.path = origin.path \o <<c, i>>
  PROVE  Serializable(o)
<1>1. PICK path, n : path = origin.path /\ n = Len(path)
  OBVIOUS
<1>2. path \in Seq(Int) /\ n \in Nat /\ DOMAIN path = 1 .. n
  BY <1>1, LenProperties
<1>3. \A k \in 1 .. n : path[k] \in 0 .. (2 * Hardened - 1)
  BY <1>1, <1>2 DEF Serializable
<1>4. PICK long : long = path \o <<c, i>>
  OBVIOUS
<1>5. c \in Int /\ i \in Int
  BY KeyAssumption
<1>6. /\ long \in Seq(Int) /\ Len(long) = n + 2
      /\ \A k \in 1 .. n : long[k] = path[k]
      /\ long[n + 1] = c /\ long[n + 2] = i
  BY <1>1, <1>2, <1>4, <1>5, TwoSteps
<1>7. DOMAIN long = 1 .. (n + 2)
  BY <1>6, LenProperties
<1>8. ASSUME NEW k \in 1 .. (n + 2) PROVE long[k] \in 0 .. (2 * Hardened - 1)
  <2>1. k \in 1 .. n \/ k = n + 1 \/ k = n + 2
    BY <1>2
  <2> QED
    BY <1>3, <1>6, <2>1
<1> QED
  BY <1>1, <1>4, <1>7, <1>8 DEF Serializable

(* The key of an offer stays parsable and keeps its place as xpub or tpub. *)
LEMMA StoredKey ==
  ASSUME NEW offer \in Offers, Parsable(offer.key)
  PROVE  /\ Parsable(ToXpub(offer.key))
         /\ ToXpub(offer.key).depth = offer.key.depth
         /\ ToXpub(offer.key).point = offer.key.point
<1>1. offer.key = Exported(offer.key.version, offer.key.point.seed, offer.key.point.path)
  BY OffersAssumption
<1>2. PICK v : v \in {"xpub", "tpub"} /\ ToXpub(offer.key) = [offer.key EXCEPT !.version = v]
  BY DEF ToXpub, WithVersion
<1>3. /\ ToXpub(offer.key).version = v
      /\ ToXpub(offer.key).depth = offer.key.depth
      /\ ToXpub(offer.key).point = offer.key.point
  BY <1>1, <1>2 DEF Exported
<1>4. v \in DOMAIN Versions
  BY <1>2 DEF Versions
<1> QED
  BY <1>3, <1>4 DEF Parsable

(* create_psbt() accepts the metadata of every result, and the extended    *)
(* keys it stores.                                                         *)
THEOREM ResultsAreUsable == Spec => []UsableByPsbt
<1>1. SpendInv => UsableByPsbt
  <2> SUFFICES ASSUME SpendInv, pc = "done" PROVE UsableByPsbt
    BY DEF UsableByPsbt
  <2> DEFINE points == Points(derivations)
             sorted == Points(spend.derivations)
  <2>1. /\ Len(keys) = args.count /\ OneNetwork(networks) /\ IsInjective(points)
        /\ sorted = Sorted(points)
    BY ResultIs
  <2>2. /\ Ordered(LeafPoints) /\ points \in Seq(LeafPoints) /\ Len(points) = Len(keys)
        /\ DOMAIN points = 1 .. Len(keys)
        /\ \A k \in 1 .. Len(keys) : points[k] = LeafPoint(keys[k])
    BY <2>1, PointsOf
  <2>3. /\ Len(keys) \in Nat \ {0} /\ Len(keys) <= 16
        /\ args.threshold \in 1 .. Len(keys)
        /\ args.change \in 0 .. (2 * Hardened - 1)
        /\ args.index \in 0 .. (2 * Hardened - 1)
        /\ DOMAIN xpubs = 1 .. Len(keys)
    BY <2>1, LoopOver, LimitAssumption, KeyAssumption
  <2>4. PICK n : networks = {n}
    BY <2>1, FiniteNetworks
  <2>5. /\ Len(keys) > 1 =>
             /\ spend.witness = P2MS(args.threshold, sorted)
             /\ spend.script = P2WSH(spend.witness)
        /\ Len(keys) <= 1 => /\ spend.witness = NoScript
                             /\ spend.script = P2WPKH(sorted[1])
        /\ spend.xpubs = xpubs
    BY <2>1, <2>4, ResultIs
  <2>6. /\ sorted \in Seq(LeafPoints) /\ Len(sorted) = Len(keys)
        /\ Lists(sorted, Range(points)) /\ IsInjective(sorted)
    <3>1. /\ Sorted(points) \in Seq(LeafPoints) /\ Len(Sorted(points)) = Len(points)
          /\ Lists(Sorted(points), Range(points))
      BY <2>1, <2>2, SortedLists
    <3>2. IsInjective(Sorted(points))
      BY <2>2, <3>1, ListsInjective
    <3> QED
      BY <2>1, <2>2, <3>1, <3>2
  <2>7. Sorted(sorted) = sorted
    <3>1. InOrder(points) \in Orders(Len(points))
      BY <2>2, SortedSorts
    <3>2. Sorted(Arranged(points, InOrder(points))) = Sorted(points)
      BY <2>2, <3>1, SortedOfArranged
    <3> QED
      BY <2>1, <3>2 DEF Sorted
  <2>8. \A k \in 1 .. Len(keys) :
          /\ keys[k] \in Offers /\ Parsable(keys[k].key)
          /\ OnCurve(LeafPoint(keys[k]))
          /\ Serializable(derivations[k].origin)
          /\ derivations[k].point = LeafPoint(keys[k])
          /\ xpubs[k].xpub = ToXpub(keys[k].key)
          /\ Serializable(xpubs[k].origin)
          /\ Len(xpubs[k].origin.path) = keys[k].key.depth
    <3> TAKE k \in 1 .. Len(keys)
    <3>1. PICK origin \in Resolved(keys[k]) :
            /\ keys[k] \in Offers /\ Sound(keys[k])
            /\ origin.path \in Seq(Int)
            /\ Serializable(origin) /\ Len(origin.path) = keys[k].key.depth
            /\ xpubs[k].origin = origin /\ xpubs[k].xpub = ToXpub(keys[k].key)
            /\ derivations[k].point = LeafPoint(keys[k])
            /\ derivations[k].origin =
                 Origin(origin.fingerprint, origin.path \o <<args.change, args.index>>)
            /\ args.change \in Int /\ args.index \in Int
      BY EntryOf
    <3>2. Parsable(keys[k].key)
      BY <3>1 DEF Sound
    <3>3. OnCurve(LeafPoint(keys[k]))
      <4>1. LeafPoint(keys[k]) = Point(keys[k].key.point.seed,
              keys[k].key.point.path \o <<args.change, args.index>>)
        BY <3>1, LeafPath DEF LeafPoint
      <4>2. LeafPoint(keys[k]).seed = keys[k].key.point.seed
        BY <4>1 DEF Point
      <4> QED
        BY <3>2, <4>2 DEF Parsable, OnCurve
    <3>4. Serializable(derivations[k].origin)
      <4>1. derivations[k].origin.path = origin.path \o <<args.change, args.index>>
        BY <3>1 DEF Origin
      <4>2. PICK c, i, o : /\ c = args.change /\ i = args.index
                           /\ o = derivations[k].origin
        OBVIOUS
      <4>3. /\ c \in 0 .. (2 * Hardened - 1) /\ i \in 0 .. (2 * Hardened - 1)
            /\ o.path = origin.path \o <<c, i>>
        BY <2>3, <4>1, <4>2
      <4>4. Serializable(o)
        BY <3>1, <4>3, LongerSerializable
      <4> QED
        BY <4>2, <4>4
    <3> QED
      BY <3>1, <3>2, <3>3, <3>4
  <2>9. /\ DOMAIN spend.derivations = 1 .. Len(keys)
        /\ \A j \in 1 .. Len(keys) :
             \E k \in 1 .. Len(keys) : spend.derivations[j] = derivations[k]
    BY ResultHolds
  <2>10. /\ DOMAIN sorted = 1 .. Len(keys)
         /\ \A j \in 1 .. Len(keys) :
              OnCurve(sorted[j]) /\ Serializable(spend.derivations[j].origin)
    <3>1. /\ DOMAIN sorted = 1 .. Len(keys)
          /\ \A j \in 1 .. Len(keys) : sorted[j] = spend.derivations[j].point
      BY <2>9 DEF Points
    <3> HIDE DEF sorted
    <3>2. ASSUME NEW j \in 1 .. Len(keys)
          PROVE  OnCurve(sorted[j]) /\ Serializable(spend.derivations[j].origin)
      <4>1. PICK k \in 1 .. Len(keys) : spend.derivations[j] = derivations[k]
        BY <2>9
      <4>2. sorted[j] = LeafPoint(keys[k])
        BY <2>8, <3>1, <4>1
      <4> QED
        BY <2>8, <4>1, <4>2
    <3> QED
      BY <3>1, <3>2
  <2> HIDE DEF points, sorted
  <2>11. ~MetadataFault(spend)
    <3>1. sorted # <<>>
      BY <2>3, <2>6
    <3>2. CASE Len(keys) > 1
      <4>1. spend.witness = P2MS(args.threshold, sorted) /\ spend.script = P2WSH(spend.witness)
        BY <2>5, <3>2
      <4>2. spend.witness.m = args.threshold
        BY <4>1 DEF P2MS
      <4>3. spend.witness # NoScript
        BY <2>3, <4>2 DEF NoScript
      <4>4. CanP2MS(spend.witness.m, Len(sorted))
        BY <2>3, <2>6, <4>2 DEF CanP2MS
      <4>5. ~WitnessFault(spend, sorted)
        BY <2>7, <4>1, <4>2, <4>4 DEF WitnessFault
      <4> QED
        BY <2>6, <2>10, <3>1, <4>3, <4>5 DEF MetadataFault, sorted
    <3>3. CASE Len(keys) <= 1
      <4>1. spend.witness = NoScript /\ spend.script = P2WPKH(sorted[1])
        BY <2>5, <3>3
      <4>2. Len(sorted) = 1
        BY <2>3, <2>6, <3>3
      <4>3. ~SingleFault(spend, sorted)
        BY <4>1, <4>2 DEF SingleFault
      <4> QED
        BY <2>6, <2>10, <3>1, <4>1, <4>3 DEF MetadataFault, sorted
    <3> QED
      BY <2>3, <3>2, <3>3
  <2>12. \A x \in Range(spend.xpubs) : \E k \in 1 .. Len(keys) : x = xpubs[k]
    BY <2>3, <2>5 DEF Range
  <2>13. ASSUME NEW x \in Range(spend.xpubs) PROVE ~XpubFault(x)
    <3>1. PICK k \in 1 .. Len(keys) : x = xpubs[k]
      BY <2>12
    <3>2. /\ keys[k] \in Offers /\ Parsable(keys[k].key)
          /\ xpubs[k].xpub = ToXpub(keys[k].key)
          /\ Serializable(xpubs[k].origin)
          /\ Len(xpubs[k].origin.path) = keys[k].key.depth
      BY <2>8
    <3>3. Parsable(x.xpub) /\ x.xpub.depth = keys[k].key.depth
      BY <3>1, <3>2, StoredKey
    <3> QED
      BY <3>1, <3>2, <3>3 DEF XpubFault
  <2>14. ASSUME NEW x \in Range(spend.xpubs), NEW y \in Range(spend.xpubs), x.xpub = y.xpub
         PROVE  x.origin = y.origin
    <3>1. PICK j \in 1 .. Len(keys), k \in 1 .. Len(keys) : x = xpubs[j] /\ y = xpubs[k]
      BY <2>12
    <3>2. keys[j].key.point = keys[k].key.point
      <4>1. ToXpub(keys[j].key) = ToXpub(keys[k].key)
        BY <2>8, <2>14, <3>1
      <4> QED
        BY <2>8, <4>1, StoredKey
    <3>3. LeafPoint(keys[j]) = LeafPoint(keys[k])
      <4>1. PICK c, i : c = args.change /\ i = args.index
        OBVIOUS
      <4>2. c \in Int /\ i \in Int
        BY <2>3, <4>1, KeyAssumption
      <4>3. /\ Leaf(keys[j].key, c, i).point =
                 Point(keys[j].key.point.seed, keys[j].key.point.path \o <<c, i>>)
            /\ Leaf(keys[k].key, c, i).point =
                 Point(keys[k].key.point.seed, keys[k].key.point.path \o <<c, i>>)
        BY <2>8, <4>2, LeafPath
      <4> QED
        BY <3>2, <4>1, <4>3 DEF LeafPoint
    <3>4. j = k
      BY <2>1, <2>2, <3>3 DEF IsInjective
    <3> QED
      BY <3>1, <3>4
  <2>15. ~Conflict({<<XpubKey(x.xpub), x.origin>> : x \in Range(spend.xpubs)})
    BY <2>14 DEF Conflict, XpubKey
  <2> QED
    BY <2>11, <2>13, <2>15 DEF UsableByPsbt
<1> QED
  BY <1>1, SpendInvHolds, PTL
=============================================================================
