--------------------------- MODULE SpendMetadata ----------------------------
(***************************************************************************)
(* What psbt.py knows of a wallet's script: KeyOrigin, SegwitSpend, the    *)
(* checks of _metadata() and of the global extended keys, and _map().      *)
(***************************************************************************)
EXTENDS HdKeys

Origin(fingerprint, path) == [fingerprint |-> fingerprint, path |-> path]
Extend(origin, steps)     == [origin EXCEPT !.path = @ \o steps]
Serializable(origin) ==
  \A k \in DOMAIN origin.path : origin.path[k] \in 0 .. (2 * Hardened - 1)

(* A spend's derivations are pairs of a public key and its origin, its     *)
(* xpubs pairs of a serialized extended key and its origin.                *)
Spend(address, script, derivations, xpubs, witness) ==
  [address |-> address, script |-> script, derivations |-> derivations,
   xpubs |-> xpubs, witness |-> witness]

Points(derivations) == [k \in DOMAIN derivations |-> derivations[k].point]

-----------------------------------------------------------------------------
(* _metadata(): the checks and the entries of an input or output map.      *)

WitnessFault(spend, points) ==
  \/ spend.script # P2WSH(spend.witness)
  \/ ~CanP2MS(spend.witness.m, Len(points))
  \/ spend.witness # P2MS(spend.witness.m, Sorted(points))

SingleFault(spend, points) ==
  Len(points) # 1 \/ spend.script # P2WPKH(points[1])

MetadataFault(spend) ==
  LET points == Points(spend.derivations)
  IN  \/ points = <<>>
      \/ ~IsInjective(points)
      \/ \E k \in DOMAIN points : ~OnCurve(points[k])
      \/ spend.witness # NoScript /\ WitnessFault(spend, points)
      \/ spend.witness = NoScript /\ SingleFault(spend, points)
      \/ \E k \in DOMAIN points : ~Serializable(spend.derivations[k].origin)

(* Keys of the maps: a type and, for some types, what follows it.          *)
PubkeyKey(type, point) == [type |-> type, point |-> point]
XpubKey(xpub)          == [type |-> 1, xpub |-> xpub]
PlainKey(type)         == [type |-> type]

DerivationType(output) == IF output THEN 2 ELSE 6
WitnessType(output)    == IF output THEN 1 ELSE 5

Metadata(spend, output) ==
  {<<PubkeyKey(DerivationType(output), d.point), d.origin>> :
     d \in Range(spend.derivations)}
  \union IF spend.witness = NoScript THEN {}
         ELSE { <<PlainKey(WitnessType(output)), spend.witness>> }

(* The check on an entry of xpubs, which may be handmade.                  *)
XpubFault(entry) ==
  \/ entry.xpub.depth # Len(entry.origin.path)
  \/ ~Parsable(entry.xpub)
  \/ ~Serializable(entry.origin)

-----------------------------------------------------------------------------
(* _map(): one value per key, or a conflict.  It sorts what it is given,   *)
(* and equal entries are one: entries are a set of pairs.                  *)

PlainDict(entries) == FALSE             \* mutant: the last one wins
Conflict(entries) ==
  \E d, e \in entries : d[1] = e[1] /\ d[2] # e[2]

MapOf(entries) ==
  [key \in {e[1] : e \in entries} |-> (CHOOSE e \in entries : e[1] = key)[2]]
=============================================================================
