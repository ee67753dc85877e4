------------------------------ MODULE PsbtMaps ------------------------------
(***************************************************************************)
(* The maps of a PSBT as create_psbt() writes them, and a signer that      *)
(* reads the file entry by entry (BIP 174).  In PsbtBuilder a map is a     *)
(* function; here it is bytes that must be taken apart again.              *)
(***************************************************************************)
EXTENDS PsbtBytes

CONSTANTS Offered     \* the entry lists on offer: sequences of <<key, value>>
CONSTANTS MostMaps  \* bound: maps of a file

VARIABLES
  lists,            \* the entries of each map, in the order they are added
  file,
  at,               \* bytes the signer has read
  found             \* the maps it has found, the last one incomplete

vars == <<lists, file, at, found>>

NoEntry == [key \in {} |-> <<>>]

Init ==
  /\ lists \in UNION {[1 .. n -> Offered] : n \in 1 .. MostMaps}
  /\ file = File(lists)
  /\ at = Len(Magic)
  /\ found = <<NoEntry>>

(* The signer.  Past the end of the file it reads zeros.                   *)
Bytes(i, j) == [k \in 1 .. j - i |-> IF i + k <= Len(file) THEN file[i + k] ELSE 0]
Size(i) ==
  LET first == Bytes(i, i + 1)[1]
      form  == first - (Base - 4)
      low   == Bytes(i + 1, i + 1 + Width[form])
  IN  IF form <= 0 THEN [value |-> first, next |-> i + 1]
      ELSE [value |-> FoldRight(LAMBDA b, n : b + Base * n, low, 0), next |-> i + 1 + Width[form]]

ReadEntry ==
  /\ at < Len(file)
  /\ LET key   == Size(at)
         value == Size(key.next + key.value)
     IN  /\ key.value # 0
         /\ at' = value.next + value.value
         /\ found' = [found EXCEPT ![Len(found)] =
              [k \in DOMAIN @ \cup {Bytes(key.next, key.next + key.value)} |->
                 IF k \in DOMAIN @ THEN @[k] ELSE Bytes(value.next, at')]]
  /\ UNCHANGED <<lists, file>>

EndMap ==
  /\ at < Len(file)
  /\ file[at + 1] = 0
  /\ at' = at + 1
  /\ found' = Append(found, NoEntry)
  /\ UNCHANGED <<lists, file>>

Finished == at = Len(file) /\ UNCHANGED vars

Next == ReadEntry \/ EndMap \/ Finished

Spec == Init /\ [][Next]_vars

-----------------------------------------------------------------------------
AsMap(entries) == [key \in KeysOf(entries) |-> ValueOf(entries, key)]

(* The signer finds the maps that were written, each where it belongs: an  *)
(* entry never ends early, swallows the next one or is taken for the end   *)
(* of its map, whatever the lengths of keys and values.                    *)
MapsReadBack ==
  /\ at <= Len(file)
  /\ at = Len(file) => found = Append([k \in DOMAIN lists |-> AsMap(lists[k])], NoEntry)
  /\ at < Len(file) => Len(found) <= Len(lists)

(* The file is a function of what is declared: the order in which entries  *)
(* were added, and entries added twice, do not show.                       *)
OneFile ==
  at = Len(Magic) =>
    \A k \in DOMAIN lists : \A other \in Offered :
      AsMap(other) = AsMap(lists[k]) => MapBytes(other) = MapBytes(lists[k])
=============================================================================
