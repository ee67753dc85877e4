---------------------------- MODULE HdAccounts ------------------------------
(***************************************************************************)
(* Account and MultisigAccount of src/bitwalkit/hd.py: construction, and a *)
(* run of addresses on one branch, an address per step.                    *)
(***************************************************************************)
EXTENDS HdKeys

CONSTANTS
  Keys,           \* extended keys given to the constructors
  CosignerLimit,  \* 16: most cosigners
  MaxRun          \* bound: length of a run

(* Public keys are byte strings, and byte strings have a total order.      *)
ASSUME OrderAssumption ==
  Ordered({Leaf(key, change, index).point :
             key \in Keys, change \in 0 .. (Hardened - 1), index \in 0 .. (Hardened - 1)})
(* The depth of an extended key is a byte.                                 *)
ASSUME KeysAssumption == \A key \in Keys : DepthFits(key)
ASSUME BoundsAssumption == {CosignerLimit, MaxRun} \subseteq Nat

SingleSig == {"p2pkh", "p2sh-p2wpkh", "p2wpkh", "p2tr"}
Multisig  == {"p2wsh", "p2sh-p2wsh", "p2sh"}

VARIABLES
  pc,             \* "new", "idle", "run", "done", "failed" (addresses() raised
                  \* DerivationError) or the class of a constructor's error
  kind,           \* "single" or "multi"
  keys,           \* self.key as a sequence of one, or self.keys
  type, m, sort,  \* the other attributes; m is 0 for a single key
  ask,            \* change, start and count of the run
  branch,         \* the branch key of Account.addresses(), as a sequence
  run             \* addresses so far

account == <<kind, keys, type, m, sort>>
vars    == <<pc, account, ask, branch, run>>

Init ==
  /\ pc = "new"
  /\ kind \in {"single", "multi"}
  /\ keys = <<>> /\ m = 0 /\ sort = TRUE /\ type = "none"
  /\ ask = [change |-> 0, start |-> 0, count |-> 0]
  /\ branch = <<>> /\ run = <<>>

HintOf(key) == IF Parsable(key) THEN Hint(key) ELSE "none"

(* Account(): "default" is a script type that is not given.                *)
NewAccount ==
  /\ pc = "new" /\ kind = "single"
  /\ \E key \in Keys, given \in {"default", "p2wpkh", "p2wsh"} :
       /\ keys' = <<key>>
       /\ type' = IF given = "default" THEN HintOf(key) ELSE given
       /\ pc' = IF ~Parsable(key) THEN "EncodingError"
                ELSE IF type' \in SingleSig THEN "idle" ELSE "DerivationError"
  /\ UNCHANGED <<kind, m, sort, ask, branch, run>>

AnyCosigners ==
  UNION {[1 .. n -> Keys] : n \in 0 .. (CosignerLimit + 1)}

MOfN(k, n)         == 1 <= k /\ k <= n /\ n <= CosignerLimit

NewMultisig ==
  /\ pc = "new" /\ kind = "multi"
  /\ \E list \in AnyCosigners, given \in {"p2wsh", "p2wpkh"} :
       /\ keys' = list
       /\ type' = given
       /\ m' \in 0 .. (CosignerLimit + 1)
       /\ sort' \in BOOLEAN
       /\ pc' = IF \E k \in DOMAIN list : ~Parsable(list[k]) THEN "EncodingError"
                ELSE IF MOfN(m', Len(list)) /\ given \in Multisig
                THEN "idle" ELSE "DerivationError"
  /\ UNCHANGED <<kind, ask, branch, run>>

(* addresses(change, count, start); a single account derives the branch    *)
(* once for the whole run.                                                 *)
Ask ==
  /\ pc = "idle"
  /\ ask' \in [change : 0 .. Hardened, start : 0 .. Hardened, count : 0 .. MaxRun]
  /\ IF kind = "multi" THEN pc' = "run" /\ UNCHANGED branch
     ELSE IF HasChild(keys[1], ask'.change)
          THEN pc' = "run" /\ branch' = <<Child(keys[1], ask'.change)>>
          ELSE pc' = "failed" /\ UNCHANGED branch
  /\ UNCHANGED <<account, run>>

NextIndex == ask.start + Len(run)

Derivable(index) ==
  \A k \in DOMAIN keys : HasLeaf(keys[k], ask.change, index)

RunSingle ==
  /\ kind = "single"
  /\ IF HasChild(branch[1], NextIndex)
     THEN /\ run' = Append(run, AddressOf(type, Child(branch[1], NextIndex).point,
                                          Network(keys[1])))
          /\ UNCHANGED pc
     ELSE pc' = "failed" /\ UNCHANGED run

RunMulti ==
  /\ kind = "multi"
  /\ IF Derivable(NextIndex)
     THEN /\ run' = Append(run, MultisigAddress(keys, m, type, sort, ask.change, NextIndex))
          /\ UNCHANGED pc
     ELSE pc' = "failed" /\ UNCHANGED run

RunStep ==
  /\ pc = "run" /\ Len(run) < ask.count
  /\ RunSingle \/ RunMulti
  /\ UNCHANGED <<account, ask, branch>>

EndRun ==
  /\ pc = "run" /\ Len(run) = ask.count
  /\ pc' = "done"
  /\ UNCHANGED <<account, ask, branch, run>>

Next == NewAccount \/ NewMultisig \/ Ask \/ RunStep \/ EndRun

Spec == Init /\ [][Next]_vars

-----------------------------------------------------------------------------
(* Properties.                                                             *)

(* The variables have their types, and an account that was constructed has *)
(* a threshold its keys can meet.                                          *)
TypeOK ==
  /\ pc \in {"new", "idle", "run", "done", "failed", "DerivationError", "EncodingError"}
  /\ keys \in Seq(Keys) /\ Len(run) <= ask.count /\ Len(branch) <= 1
  /\ pc \in {"idle", "run", "done"} =>
       IF kind = "single" THEN Len(keys) = 1 /\ type \in SingleSig
       ELSE /\ type \in Multisig
            /\ 1 <= m /\ m <= Len(keys) /\ Len(keys) <= CosignerLimit

SingleAddress(index) ==
  IF kind = "single" THEN AccountAddress(keys[1], type, ask.change, index)
  ELSE MultisigAddress(keys, m, type, sort, ask.change, index)

(* All keys of a list have a child at an index of the branch asked for.    *)
Answers(list, index) == \A k \in DOMAIN list : WithinLimits(list[k], ask.change, index)

(* A run of addresses is what address() gives for one index after the      *)
(* other.  It is complete, or it fails at the first index at which         *)
(* address() fails for a limit of BIP32.  A run of no addresses fails only *)
(* for a single account, whose branch is derived first, and only on a      *)
(* branch without any address.                                             *)
RunsAreSingles ==
  /\ TypeOK
  /\ \A k \in DOMAIN run :
       LET index == ask.start + k - 1
       IN  Answers(keys, index) /\ run[k] = SingleAddress(index)
  /\ pc = "done" => Len(run) = ask.count
  /\ pc = "failed" /\ ask.count # 0 =>
       Len(run) < ask.count /\ ~Answers(keys, ask.start + Len(run))
  /\ pc = "failed" /\ ask.count = 0 =>
       kind = "single" /\ \A index \in 0 .. (Hardened - 1) : ~Answers(keys, index)

Reordered(p) == [k \in DOMAIN keys |-> keys[p[k]]]

(* The cosigners in another order get the addresses so far, and no address *)
(* where this run fails.                                                   *)
SameRun(p) ==
  /\ \A k \in DOMAIN run :
       LET index == ask.start + k - 1
       IN  /\ Answers(Reordered(p), index)
           /\ run[k] = MultisigAddress(Reordered(p), m, type, sort, ask.change, index)
  /\ pc = "failed" => ~Answers(Reordered(p), ask.start + Len(run))

SortedRun == kind = "multi" /\ sort /\ pc \in {"run", "done", "failed"}

(* With sorting on, the addresses of an account do not depend on the order *)
(* its cosigners were given in.                                            *)
CosignerOrderIrrelevant ==
  SortedRun => \A p \in Orders(Len(keys)) : SameRun(p)

(* The same for cosigners of one network: neither the addresses nor the    *)
(* index at which a run fails depend on the order.                         *)
OneNetworkOrderIrrelevant ==
  SortedRun /\ (\A j, k \in DOMAIN keys : Network(keys[j]) = Network(keys[k])) =>
    \A p \in Orders(Len(keys)) : SameRun(p)
=============================================================================
