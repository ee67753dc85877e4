-------------------------- MODULE HdAccounts_proofs --------------------------
(***************************************************************************)
(* Proofs about HdAccounts: a run of addresses is its single addresses,    *)
(* and the order of the cosigners of one network does not matter.          *)
(***************************************************************************)
EXTENDS HdAccounts, HdKeys_proofs

(* What the constructors leave: one key, or cosigners and a threshold.     *)
Constructed ==
  /\ pc \in {"new", "idle", "run", "done", "failed", "DerivationError", "EncodingError"}
  /\ kind \in {"single", "multi"}
  /\ keys \in Seq(Keys) /\ m \in Nat
  /\ pc \in {"idle", "run", "done", "failed"} =>
       IF kind = "single" THEN Len(keys) = 1 /\ type \in SingleSig
       ELSE /\ type \in Multisig
            /\ 1 <= m /\ m <= Len(keys) /\ Len(keys) <= CosignerLimit

(* Where a run stands: it has not begun, or a single account has derived   *)
(* the branch it asks its addresses from.                                  *)
RunBegun ==
  /\ ask \in [change : Nat, start : Nat, count : Nat]
  /\ Len(branch) <= 1
  /\ pc \in {"new", "idle", "EncodingError", "DerivationError"} => run = <<>>
  /\ pc \in {"run", "done"} /\ kind = "single" =>
       branch = <<Child(keys[1], ask.change)>> /\ HasChild(keys[1], ask.change)

(* What a run has given so far, and that it stops at the first index where *)
(* a key has no child, or before it began for want of a branch.            *)
RunGiven ==
  /\ \E S : run \in Seq(S)
  /\ Len(run) <= ask.count
  /\ pc = "done" => Len(run) = ask.count
  /\ \A k \in 1 .. Len(run) : /\ run[k] = SingleAddress(ask.start + k - 1)
                              /\ Derivable(ask.start + k - 1)
  /\ pc = "failed" =>
       \/ Len(run) < ask.count /\ ~Derivable(ask.start + Len(run))
       \/ run = <<>> /\ kind = "single" /\ ~HasChild(keys[1], ask.change)

RunInv == Constructed /\ RunBegun /\ RunGiven

(* An account under construction has no run yet.                           *)
LEMMA InitRun == Init => RunInv
<1> SUFFICES ASSUME Init PROVE RunInv
  OBVIOUS
<1>1. Len(run) = 0 /\ Len(branch) = 0 /\ keys \in Seq(Keys) /\ run \in Seq({})
  BY EmptySeq DEF Init
<1>2. Constructed
  BY <1>1 DEF Init, Constructed
<1>3. RunBegun
  BY <1>1 DEF Init, RunBegun
<1>4. RunGiven
  BY <1>1 DEF Init, RunGiven
<1> QED
  BY <1>2, <1>3, <1>4 DEF RunInv

(* Both constructors: no run has begun, and an account that is accepted    *)
(* has what the checks of its constructor ask for.                         *)
LEMMA NewKeeps ==
  ASSUME RunInv, NewAccount \/ NewMultisig
  PROVE  RunInv'
<1>1. /\ pc = "new" /\ run = <<>>
      /\ UNCHANGED <<kind, ask, branch, run>>
      /\ pc' \in {"idle", "DerivationError", "EncodingError"}
  BY DEF NewAccount, NewMultisig, RunInv, RunBegun
<1>2. Constructed'
  <2>1. CASE NewAccount
    <3>1. PICK key \in Keys : keys' = <<key>>
      BY <2>1 DEF NewAccount
    <3>2. keys' \in Seq(Keys) /\ Len(keys') = 1
      BY <3>1
    <3>3. pc' = "idle" => type' \in SingleSig
      BY <2>1 DEF NewAccount
    <3> QED
      BY <1>1, <2>1, <3>2, <3>3 DEF NewAccount, RunInv, Constructed
  <2>2. CASE NewMultisig
    <3>1. PICK list \in AnyCosigners, given \in {"p2wsh", "p2wpkh"} :
            /\ keys' = list /\ type' = given
            /\ m' \in 0 .. (CosignerLimit + 1)
            /\ pc' = IF \E k \in DOMAIN list : ~Parsable(list[k]) THEN "EncodingError"
                     ELSE IF MOfN(m', Len(list)) /\ given \in Multisig
                     THEN "idle" ELSE "DerivationError"
      BY <2>2 DEF NewMultisig
    <3>2. keys' \in Seq(Keys)
      <4>1. PICK n \in 0 .. (CosignerLimit + 1) : list \in [1 .. n -> Keys]
        BY DEF AnyCosigners
      <4>2. n \in Nat
        BY BoundsAssumption
      <4> QED
        BY <3>1, <4>1, <4>2, SeqDef
    <3>3. pc' = "idle" => /\ type' \in Multisig /\ 1 <= m' /\ m' <= Len(keys')
                          /\ Len(keys') <= CosignerLimit
      BY <3>1 DEF MOfN
    <3>4. kind' = "multi" /\ m' \in Nat
      BY <2>2, <3>1, BoundsAssumption DEF NewMultisig, RunInv, Constructed
    <3> QED
      BY <1>1, <3>2, <3>3, <3>4 DEF Constructed
  <2> QED
    BY <2>1, <2>2
<1>3. RunBegun'
  BY <1>1 DEF RunInv, RunBegun
<1>4. RunGiven'
  <2>1. Len(run) = 0 /\ run' = <<>>
    BY <1>1
  <2>2. Len(run') = 0 /\ run' \in Seq({})
    BY <2>1
  <2> QED
    BY <1>1, <2>1, <2>2 DEF RunInv, RunGiven
<1> QED
  BY <1>2, <1>3, <1>4 DEF RunInv

(* The run begins: nothing is given yet.                                   *)
LEMMA AskKeeps ==
  ASSUME RunInv, Ask
  PROVE  RunInv'
<1>1. /\ pc = "idle" /\ run = <<>> /\ pc' \in {"run", "failed"}
      /\ UNCHANGED <<account, run>>
      /\ Len(branch) <= 1
  BY DEF Ask, RunInv, RunBegun
<1>2. Constructed'
  BY <1>1 DEF RunInv, Constructed, account
<1>3. ask' \in [change : Nat, start : Nat, count : Nat]
  BY KeyAssumption, BoundsAssumption DEF Ask
<1>4. RunBegun'
  <2>1. PICK key : branch' = branch \/ branch' = <<key>>
    BY DEF Ask
  <2>2. Len(branch') <= 1
    <3>1. CASE branch' = branch
      BY <1>1, <3>1
    <3>2. CASE branch' = <<key>>
      BY <3>2
    <3> QED
      BY <2>1, <3>1, <3>2
  <2>3. pc' = "run" /\ kind = "single" =>
          branch' = <<Child(keys[1], ask'.change)>> /\ HasChild(keys[1], ask'.change)
    BY DEF Ask
  <2> QED
    BY <1>1, <1>3, <2>2, <2>3 DEF RunBegun, account
<1>5. RunGiven'
  <2>1. run' = <<>> /\ Len(run') = 0 /\ run' \in Seq({})
    BY <1>1
  <2>2. ask'.count \in Nat
    BY <1>3
  <2>3. pc' = "failed" => kind' = "single" /\ ~HasChild(keys[1], ask.change)'
    <3>1. kind \in {"single", "multi"} /\ kind' = kind /\ keys' = keys
      BY <1>1 DEF RunInv, Constructed, account
    <3> QED
      BY <3>1 DEF Ask
  <2> QED
    BY <1>1, <2>1, <2>2, <2>3 DEF RunGiven
<1> QED
  BY <1>2, <1>4, <1>5 DEF RunInv

(* The address of a single key at an index is made from the branch key a   *)
(* run keeps, and it can be derived where the branch key has that child.   *)
LEMMA BranchKept ==
  ASSUME RunInv, pc = "run", kind = "single", NEW index
  PROVE  /\ HasChild(branch[1], index) <=> Derivable(index)
         /\ SingleAddress(index) =
              AddressOf(type, Child(branch[1], index).point, Network(keys[1]))
<1>1. /\ branch = <<Child(keys[1], ask.change)>> /\ HasChild(keys[1], ask.change)
      /\ keys \in Seq(Keys) /\ Len(keys) = 1
  BY DEF RunInv, RunBegun, Constructed
<1>2. branch[1] = Child(keys[1], ask.change)
  BY <1>1
<1>3. DOMAIN keys = {1}
  BY <1>1, LenProperties
<1>4. Derivable(index) <=> HasLeaf(keys[1], ask.change, index)
  BY <1>3 DEF Derivable
<1>5. HasLeaf(keys[1], ask.change, index) <=> HasChild(branch[1], index)
  BY <1>1, <1>2 DEF HasLeaf
<1> QED
  BY <1>2, <1>4, <1>5 DEF SingleAddress, AccountAddress, Leaf

(* One more address, or the error address() would raise for that index.    *)
LEMMA StepKeeps ==
  ASSUME RunInv, RunStep
  PROVE  RunInv'
<1>1. /\ pc = "run" /\ Len(run) < ask.count
      /\ UNCHANGED <<kind, keys, type, m, sort, ask, branch>>
  BY DEF RunStep, account
<1>2. /\ \E S : run \in Seq(S)
      /\ \A k \in 1 .. Len(run) : /\ run[k] = SingleAddress(ask.start + k - 1)
                                  /\ Derivable(ask.start + k - 1)
      /\ ask.start \in Nat /\ ask.count \in Nat
  BY DEF RunInv, RunGiven, RunBegun
<1>3. Len(run) \in Nat
  BY <1>2, LenProperties
<1>4. \/ /\ run' = Append(run, SingleAddress(NextIndex)) /\ pc' = pc
         /\ Derivable(NextIndex)
      \/ run' = run /\ pc' = "failed" /\ ~Derivable(NextIndex)
  <2>1. CASE RunSingle
    BY <1>1, <2>1, BranchKept DEF RunSingle
  <2>2. CASE RunMulti
    <3>1. kind = "multi" /\ kind # "single"
      BY <2>2 DEF RunMulti
    <3> QED
      BY <2>2, <3>1 DEF RunMulti, SingleAddress
  <2> QED
    BY <2>1, <2>2 DEF RunStep
<1>5. Constructed' /\ RunBegun'
  BY <1>1, <1>4 DEF RunInv, Constructed, RunBegun
<1>6. \A index : /\ SingleAddress(index)' = SingleAddress(index)
                 /\ Derivable(index)' <=> Derivable(index)
  BY <1>1 DEF SingleAddress, Derivable
<1>7. RunGiven'
  <2>1. CASE run' = run /\ pc' = "failed" /\ ~Derivable(NextIndex)
    <3>1. NextIndex = ask.start + Len(run)
      BY DEF NextIndex
    <3> QED
      BY <1>1, <1>2, <1>3, <1>6, <2>1, <3>1 DEF RunGiven
  <2>2. CASE run' = Append(run, SingleAddress(NextIndex)) /\ pc' = pc /\ Derivable(NextIndex)
    <3> DEFINE x == SingleAddress(NextIndex)
               n == Len(run)
    <3>1. /\ \E S : run' \in Seq(S)
          /\ Len(run') = n + 1
          /\ \A k \in 1 .. n : run'[k] = run[k]
          /\ run'[n + 1] = x
      <4> HIDE DEF x
      <4> QED
        BY <1>2, <2>2, Appended DEF x
    <3>2. ask.start + (n + 1) - 1 = NextIndex
      BY <1>2, <1>3 DEF NextIndex
    <3>3. \A k \in 1 .. (n + 1) : /\ run'[k] = SingleAddress(ask.start + k - 1)
                                  /\ Derivable(ask.start + k - 1)
      <4> SUFFICES ASSUME NEW k \in 1 .. (n + 1)
                   PROVE  /\ run'[k] = SingleAddress(ask.start + k - 1)
                          /\ Derivable(ask.start + k - 1)
        OBVIOUS
      <4>1. CASE k = n + 1
        BY <2>2, <3>1, <3>2, <4>1
      <4>2. CASE k # n + 1
        <5>1. k \in 1 .. n
          BY <1>3, <4>2
        <5> QED
          BY <1>2, <3>1, <5>1
      <4> QED
        BY <4>1, <4>2
    <3>4. Len(run') <= ask'.count /\ pc' = "run"
      BY <1>1, <1>2, <1>3, <2>2, <3>1
    <3> HIDE DEF x, n
    <3>5. \A k \in 1 .. Len(run') : /\ run'[k] = SingleAddress(ask.start + k - 1)'
                                    /\ Derivable(ask.start + k - 1)'
      BY <1>1, <1>6, <3>1, <3>3
    <3> QED
      BY <3>1, <3>4, <3>5 DEF RunGiven
  <2> QED
    BY <1>4, <2>1, <2>2
<1> QED
  BY <1>5, <1>7 DEF RunInv

(* The end of a run leaves its addresses as they are.                      *)
LEMMA EndKeeps ==
  ASSUME RunInv, EndRun
  PROVE  RunInv'
<1>1. /\ pc = "run" /\ pc' = "done" /\ Len(run) = ask.count
      /\ UNCHANGED <<kind, keys, type, m, sort, ask, branch, run>>
  BY DEF EndRun, account
<1>2. \A index : /\ SingleAddress(index)' = SingleAddress(index)
                 /\ Derivable(index)' <=> Derivable(index)
  BY <1>1 DEF SingleAddress, Derivable
<1>3. Constructed' /\ RunBegun'
  BY <1>1 DEF RunInv, Constructed, RunBegun
<1>4. RunGiven'
  BY <1>1, <1>2 DEF RunInv, RunGiven
<1> QED
  BY <1>3, <1>4 DEF RunInv

(* The inductive invariant holds in every behaviour.                       *)
LEMMA RunInvHolds == Spec => []RunInv
<1>1. RunInv /\ [Next]_vars => RunInv'
  <2> SUFFICES ASSUME RunInv, [Next]_vars PROVE RunInv'
    OBVIOUS
  <2>1. CASE UNCHANGED vars
    <3>1. UNCHANGED <<pc, kind, keys, type, m, sort, ask, branch, run>>
      BY <2>1 DEF vars, account
    <3>2. \A index : /\ SingleAddress(index)' = SingleAddress(index)
                     /\ Derivable(index)' <=> Derivable(index)
      BY <3>1 DEF SingleAddress, Derivable
    <3> QED
      BY <3>1, <3>2 DEF RunInv, Constructed, RunBegun, RunGiven
  <2> QED
    BY <2>1, NewKeeps, AskKeeps, StepKeeps, EndKeeps DEF Next
<1> QED
  BY <1>1, InitRun, PTL DEF Spec

-----------------------------------------------------------------------------
(* For the keys of an account the guards of child() are the limits of      *)
(* BIP32: the code derives an address where BIP32 has one.                 *)
LEMMA DerivableWithinLimits ==
  ASSUME RunInv, NEW index \in Nat
  PROVE  /\ Derivable(index) <=> Answers(keys, index)
         /\ \A k \in DOMAIN keys : HasLeaf(keys[k], ask.change, index)
                                     <=> WithinLimits(keys[k], ask.change, index)
<1>1. keys \in Seq(Keys) /\ ask.change \in Nat
  BY DEF RunInv, Constructed, RunBegun
<1>2. ASSUME NEW k \in DOMAIN keys
      PROVE  HasLeaf(keys[k], ask.change, index) <=> WithinLimits(keys[k], ask.change, index)
  <2>1. DepthFits(keys[k])
    BY <1>1, <1>2, ElementOfSeq, LenProperties, KeysAssumption
  <2> QED
    BY <1>1, <2>1, LeafLimits
<1> QED
  BY <1>2 DEF Derivable, Answers

(* A run is what address() gives for one index after the other, complete   *)
(* or up to the first index without an address, for any keys, limits and   *)
(* order of points.                                                        *)
THEOREM RunsMatchSingles == Spec => []RunsAreSingles
<1>1. RunInv => RunsAreSingles
  <2> SUFFICES ASSUME RunInv PROVE RunsAreSingles
    OBVIOUS
  <2>1. Len(run) \in Nat /\ DOMAIN run = 1 .. Len(run)
    BY LenProperties DEF RunInv, RunGiven
  <2>2. ask.count \in Nat /\ ask.start \in Nat
    BY DEF RunInv, RunBegun
  <2>3. TypeOK
    BY DEF RunInv, Constructed, RunBegun, RunGiven, TypeOK
  <2>4. ASSUME NEW k \in DOMAIN run
        PROVE  Answers(keys, ask.start + k - 1) /\ run[k] = SingleAddress(ask.start + k - 1)
    <3>1. ask.start + k - 1 \in Nat
      BY <2>1, <2>2
    <3>2. Derivable(ask.start + k - 1) /\ run[k] = SingleAddress(ask.start + k - 1)
      BY <2>1 DEF RunInv, RunGiven
    <3> QED
      BY <3>1, <3>2, DerivableWithinLimits
  <2>5. pc = "done" => Len(run) = ask.count
    BY DEF RunInv, RunGiven
  <2>6. ASSUME pc = "failed", run = <<>>, kind = "single", ~HasChild(keys[1], ask.change)
        PROVE  \A index \in Nat : ~Answers(keys, index)
    <3>1. 1 \in DOMAIN keys
      BY <2>6, LenProperties DEF RunInv, Constructed
    <3>2. \A index \in Nat : ~Derivable(index)
      BY <2>6, <3>1 DEF Derivable, HasLeaf
    <3> QED
      BY <3>2, DerivableWithinLimits
  <2>7. ASSUME pc = "failed", ask.count # 0
        PROVE  Len(run) < ask.count /\ ~Answers(keys, ask.start + Len(run))
    <3>1. ask.start + Len(run) \in Nat
      BY <2>1, <2>2
    <3>2. CASE Len(run) < ask.count /\ ~Derivable(ask.start + Len(run))
      BY <3>1, <3>2, DerivableWithinLimits
    <3>3. CASE run = <<>> /\ kind = "single" /\ ~HasChild(keys[1], ask.change)
      <4>1. Len(run) = 0
        BY <3>3
      <4> QED
        BY <2>2, <2>6, <2>7, <3>1, <3>3, <4>1
    <3> QED
      BY <2>7, <3>2, <3>3 DEF RunInv, RunGiven
  <2>8. ASSUME pc = "failed", ask.count = 0
        PROVE  kind = "single" /\ \A index \in 0 .. (Hardened - 1) : ~Answers(keys, index)
    <3>1. ~(Len(run) < ask.count)
      BY <2>1, <2>8
    <3>2. run = <<>> /\ kind = "single" /\ ~HasChild(keys[1], ask.change)
      BY <2>8, <3>1 DEF RunInv, RunGiven
    <3>3. 0 .. (Hardened - 1) \subseteq Nat
      BY KeyAssumption
    <3> QED
      BY <2>6, <2>8, <3>2, <3>3
  <2> QED
    BY <2>3, <2>4, <2>5, <2>7, <2>8 DEF RunsAreSingles
<1> QED
  BY <1>1, RunInvHolds, PTL

-----------------------------------------------------------------------------
(* The points an account can derive for its addresses.                     *)
LeafPoints == {Leaf(key, change, index).point :
                 key \in Keys, change \in 0 .. (Hardened - 1), index \in 0 .. (Hardened - 1)}

LeavesOf(list, change, index) ==
  [k \in DOMAIN list |-> Leaf(list[k], change, index).point]

(* Where every cosigner has the child, reordering the cosigners reorders   *)
(* their points, and sorting undoes that.                                  *)
LEMMA SameCosigners ==
  ASSUME NEW list \in Seq(Keys), list # <<>>, NEW p \in Orders(Len(list)),
         NEW change \in Nat, NEW index \in Nat,
         \A k \in DOMAIN list : HasLeaf(list[k], change, index)
  PROVE  Sorted(LeavesOf(Arranged(list, p), change, index))
           = Sorted(LeavesOf(list, change, index))
<1> DEFINE n == Len(list)
           points == LeavesOf(list, change, index)
           moved == Arranged(list, p)
           others == LeavesOf(moved, change, index)
<1>1. n \in Nat /\ n # 0 /\ DOMAIN list = 1 .. n /\ \A k \in 1 .. n : list[k] \in Keys
  BY LenProperties, ElementOfSeq, EmptySeq
<1>2. DOMAIN moved = 1 .. n /\ \A k \in 1 .. n : p[k] \in 1 .. n /\ moved[k] = list[p[k]]
  BY ArrangedTyped
<1>3. change \in 0 .. (Hardened - 1) /\ index \in 0 .. (Hardened - 1)
  <2>1. 1 \in DOMAIN list
    BY <1>1
  <2>2. change < Hardened /\ index < Hardened
    BY <2>1 DEF HasLeaf, HasChild
  <2> QED
    BY <2>2, KeyAssumption
<1>4. points \in [1 .. n -> LeafPoints]
  BY <1>1, <1>3 DEF LeafPoints, LeavesOf
<1>5. points \in Seq(LeafPoints)
  BY <1>1, <1>4, SeqDef
<1>6. Len(points) = n
  BY <1>1, <1>4, <1>5, LenProperties
<1>7. others = Arranged(points, p)
  BY <1>1, <1>2 DEF Arranged, LeavesOf
<1>8. Ordered(LeafPoints)
  BY OrderAssumption DEF LeafPoints
<1> HIDE DEF points, others, moved, n
<1>9. Sorted(others) = Sorted(points)
  BY <1>5, <1>6, <1>7, <1>8, SortedOfArranged DEF n
<1> QED
  BY <1>9 DEF points, others, moved

(* Cosigners in another order have an address where they had one, and only *)
(* there.                                                                  *)
LEMMA SameAnswers ==
  ASSUME RunInv, NEW p \in Orders(Len(keys)), NEW index
  PROVE  Answers(Reordered(p), index) <=> Answers(keys, index)
<1>1. Len(keys) \in Nat /\ DOMAIN keys = 1 .. Len(keys)
  BY LenProperties DEF RunInv, Constructed
<1>2. /\ \A k \in DOMAIN keys : p[k] \in DOMAIN keys
      /\ \A k \in DOMAIN keys : \E j \in DOMAIN keys : p[j] = k
  <2>1. /\ \A k \in 1 .. Len(keys) : p[k] \in 1 .. Len(keys)
        /\ \A k \in 1 .. Len(keys) : \E j \in 1 .. Len(keys) : p[j] = k
    BY <1>1, OrdersBijective
  <2> QED
    BY <1>1, <2>1
<1>3. DOMAIN Reordered(p) = DOMAIN keys /\ \A k \in DOMAIN keys : Reordered(p)[k] = keys[p[k]]
  BY DEF Reordered
<1>4. ASSUME Answers(keys, index) PROVE Answers(Reordered(p), index)
  BY <1>2, <1>3, <1>4 DEF Answers
<1>5. ASSUME Answers(Reordered(p), index), NEW k \in DOMAIN keys
      PROVE  WithinLimits(keys[k], ask.change, index)
  <2>1. PICK j \in DOMAIN keys : p[j] = k
    BY <1>2
  <2>2. WithinLimits(Reordered(p)[j], ask.change, index)
    BY <1>3, <1>5, <2>1 DEF Answers
  <2> QED
    BY <1>3, <2>1, <2>2
<1> QED
  BY <1>4, <1>5 DEF Answers

(* With sorting on, the order in which cosigners of one network are given  *)
(* shows neither in an address nor in where a run fails, for any keys and  *)
(* any number of cosigners, with repeated keys too.                        *)
THEOREM OrderIrrelevant == Spec => []OneNetworkOrderIrrelevant
<1>1. RunInv => OneNetworkOrderIrrelevant
  <2> SUFFICES ASSUME RunInv, pc \in {"run", "done", "failed"}, kind = "multi", sort,
                      \A j, k \in DOMAIN keys : Network(keys[j]) = Network(keys[k]),
                      NEW p \in Orders(Len(keys))
               PROVE  SameRun(p)
    BY DEF OneNetworkOrderIrrelevant, SortedRun
  <2>1. /\ keys \in Seq(Keys) /\ keys # <<>>
        /\ Len(keys) \in Nat /\ Len(keys) > 0 /\ DOMAIN keys = 1 .. Len(keys)
    <3>1. keys \in Seq(Keys) /\ m \in Nat /\ 1 <= m /\ m <= Len(keys)
      BY DEF RunInv, Constructed
    <3> QED
      BY <3>1, LenProperties, EmptySeq
  <2>2. Len(run) \in Nat /\ DOMAIN run = 1 .. Len(run)
    BY LenProperties DEF RunInv, RunGiven
  <2>3. \A k \in DOMAIN run : /\ run[k] = SingleAddress(ask.start + k - 1)
                              /\ Derivable(ask.start + k - 1)
    BY <2>2 DEF RunInv, RunGiven
  <2>4. ask.count \in Nat /\ ask.start \in Nat /\ ask.change \in Nat
    BY DEF RunInv, RunBegun
  <2>5. Reordered(p) = Arranged(keys, p)
    BY DEF Reordered, Arranged
  <2>6. Network(Reordered(p)[1]) = Network(keys[1])
    <3>1. p[1] \in 1 .. Len(keys) /\ Reordered(p)[1] = keys[p[1]]
      BY <2>1, <2>5, ArrangedTyped
    <3> QED
      BY <2>1, <3>1
  <2>7. ASSUME NEW k \in DOMAIN run
        PROVE  /\ Answers(Reordered(p), ask.start + k - 1)
               /\ run[k] = MultisigAddress(Reordered(p), m, type, sort, ask.change, ask.start + k - 1)
    <3> DEFINE index == ask.start + k - 1
    <3>1. index \in Nat
      BY <2>2, <2>4
    <3>2. run[k] = SingleAddress(index) /\ Derivable(index)
      BY <2>3
    <3> HIDE DEF index
    <3>3. run[k] = MultisigAddress(keys, m, type, sort, ask.change, index)
      BY <3>2 DEF SingleAddress
    <3>4. \A j \in DOMAIN keys : HasLeaf(keys[j], ask.change, index)
      BY <3>2 DEF Derivable
    <3>5. Cosigners(Reordered(p), sort, ask.change, index)
            = Cosigners(keys, sort, ask.change, index)
      <4>1. Sorted(LeavesOf(Reordered(p), ask.change, index))
              = Sorted(LeavesOf(keys, ask.change, index))
        <5> DEFINE c == ask.change
        <5>1. c \in Nat /\ \A j \in DOMAIN keys : HasLeaf(keys[j], c, index)
          BY <2>4, <3>4
        <5> HIDE DEF c
        <5>2. Sorted(LeavesOf(Arranged(keys, p), c, index)) = Sorted(LeavesOf(keys, c, index))
          BY <2>1, <3>1, <5>1, SameCosigners
        <5> QED
          BY <2>5, <5>2 DEF c
      <4>2. \A list : Cosigners(list, sort, ask.change, index)
                        = Sorted(LeavesOf(list, ask.change, index))
        BY DEF Cosigners, LeavesOf
      <4> QED
        BY <4>1, <4>2
    <3>6. Answers(Reordered(p), index)
      BY <3>1, <3>2, DerivableWithinLimits, SameAnswers
    <3> QED
      BY <2>6, <3>3, <3>5, <3>6 DEF MultisigAddress, index
  <2>8. ASSUME pc = "failed" PROVE ~Answers(Reordered(p), ask.start + Len(run))
    <3>1. ask.start + Len(run) \in Nat
      BY <2>2, <2>4
    <3>2. ~Derivable(ask.start + Len(run))
      BY <2>8 DEF RunInv, RunGiven
    <3> QED
      BY <3>1, <3>2, DerivableWithinLimits, SameAnswers
  <2> QED
    BY <2>7, <2>8 DEF SameRun
<1> QED
  BY <1>1, RunInvHolds, PTL
=============================================================================
