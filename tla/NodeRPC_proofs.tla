--------------------------- MODULE NodeRPC_proofs ---------------------------
(***************************************************************************)
(* Proofs about NodeRPC: type correctness; that the short lock around the  *)
(* counter is enough to keep request ids distinct for any number of        *)
(* threads, calls and batch sizes; and that NodeRPC keeps the promise of   *)
(* RpcService.tla: the node executes no request twice, call() and batch()  *)
(* return the answers to their own requests and nothing else, and the      *)
(* client as a whole implements the abstract service.                      *)
(***************************************************************************)
EXTENDS NodeRPC, TLAPS, FiniteSetTheorems

(* What type correctness needs besides TypeOK: a thread inside an          *)
(* operation has begun one, so that Op(t) is an operation and its requests *)
(* are items; and a call is one request.                                   *)
Begun ==
  \A t \in Threads :
    /\ opNo[t] = 0 => pc[t] = "idle" /\ count[t] = 0
    /\ shape[t] = "object" => count[t] <= 1

BodyType == [shape : BodyShapes, entries : Seq(EntryType)]

(* Entries are typed.                                                      *)
LEMMA EntryTyped ==
  ASSUME NEW n \in Nat, NEW int \in BOOLEAN, NEW kind \in Verdicts,
         NEW of \in Items \union {NoItem}
  PROVE  Entry(n, int, kind, of) \in EntryType
BY DEF Entry, EntryType

(* Bodies of typed entries are typed.                                     *)
LEMMA BodyTyped ==
  ASSUME NEW sh \in BodyShapes, NEW es \in Seq(EntryType)
  PROVE  Body(sh, es) \in BodyType
BY DEF Body, BodyType

(* The value of reply before an answer arrives is typed.                   *)
LEMMA NoReplyTyped == NoReply \in BodyType
<1>1. <<>> \in Seq(EntryType) /\ "none" \in BodyShapes
  BY DEF BodyShapes
<1> QED BY <1>1, BodyTyped DEF NoReply

(* Every body a thread can receive is a typed reply.                       *)
LEMMA BodiesTyped ==
  ASSUME TypeOK, Begun, NEW t \in Threads
  PROVE  Bodies(t) \subseteq BodyType
<1>1. \A k \in 1 .. count[t] : opNo[t] \in 1 .. MaxOps /\ <<t, opNo[t], k>> \in Items
  BY BoundsAssumption DEF TypeOK, Begun, Items
<1>2. \A k \in 1 .. count[t] : SentId(t, k) \in Nat
  <2> SUFFICES ASSUME NEW k \in 1 .. count[t] PROVE SentId(t, k) \in Nat
    OBVIOUS
  <2>1. count[t] \in Nat /\ k - 1 \in Nat
    BY BoundsAssumption DEF TypeOK
  <2>2. Op(t) \in Ops
    BY <1>1 DEF Op, Ops
  <2> QED BY <2>1, <2>2 DEF SentId, TypeOK
<1>3. Genuine(t) \subseteq EntryType
  <2> SUFFICES ASSUME NEW k \in Answered(t)
               PROVE  Entry(SentId(t, k), TRUE, verdict[<<t, opNo[t], k>>],
                            <<t, opNo[t], k>>) \in EntryType
    BY DEF Genuine
  <2>1. k \in 1 .. count[t] /\ verdict[<<t, opNo[t], k>>] # "none"
    BY DEF Answered
  <2>2. verdict[<<t, opNo[t], k>>] \in Verdicts
    BY <1>1, <2>1 DEF TypeOK
  <2> QED BY <1>1, <1>2, <2>1, <2>2, EntryTyped
<1>4. Lookalikes(t) \subseteq EntryType /\ Stale(t) \subseteq EntryType
  BY <1>2, EntryTyped DEF Lookalikes, Stale, SentIds, Verdicts
<1>5. CallAnswers \subseteq EntryType
  <2>1. \A i \in Items : OpOf(i) \in Ops
    BY DEF Items, OpOf, Ops
  <2>2. \A i \in Items : requestId[OpOf(i)] \in Nat
    BY <2>1 DEF TypeOK
  <2>3. \A i \in Items : verdict[i] # "none" => verdict[i] \in Verdicts
    BY DEF TypeOK
  <2> QED BY <2>2, <2>3, EntryTyped DEF CallAnswers
<1>6. CallBodies(t) \subseteq BodyType
  <2>1. \A e \in EntryType : <<e>> \in Seq(EntryType)
    OBVIOUS
  <2>2. "object" \in BodyShapes
    BY DEF BodyShapes
  <2> QED BY <1>4, <1>5, <2>1, <2>2, BodyTyped DEF CallBodies
<1>7. BatchBodies(t) \subseteq BodyType
  <2>1. BoundedSeq(Genuine(t) \union Lookalikes(t) \union Stale(t), count[t] + 1)
          \subseteq Seq(EntryType)
    <3>1. \A m \in 0 .. (count[t] + 1) :
            [1 .. m -> Genuine(t) \union Lookalikes(t) \union Stale(t)]
              \subseteq [1 .. m -> EntryType]
      BY <1>3, <1>4
    <3>2. \A m \in 0 .. (count[t] + 1) : [1 .. m -> EntryType] \subseteq Seq(EntryType)
      BY BoundsAssumption DEF TypeOK
    <3> QED BY <3>1, <3>2 DEF BoundedSeq, SeqOf
  <2>2. "array" \in BodyShapes
    BY DEF BodyShapes
  <2> QED BY <2>1, <2>2, BodyTyped DEF BatchBodies
<1>8. \A sh \in BodyShapes :
        Body(sh, <<>>) \in BodyType
  <2>1. <<>> \in Seq(EntryType)
    OBVIOUS
  <2> QED BY <2>1, BodyTyped
<1> QED BY <1>6, <1>7, <1>8 DEF Bodies, BodyShapes

(* Where the control points of a thread lead.                              *)
PCs == {"idle", "acquire", "load", "store", "copy", "post", "wait", "decode"}

(* A step of one thread leaves the control points of the others alone.     *)
LEMMA GotoTyped ==
  ASSUME NEW t \in Threads, pc \in [Threads -> PCs],
         NEW from, NEW to \in PCs, Goto(t, from, to)
  PROVE  pc' \in [Threads -> PCs] /\ pc[t] = from /\ pc'[t] = to
         /\ \A u \in Threads \ {t} : pc'[u] = pc[u]
BY DEF Goto

(* The outcomes the client builds are typed.                               *)
LEMMA OutcomesTyped ==
  /\ Pending \in OutcomeType
  /\ ConnectionError \in OutcomeType
  /\ \A c \in Items \union {NoItem} : RpcError(c) \in OutcomeType
  /\ \A v \in Seq(Items \union {NoItem}) : Ok(v) \in OutcomeType
<1>1. <<>> \in Seq(Items \union {NoItem}) /\ NoItem \in Items \union {NoItem}
  OBVIOUS
<1> QED BY <1>1 DEF Pending, ConnectionError, RpcError, Ok, OutcomeType

(* An accepted reply identifies every request exactly once: as many        *)
(* entries as ids and every id among them leaves no room for a repetition. *)
LEMMA DistinctIds ==
  ASSUME TypeOK, Begun, NEW t \in Threads, Accepted(t)
  PROVE  \A p, q \in DOMAIN Entries(t) : Entries(t)[p].id = Entries(t)[q].id => p = q
<1> DEFINE n == count[t]
           f == [p \in 1 .. n |-> Entries(t)[p].id]
<1>1. n \in Nat /\ Entries(t) \in Seq(EntryType) /\ DOMAIN Entries(t) = 1 .. n
  BY BoundsAssumption DEF Entries, TypeOK, Accepted, SameLength
<1>2. {Entries(t)[p].id : p \in 1 .. n} = ExpectedIds(t)
  BY <1>1 DEF Accepted, SameIds
<1>3. f \in Surjection(1 .. n, ExpectedIds(t))
  BY <1>2 DEF Surjection
<1>4. IsFiniteSet(1 .. n) /\ Cardinality(1 .. n) = n
  BY <1>1, FS_Interval
<1>5. Cardinality(ExpectedIds(t)) = n
  <2>1. CASE shape[t] = "array"
    <3>1. ExpectedIds(t) = 0 .. (n - 1)
      <4>1. ExpectedIds(t) = {k - 1 : k \in 1 .. n}
        BY <2>1 DEF ExpectedIds, ExpectedId, SentId
      <4>2. \A j \in 0 .. (n - 1) : j + 1 \in 1 .. n /\ (j + 1) - 1 = j
        BY <1>1
      <4>3. \A k \in 1 .. n : k - 1 \in 0 .. (n - 1)
        BY <1>1
      <4> QED BY <4>1, <4>2, <4>3
    <3>2. 0 \in Int /\ n - 1 \in Int
      BY <1>1
    <3>3. Cardinality(0 .. (n - 1)) = IF 0 > n - 1 THEN 0 ELSE (n - 1) - 0 + 1
      BY <3>2, FS_Interval
    <3> QED BY <1>1, <3>1, <3>3
  <2>2. CASE shape[t] = "object"
    <3>1. CASE n = 0
      <4>1. ExpectedIds(t) = {}
        BY <3>1 DEF ExpectedIds
      <4> QED BY <3>1, <4>1, FS_EmptySet
    <3>2. CASE n = 1
      <4>1. ExpectedIds(t) = {requestId[Op(t)]}
        BY <2>2, <3>2 DEF ExpectedIds, ExpectedId, SentId
      <4> QED BY <3>2, <4>1, FS_Singleton
    <3> QED BY <1>1, <2>2, <3>1, <3>2 DEF Begun
  <2> QED BY <2>1, <2>2 DEF TypeOK
<1>6. f \in Injection(1 .. n, ExpectedIds(t))
  BY <1>3, <1>4, <1>5, FS_SurjSameCardinalityImpliesInj
<1>7. \A p, q \in 1 .. n : f[p] = f[q] => p = q
  BY <1>6 DEF Injection, IsInjective
<1> QED BY <1>1, <1>7

(* The entry chosen for a request of an accepted reply is one of its       *)
(* entries and carries the id that was sent.                               *)
LEMMA AnswerChosen ==
  ASSUME TypeOK, Begun, NEW t \in Threads, Accepted(t), NEW k \in 1 .. count[t]
  PROVE  \E p \in DOMAIN Entries(t) :
           AnswerTo(t, k) = Entries(t)[p] /\ Entries(t)[p].id = ExpectedId(t, k)
<1>1. PICK p \in DOMAIN Entries(t) : Entries(t)[p].id = ExpectedId(t, k)
  BY DEF Accepted, SameIds, ExpectedIds
<1>2. DOMAIN Entries(t) \subseteq Int
  BY DEF Entries, TypeOK
<1>3. \A q \in DOMAIN Entries(t) : Entries(t)[q].id = ExpectedId(t, k) => q <= p
  BY <1>1, <1>2, DistinctIds
<1> QED BY <1>1, <1>3 DEF AnswerTo

-----------------------------------------------------------------------------
(* Type correctness.                                                       *)

TypeInv == TypeOK /\ Begun

(* The initial states are typed.                                           *)
LEMMA InitType == Init => TypeInv
<1> SUFFICES ASSUME Init PROVE TypeOK /\ Begun
  BY DEF TypeInv
<1>1. Begun
  BY DEF Init, Begun
<1>2. TypeOK
  BY NoReplyTyped, OutcomesTyped, BoundsAssumption DEF Init, TypeOK, BodyType
<1> QED BY <1>1, <1>2

(* Each step keeps the types; one step below per action.                   *)
LEMMA NextType == TypeInv /\ [Next]_vars => TypeInv'
<1> SUFFICES ASSUME TypeOK, Begun, [Next]_vars PROVE TypeOK' /\ Begun'
  BY DEF TypeInv
<1> USE BoundsAssumption
<1>1. ASSUME NEW t \in Threads, NEW to \in PCs, NEW sh \in {"object", "array"},
             NEW n \in 0 .. MaxBatch, NEW o \in OutcomeType,
             sh = "object" => n <= 1, Start(t, to, sh, n, o)
      PROVE  TypeOK' /\ Begun'
  <2>1. opNo[t] + 1 \in 1 .. MaxOps /\ opNo'[t] = opNo[t] + 1
    BY <1>1 DEF Start, TypeOK
  <2>2. TypeOK'
    BY <1>1, <2>1 DEF Start, Goto, TypeOK, clientVars, nodeVars, PCs
  <2>3. Begun'
    BY <1>1, <2>1 DEF Start, Goto, TypeOK, Begun
  <2> QED BY <2>2, <2>3
<1>2. ASSUME NEW t \in Threads, StartCall(t) PROVE TypeOK' /\ Begun'
  BY <1>1, <1>2, OutcomesTyped DEF StartCall, PCs
<1>3. ASSUME NEW t \in Threads, NEW n \in 1 .. MaxBatch, StartBatch(t, n)
      PROVE  TypeOK' /\ Begun'
  BY <1>1, <1>3, OutcomesTyped DEF StartBatch, PCs
<1>4. ASSUME NEW t \in Threads, EmptyBatch(t) PROVE TypeOK' /\ Begun'
  <2>1. <<>> \in Seq(Items \union {NoItem})
    OBVIOUS
  <2>2. Ok(<<>>) \in OutcomeType
    BY <2>1, OutcomesTyped
  <2> QED BY <1>1, <1>4, <2>2 DEF EmptyBatch, PCs
<1>5. ASSUME NEW t \in Threads, Acquire(t) PROVE TypeOK' /\ Begun'
  BY <1>5 DEF Acquire, Goto, TypeOK, Begun, opVars, nodeVars
<1>6. ASSUME NEW t \in Threads, Load(t) PROVE TypeOK' /\ Begun'
  BY <1>6 DEF Load, Goto, TypeOK, Begun, opVars, nodeVars
<1>7. ASSUME NEW t \in Threads, Store(t) PROVE TypeOK' /\ Begun'
  BY <1>7 DEF Store, Incremented, Goto, TypeOK, Begun, opVars, nodeVars
<1>8. ASSUME NEW t \in Threads, CopyId(t) PROVE TypeOK' /\ Begun'
  BY <1>8 DEF CopyId, Goto, TypeOK, Begun, opVars, nodeVars
<1>9. ASSUME NEW t \in Threads, Post(t) PROVE TypeOK' /\ Begun'
  <2>1. OwnSet(t) \subseteq Items
    BY DEF OwnSet, Items, TypeOK, Begun
  <2> QED BY <1>9, <2>1 DEF Post, Goto, TypeOK, Begun, clientVars, opVars
<1>10. ASSUME NEW t \in Threads, Receive(t) PROVE TypeOK' /\ Begun'
  <2>1. PICK b \in Bodies(t) : reply' = [reply EXCEPT ![t] = b]
    BY <1>10 DEF Receive
  <2>2. b \in [shape : BodyShapes, entries : Seq(EntryType)]
    BY <2>1, BodiesTyped DEF BodyType
  <2> QED BY <1>10, <2>1, <2>2 DEF Receive, Goto, TypeOK, Begun, clientVars,
                                  opVars, nodeVars
<1>11. ASSUME NEW t \in Threads, NEW o \in OutcomeType, Finish(t, "idle", o)
       PROVE  TypeOK' /\ Begun'
  <2>1. NoReply \in [shape : BodyShapes, entries : Seq(EntryType)]
    BY NoReplyTyped DEF BodyType
  <2> QED BY <1>11, <2>1 DEF Finish, Goto, TypeOK, Begun, clientVars, opVars,
                            nodeVars
<1>12. ASSUME NEW t \in Threads, ConnectionFails(t) PROVE TypeOK' /\ Begun'
  BY <1>11, <1>12, OutcomesTyped DEF ConnectionFails, AfterBroken
<1>13. ASSUME NEW t \in Threads, Reject(t) PROVE TypeOK' /\ Begun'
  BY <1>11, <1>13, OutcomesTyped DEF Reject
<1>14. \A t \in Threads : Accepted(t) =>
         \A k \in 1 .. count[t] : AnswerTo(t, k).of \in Items \union {NoItem}
  <2>1. \A t \in Threads : \A p \in DOMAIN Entries(t) :
          Entries(t)[p].of \in Items \union {NoItem}
    <3>1. \A t \in Threads : Entries(t) \in Seq(EntryType)
      BY DEF Entries, TypeOK
    <3>2. \A t \in Threads : \A p \in DOMAIN Entries(t) : Entries(t)[p] \in EntryType
      BY <3>1
    <3> QED BY <3>2 DEF EntryType
  <2> QED BY <2>1, AnswerChosen
<1>15. ASSUME NEW t \in Threads, RaiseNodeError(t) PROVE TypeOK' /\ Begun'
  <2>1. PICK k \in 1 .. count[t] :
          Finish(t, "idle", RpcError(IF AnswerTo(t, k).kind = "error"
                                       THEN AnswerTo(t, k).of ELSE NoItem))
    BY <1>15 DEF RaiseNodeError
  <2>2. AnswerTo(t, k).of \in Items \union {NoItem}
    BY <1>14, <1>15 DEF RaiseNodeError
  <2> QED BY <1>11, <2>1, <2>2, OutcomesTyped
<1>16. ASSUME NEW t \in Threads, ReturnResults(t) PROVE TypeOK' /\ Begun'
  <2>1. [k \in 1 .. count[t] |-> AnswerTo(t, k).of] \in Seq(Items \union {NoItem})
    BY <1>14, <1>16 DEF ReturnResults, TypeOK
  <2> QED BY <1>11, <1>16, <2>1, OutcomesTyped DEF ReturnResults
<1>17. ASSUME NEW i \in Items, NEW v \in Verdicts, Execute(i, v)
       PROVE  TypeOK' /\ Begun'
  BY <1>17 DEF Execute, TypeOK, Begun, clientVars, opVars
<1>18. ASSUME NEW o \in Ops, LoseRequest(o) PROVE TypeOK' /\ Begun'
  BY <1>18 DEF LoseRequest, TypeOK, Begun, clientVars, opVars
<1>19. CASE UNCHANGED vars
  BY <1>19 DEF vars, clientVars, opVars, nodeVars, TypeOK, Begun
<1> QED
  BY <1>2, <1>3, <1>4, <1>5, <1>6, <1>7, <1>8, <1>9, <1>10, <1>12, <1>13,
     <1>15, <1>16, <1>17, <1>18, <1>19 DEF Next, Begin, ClientStep

(* The types and Begun hold in every behaviour.                            *)
LEMMA TypeInvariant == Spec => []TypeInv
BY InitType, NextType, PTL DEF Spec

(* Every variable of the client and the node keeps its type.               *)
THEOREM TypeCorrect == Spec => []TypeOK
BY TypeInvariant, PTL DEF TypeInv

-----------------------------------------------------------------------------
(* Request ids.                                                            *)

(* Who may be between `with self._id_lock:` and the end of its block.      *)
Allocating(t) == pc[t] \in {"load", "store", "copy"}

(* UniqueRequestIds is not inductive: it needs that only the holder of the *)
(* lock allocates, that no id in use exceeds the counter, that the value   *)
(* loaded is still the counter's when it is stored, and that the value     *)
(* about to be copied is larger than every id in use.                      *)
IdInv ==
  /\ \A t \in Threads : Allocating(t) => idLock = t
  /\ \A o \in Ops : requestId[o] <= id
  /\ \A t \in Threads : pc[t] = "store" => loaded[t] = id
  /\ \A t \in Threads : pc[t] = "copy" => \A o \in Ops : requestId[o] < id
  /\ UniqueRequestIds

(* Initially no id is in use.                                              *)
LEMMA InitIds == Init => IdInv
BY DEF Init, IdInv, Allocating, UniqueRequestIds

(* A step that neither touches the counter nor enters the lock's block     *)
(* keeps the ids.                                                          *)
LEMMA IdsFrame ==
  ASSUME TypeOK, IdInv, UNCHANGED clientVars,
         \A t \in Threads : Allocating(t)' => pc'[t] = pc[t]
  PROVE  IdInv'
BY DEF IdInv, Allocating, UniqueRequestIds, clientVars

(* Every step keeps the ids below the counter and apart.                   *)
LEMMA NextIds == TypeInv /\ IdInv /\ [Next]_vars => IdInv'
<1> SUFFICES ASSUME TypeOK, Begun, IdInv, [Next]_vars PROVE IdInv'
  BY DEF TypeInv
<1>1. ASSUME NEW t \in Threads, NEW from, NEW to, Goto(t, from, to),
             to \notin {"load", "store", "copy"}, UNCHANGED clientVars
      PROVE  IdInv'
  <2>1. \A u \in Threads : Allocating(u)' => pc'[u] = pc[u]
    BY <1>1 DEF Goto, Allocating, TypeOK
  <2> QED BY <1>1, <2>1, IdsFrame
<1>2. ASSUME NEW t \in Threads, Begin(t) PROVE IdInv'
  BY <1>1, <1>2 DEF Begin, StartCall, StartBatch, EmptyBatch, Start
<1>3. ASSUME NEW t \in Threads, Acquire(t) PROVE IdInv'
  <2>1. \A u \in Threads : ~Allocating(u)
    BY <1>3, NoThreadAssumption DEF Acquire, LockFree, IdInv
  <2> QED BY <1>3, <2>1 DEF Acquire, Goto, IdInv, Allocating, UniqueRequestIds,
                           TypeOK
<1>4. ASSUME NEW t \in Threads, Load(t) PROVE IdInv'
  BY <1>4 DEF Load, Goto, IdInv, Allocating, UniqueRequestIds, TypeOK
<1>5. ASSUME NEW t \in Threads, Store(t) PROVE IdInv'
  <2>1. id' = id + 1 /\ id \in Nat
    BY <1>5 DEF Store, Goto, Incremented, IdInv, TypeOK
  <2>2. \A u \in Threads \ {t} : ~Allocating(u) /\ pc'[u] = pc[u]
    BY <1>5 DEF Store, Goto, Allocating, IdInv, TypeOK
  <2>3. \A o \in Ops : requestId'[o] < id'
    BY <1>5, <2>1 DEF Store, IdInv, TypeOK
  <2> QED BY <1>5, <2>1, <2>2, <2>3 DEF Store, Goto, IdInv, Allocating,
                                       UniqueRequestIds, TypeOK
<1>6. ASSUME NEW t \in Threads, CopyId(t) PROVE IdInv'
  <2>1. Op(t) \in Ops
    BY <1>6 DEF CopyId, Goto, Op, Ops, Begun, TypeOK
  <2>2. \A u \in Threads : ~Allocating(u)'
    BY <1>6 DEF CopyId, Goto, Allocating, IdInv, TypeOK
  <2>3. \A o \in Ops : requestId[o] < id
    BY <1>6 DEF CopyId, Goto, IdInv
  <2>4. requestId' = [requestId EXCEPT ![Op(t)] = id] /\ id' = id
    BY <1>6 DEF CopyId
  <2>5. UniqueRequestIds'
    BY <2>1, <2>3, <2>4 DEF UniqueRequestIds, IdInv, TypeOK
  <2>6. \A o \in Ops : requestId'[o] <= id'
    BY <2>1, <2>3, <2>4 DEF TypeOK
  <2> QED BY <2>2, <2>5, <2>6 DEF IdInv, Allocating
<1>7. ASSUME NEW t \in Threads, Post(t) \/ Receive(t) PROVE IdInv'
  BY <1>1, <1>7 DEF Post, Receive
<1>8. ASSUME NEW t \in Threads,
             ConnectionFails(t) \/ Reject(t) \/ RaiseNodeError(t) \/ ReturnResults(t)
      PROVE  IdInv'
  BY <1>1, <1>8 DEF ConnectionFails, AfterBroken, Reject, RaiseNodeError,
                    ReturnResults, Finish
<1>9. ASSUME UNCHANGED <<clientVars, pc>> PROVE IdInv'
  BY <1>9, IdsFrame
<1>10. ASSUME NEW i \in Items, NEW v \in Verdicts, Execute(i, v) PROVE IdInv'
  BY <1>9, <1>10 DEF Execute
<1>11. ASSUME NEW o \in Ops, LoseRequest(o) PROVE IdInv'
  BY <1>9, <1>11 DEF LoseRequest
<1>12. CASE UNCHANGED vars
  BY <1>9, <1>12 DEF vars
<1> QED
  BY <1>2, <1>3, <1>4, <1>5, <1>6, <1>7, <1>8, <1>10, <1>11, <1>12
     DEF Next, ClientStep

(* No two calls on one client, by any number of threads, ever carry the    *)
(* same request id.                                                        *)
THEOREM RequestIdsUnique == Spec => []UniqueRequestIds
<1>1. Spec => []IdInv
  BY TypeInvariant, InitIds, NextIds, PTL DEF Spec
<1>2. IdInv => UniqueRequestIds
  BY DEF IdInv
<1> QED BY <1>1, <1>2, PTL

-----------------------------------------------------------------------------
(* The node's side.                                                        *)

(* i's operation has not been posted yet.                                  *)
Unposted(i) ==
  \/ i[2] > opNo[i[1]]
  \/ /\ i[2] = opNo[i[1]]
     /\ pc[i[1]] \in {"acquire", "load", "store", "copy", "post"}

(* AtMostOnce is not inductive: it needs that what is still on its way has *)
(* not been executed, and that nothing is on its way or executed before    *)
(* its operation posts it.                                                 *)
NodeInv ==
  /\ \A i \in Items :
       Unposted(i) => i \notin pending /\ applied[i] = 0
  /\ \A i \in pending : applied[i] = 0
  /\ \A i \in Items : applied[i] = 0 <=> verdict[i] = "none"
  /\ AtMostOnce

(* Initially nothing is posted or executed.                                *)
LEMMA InitNode == Init => NodeInv
BY DEF Init, NodeInv, AtMostOnce

(* A step that posts nothing, executes nothing and does not take a posted  *)
(* operation back keeps the node's side.                                   *)
LEMMA NodeFrame ==
  ASSUME NodeInv, UNCHANGED nodeVars, \A i \in Items : Unposted(i)' => Unposted(i)
  PROVE  NodeInv'
BY DEF NodeInv, AtMostOnce, nodeVars

(* Every step keeps the state of the node.                                 *)
LEMMA NextNode == TypeInv /\ NodeInv /\ [Next]_vars => NodeInv'
<1> SUFFICES ASSUME TypeOK, Begun, NodeInv, [Next]_vars PROVE NodeInv'
  BY DEF TypeInv
<1>1. \A i \in Items : i[1] \in Threads /\ i[2] \in 1 .. MaxOps /\ opNo[i[1]] \in Nat
  BY BoundsAssumption DEF Items, TypeOK
<1>2. ASSUME NEW t \in Threads, Begin(t) PROVE NodeInv'
  <2>1. PICK to : /\ pc[t] = "idle" /\ pc' = [pc EXCEPT ![t] = to]
                  /\ opNo' = [opNo EXCEPT ![t] = @ + 1]
                  /\ UNCHANGED nodeVars
    BY <1>2 DEF Begin, StartCall, StartBatch, EmptyBatch, Start, Goto
  <2>2. \A i \in Items : Unposted(i)' => Unposted(i)
    BY <1>1, <2>1 DEF Unposted, TypeOK
  <2> QED BY <2>1, <2>2, NodeFrame
<1>3. ASSUME NEW t \in Threads, NEW from, NEW to, Goto(t, from, to),
             to \in {"load", "store", "copy", "post"} =>
               from \in {"acquire", "load", "store", "copy"},
             to # "acquire", UNCHANGED <<opVars, nodeVars>>
      PROVE  NodeInv'
  <2>1. \A i \in Items : Unposted(i)' => Unposted(i)
    BY <1>1, <1>3 DEF Unposted, Goto, opVars, TypeOK
  <2> QED BY <1>3, <2>1, NodeFrame
<1>4. ASSUME NEW t \in Threads,
             Acquire(t) \/ Load(t) \/ Store(t) \/ CopyId(t) \/ Receive(t)
      PROVE  NodeInv'
  BY <1>3, <1>4 DEF Acquire, Load, Store, CopyId, Receive
<1>5. ASSUME NEW t \in Threads,
             ConnectionFails(t) \/ Reject(t) \/ RaiseNodeError(t) \/ ReturnResults(t)
      PROVE  NodeInv'
  BY <1>3, <1>5 DEF ConnectionFails, AfterBroken, Reject, RaiseNodeError,
                    ReturnResults, Finish
<1>6. ASSUME NEW t \in Threads, Post(t) PROVE NodeInv'
  <2>1. \A i \in OwnSet(t) : i \in Items => Unposted(i) /\ ~Unposted(i)'
    BY <1>6 DEF Post, Goto, OwnSet, Unposted, opVars, TypeOK
  <2>2. \A i \in Items : Unposted(i)' => Unposted(i)
    BY <1>1, <1>6 DEF Post, Goto, Unposted, opVars, TypeOK
  <2>3. OwnSet(t) \subseteq Items
    BY <1>6, BoundsAssumption DEF Post, Goto, OwnSet, Items, TypeOK, Begun
  <2> QED BY <1>6, <2>1, <2>2, <2>3 DEF Post, NodeInv, AtMostOnce
<1>7. ASSUME NEW i \in Items, NEW v \in Verdicts, Execute(i, v) PROVE NodeInv'
  <2>1. \A j \in Items : Unposted(j)' <=> Unposted(j)
    BY <1>7 DEF Execute, Unposted, opVars
  <2>2. applied[i] = 0 /\ 0 + 1 = 1
    BY <1>7 DEF Execute, NodeInv
  <2>3. applied' = [applied EXCEPT ![i] = 1]
    BY <1>7, <2>2 DEF Execute
  <2>4. v # "none" /\ verdict' = [verdict EXCEPT ![i] = v]
    BY <1>7 DEF Execute, Verdicts
  <2> QED BY <1>7, <2>1, <2>3, <2>4 DEF Execute, NodeInv, AtMostOnce, TypeOK
<1>8. ASSUME NEW o \in Ops, LoseRequest(o) PROVE NodeInv'
  <2>1. \A j \in Items : Unposted(j)' <=> Unposted(j)
    BY <1>8 DEF LoseRequest, Unposted, opVars
  <2> QED BY <1>8, <2>1 DEF LoseRequest, NodeInv, AtMostOnce
<1>9. CASE UNCHANGED vars
  BY <1>9, NodeFrame DEF vars, opVars, Unposted
<1> QED
  BY <1>2, <1>4, <1>5, <1>6, <1>7, <1>8, <1>9 DEF Next, ClientStep

(* The node executes no request twice: whatever is lost, late or broken,   *)
(* the client sends a request once.                                        *)
THEOREM ExecutedAtMostOnce == Spec => []AtMostOnce
<1>1. Spec => []NodeInv
  BY TypeInvariant, InitNode, NextNode, PTL DEF Spec
<1>2. NodeInv => AtMostOnce
  BY DEF NodeInv
<1> QED BY <1>1, <1>2, PTL

-----------------------------------------------------------------------------
(* Requests and the ids they carry.                                        *)

(* A call has an id of its own from the end of the locked block on; a      *)
(* batch never has; a call sends its first and only request.               *)
RequestInv ==
  /\ \A t \in Threads :
       pc[t] \in {"acquire", "load", "store", "copy"} =>
         shape[t] = "object" /\ count[t] = 1 /\ requestId[Op(t)] = 0
  /\ \A t \in Threads :
       pc[t] \in {"post", "wait", "decode"} =>
         \/ shape[t] = "object" /\ count[t] = 1 /\ requestId[Op(t)] # 0
         \/ shape[t] = "array" /\ requestId[Op(t)] = 0
  /\ \A o \in Ops : requestId[o] # 0 => o[2] <= opNo[o[1]]
  /\ \A i \in Items :
       requestId[OpOf(i)] # 0 /\ (i \in pending \/ applied[i] # 0) => i[3] = 1

(* Initially no operation has requests.                                    *)
LEMMA InitRequests == Init => RequestInv
BY DEF Init, RequestInv

(* A step of t inside its operation that assigns no id and posts nothing   *)
(* keeps what is known about requests and their ids.                       *)
LEMMA RequestFrame ==
  ASSUME TypeOK, RequestInv, NEW t \in Threads, NEW from, NEW to, Goto(t, from, to),
         UNCHANGED <<requestId, opVars, nodeVars>>,
         to \in {"acquire", "load", "store", "copy"} =>
           from \in {"acquire", "load", "store", "copy"},
         to \in {"post", "wait", "decode"} => from \in {"post", "wait", "decode"}
  PROVE  RequestInv'
<1>1. \A u \in Threads : Op(u)' = Op(u)
  BY DEF Op, opVars
<1> QED BY <1>1 DEF RequestInv, Goto, TypeOK, opVars, nodeVars

(* Every step keeps what is known of the requests.                         *)
LEMMA NextRequests ==
  TypeInv /\ IdInv /\ NodeInv /\ RequestInv /\ [Next]_vars => RequestInv'
<1> SUFFICES ASSUME TypeOK, Begun, IdInv, NodeInv, RequestInv, [Next]_vars
             PROVE  RequestInv'
  BY DEF TypeInv
<1>1. ASSUME NEW t \in Threads, NEW to, NEW sh, NEW n, NEW o, Start(t, to, sh, n, o),
             \/ to = "idle"
             \/ to = "acquire" /\ sh = "object" /\ n = 1
             \/ to = "post" /\ sh = "array"
      PROVE  RequestInv'
  <2>1. opNo[t] \in Nat /\ opNo[t] < MaxOps /\ opNo'[t] = opNo[t] + 1
    BY <1>1, BoundsAssumption DEF Start, TypeOK
  <2>2. Op(t)' \in Ops /\ requestId[Op(t)'] = 0
    <3>1. Op(t)' = <<t, opNo[t] + 1>> /\ opNo[t] + 1 \in 1 .. MaxOps
      BY <2>1, BoundsAssumption DEF Op
    <3>2. ~(opNo[t] + 1 <= opNo[t])
      BY <2>1
    <3> QED BY <3>1, <3>2 DEF Ops, RequestInv
  <2>3. \A u \in Threads \ {t} : /\ pc'[u] = pc[u] /\ Op(u)' = Op(u)
                                 /\ shape'[u] = shape[u] /\ count'[u] = count[u]
    BY <1>1 DEF Start, Goto, Op, TypeOK
  <2>4. pc'[t] = to /\ shape'[t] = sh /\ count'[t] = n
    BY <1>1 DEF Start, Goto, TypeOK
  <2>5. requestId' = requestId /\ pending' = pending /\ applied' = applied
    BY <1>1 DEF Start, clientVars, nodeVars
  <2>6. \A o2 \in Ops : requestId'[o2] # 0 => o2[2] <= opNo'[o2[1]]
    <3>1. \A o2 \in Ops : o2[2] \in Nat /\ o2[1] \in Threads
      BY BoundsAssumption DEF Ops
    <3>2. \A u \in Threads : opNo[u] \in Nat /\ opNo'[u] \in Nat /\ opNo[u] <= opNo'[u]
      BY <1>1, <2>1, BoundsAssumption DEF Start, TypeOK
    <3> QED BY <2>5, <3>1, <3>2 DEF RequestInv
  <2>7. \A u \in Threads :
          pc'[u] \in {"acquire", "load", "store", "copy"} =>
            shape'[u] = "object" /\ count'[u] = 1 /\ requestId'[Op(u)'] = 0
    BY <1>1, <2>2, <2>3, <2>4, <2>5 DEF RequestInv
  <2>8. \A u \in Threads :
          pc'[u] \in {"post", "wait", "decode"} =>
            \/ shape'[u] = "object" /\ count'[u] = 1 /\ requestId'[Op(u)'] # 0
            \/ shape'[u] = "array" /\ requestId'[Op(u)'] = 0
    BY <1>1, <2>2, <2>3, <2>4, <2>5 DEF RequestInv
  <2>9. \A i \in Items :
          requestId'[OpOf(i)] # 0 /\ (i \in pending' \/ applied'[i] # 0) => i[3] = 1
    BY <2>5 DEF RequestInv
  <2> QED BY <2>6, <2>7, <2>8, <2>9 DEF RequestInv
<1>2. ASSUME NEW t \in Threads, Begin(t) PROVE RequestInv'
  BY <1>1, <1>2 DEF Begin, StartCall, StartBatch, EmptyBatch
<1>3. ASSUME NEW t \in Threads, Acquire(t) \/ Load(t) \/ Store(t) \/ Receive(t)
      PROVE  RequestInv'
  BY <1>3, RequestFrame DEF Acquire, Load, Store, Receive, clientVars
<1>4. ASSUME NEW t \in Threads, CopyId(t) PROVE RequestInv'
  <2>1. Op(t) \in Ops /\ id # 0
    <3>1. Op(t) \in Ops
      BY <1>4 DEF CopyId, Goto, Op, Ops, Begun, TypeOK
    <3>2. requestId[Op(t)] < id /\ requestId[Op(t)] \in Nat
      BY <1>4, <3>1 DEF CopyId, Goto, IdInv, TypeOK
    <3> QED BY <3>1, <3>2
  <2>2. shape[t] = "object" /\ count[t] = 1 /\ pc[t] = "copy"
    BY <1>4 DEF CopyId, Goto, RequestInv
  <2>3. \A i \in Items : OpOf(i) = Op(t) => i \notin pending /\ applied[i] = 0
    BY <2>2 DEF OpOf, Op, NodeInv, Unposted
  <2>4. \A u \in Threads : Op(u)' = Op(u) /\ (u # t => Op(u) # Op(t))
    BY <1>4 DEF CopyId, Op, opVars
  <2>5. requestId' = [requestId EXCEPT ![Op(t)] = id] /\ requestId'[Op(t)] # 0
    BY <1>4, <2>1 DEF CopyId, TypeOK
  <2>6. \A o \in Ops : o # Op(t) => requestId'[o] = requestId[o]
    BY <2>5 DEF TypeOK
  <2>7. Op(t)[2] <= opNo[Op(t)[1]]
    BY BoundsAssumption DEF Op, TypeOK
  <2>8. UNCHANGED <<opVars, nodeVars>> /\ pc' = [pc EXCEPT ![t] = "post"]
    BY <1>4 DEF CopyId, Goto
  <2>9. \A o \in Ops : requestId'[o] # 0 => o[2] <= opNo'[o[1]]
    BY <2>6, <2>7, <2>8 DEF RequestInv, opVars
  <2>10. \A i \in Items :
           requestId'[OpOf(i)] # 0 /\ (i \in pending' \/ applied'[i] # 0) => i[3] = 1
    <3>1. \A i \in Items : OpOf(i) \in Ops
      BY DEF Items, OpOf, Ops
    <3> QED BY <2>3, <2>6, <2>8, <3>1 DEF RequestInv, nodeVars
  <2>11. \A u \in Threads \ {t} :
           /\ pc'[u] = pc[u] /\ shape'[u] = shape[u] /\ count'[u] = count[u]
           /\ requestId'[Op(u)'] = requestId[Op(u)] \/ Op(u) \notin Ops
    BY <2>4, <2>6, <2>8 DEF opVars, TypeOK
  <2>12. \A u \in Threads : pc[u] # "idle" => Op(u) \in Ops
    BY DEF Op, Ops, Begun, TypeOK
  <2>13. pc'[t] = "post" /\ shape'[t] = "object" /\ count'[t] = 1
    BY <2>2, <2>8 DEF opVars, TypeOK
  <2> QED BY <2>4, <2>5, <2>9, <2>10, <2>11, <2>12, <2>13 DEF RequestInv
<1>5. ASSUME NEW t \in Threads, Post(t) PROVE RequestInv'
  <2>1. \A i \in OwnSet(t) : OpOf(i) = Op(t) /\ (count[t] = 1 => i[3] = 1)
    BY DEF OwnSet, OpOf, Op
  <2>2. requestId[Op(t)] # 0 => count[t] = 1
    BY <1>5 DEF Post, Goto, RequestInv
  <2>3. \A u \in Threads : Op(u)' = Op(u)
    BY <1>5 DEF Post, Op, opVars
  <2> QED BY <1>5, <2>1, <2>2, <2>3 DEF Post, Goto, RequestInv, clientVars, opVars,
                                       TypeOK
<1>6. ASSUME NEW t \in Threads,
             ConnectionFails(t) \/ Reject(t) \/ RaiseNodeError(t) \/ ReturnResults(t)
      PROVE  RequestInv'
  BY <1>6, RequestFrame DEF ConnectionFails, AfterBroken, Reject, RaiseNodeError,
                            ReturnResults, Finish, clientVars
<1>7. ASSUME NEW i \in Items, NEW v \in Verdicts, Execute(i, v) PROVE RequestInv'
  <2>1. \A u \in Threads : Op(u)' = Op(u)
    BY <1>7 DEF Execute, Op, opVars
  <2> QED BY <1>7, <2>1 DEF Execute, RequestInv, TypeOK, clientVars, opVars
<1>8. ASSUME NEW o \in Ops, LoseRequest(o) PROVE RequestInv'
  <2>1. \A u \in Threads : Op(u)' = Op(u)
    BY <1>8 DEF LoseRequest, Op, opVars
  <2> QED BY <1>8, <2>1 DEF LoseRequest, RequestInv, clientVars, opVars
<1>9. CASE UNCHANGED vars
  <2>1. \A u \in Threads : Op(u)' = Op(u)
    BY <1>9 DEF vars, Op, opVars
  <2> QED BY <1>9, <2>1 DEF vars, RequestInv, clientVars, opVars, nodeVars
<1> QED
  BY <1>2, <1>3, <1>4, <1>5, <1>6, <1>7, <1>8, <1>9 DEF Next, ClientStep

-----------------------------------------------------------------------------
(* Replies.                                                                *)

(* e carries the node's answer to t's k-th request.                        *)
AnswersOwn(t, k, e) ==
  /\ e.id = SentId(t, k)
  /\ e.of = <<t, opNo[t], k>>
  /\ e.kind = verdict[e.of]
  /\ verdict[e.of] # "none"

(* e carries the node's answer to some thread's call.                      *)
AnswersCall(e) ==
  /\ e.of \in Items
  /\ e.id = requestId[OpOf(e.of)]
  /\ requestId[OpOf(e.of)] # 0
  /\ e.kind = verdict[e.of]
  /\ verdict[e.of] # "none"

(* The answers in a body of the expected shape: in a call, whatever has an *)
(* integer id answers a call; in a batch, whatever has an integer id       *)
(* shares it with an answer to this batch.                                 *)
Decodable(t, es) ==
  \A p \in DOMAIN es :
    es[p].int =>
      IF shape[t] = "object"
        THEN AnswersCall(es[p])
        ELSE \E k \in 1 .. count[t], q \in DOMAIN es :
               es[q].id = es[p].id /\ AnswersOwn(t, k, es[q])

(* That is all a reply holds while its thread decodes it.                  *)
ReplyInv ==
  \A t \in Threads :
    pc[t] = "decode" /\ reply[t].shape = shape[t] => Decodable(t, Entries(t))

(* Every body of the expected shape that can arrive for t is one.          *)
LEMMA BodiesDecodable ==
  ASSUME TypeOK, NEW t \in Threads, NEW b \in Bodies(t), b.shape = shape[t]
  PROVE  Decodable(t, b.entries)
<1>1. shape[t] \in {"object", "array"}
  BY DEF TypeOK
<1>2. CASE shape[t] = "object"
  <2>1. b \in CallBodies(t)
    BY <1>2 DEF Bodies, Body
  <2>2. PICK e \in CallAnswers \union Lookalikes(t) : b = Body("object", <<e>>)
    BY <2>1 DEF CallBodies
  <2>3. e.int => AnswersCall(e)
    <3>1. CASE e \in Lookalikes(t)
      BY <3>1 DEF Lookalikes, Entry
    <3>2. CASE e \in CallAnswers
      BY <3>2 DEF CallAnswers, Entry, AnswersCall
    <3> QED BY <2>2, <3>1, <3>2
  <2>4. b.entries = <<e>> /\ DOMAIN <<e>> = {1} /\ <<e>>[1] = e
    BY <2>2 DEF Body
  <2> QED BY <1>2, <2>3, <2>4 DEF Decodable
<1>3. CASE shape[t] = "array"
  <2>1. b \in BatchBodies(t)
    BY <1>3 DEF Bodies, Body
  <2> DEFINE All == Genuine(t) \union Lookalikes(t) \union Stale(t)
  <2>2. PICK es \in BoundedSeq(All, count[t] + 1) :
          /\ b = Body("array", es)
          /\ \A e \in Range(es) \cap Stale(t) :
               \E g \in Range(es) \cap Genuine(t) : g.id = e.id
    BY <2>1 DEF BatchBodies
  <2>3. \A p \in DOMAIN es : es[p] \in All
    BY DEF BoundedSeq, SeqOf
  <2>4. \A e \in Genuine(t) : \E k \in 1 .. count[t] : AnswersOwn(t, k, e)
    <3> SUFFICES ASSUME NEW k \in Answered(t)
                 PROVE  AnswersOwn(t, k, Entry(SentId(t, k), TRUE,
                          verdict[<<t, opNo[t], k>>], <<t, opNo[t], k>>))
      BY DEF Genuine, Answered
    <3> QED BY DEF Answered, Entry, AnswersOwn
  <2>5. \A e \in Lookalikes(t) : ~e.int
    BY DEF Lookalikes, Entry
  <2>6. ASSUME NEW p \in DOMAIN es, es[p].int
        PROVE  \E q \in DOMAIN es : es[q].id = es[p].id /\ es[q] \in Genuine(t)
    <3>1. es[p] \in Range(es)
      BY DEF Range
    <3>2. CASE es[p] \in Genuine(t)
      BY <3>2
    <3>3. CASE es[p] \in Stale(t)
      <4>1. PICK g \in Range(es) \cap Genuine(t) : g.id = es[p].id
        BY <2>2, <3>1, <3>3
      <4>2. PICK q \in DOMAIN es : es[q] = g
        BY <4>1 DEF Range
      <4> QED BY <4>1, <4>2
    <3> QED BY <2>3, <2>5, <2>6, <3>2, <3>3
  <2>7. b.entries = es
    BY <2>2 DEF Body
  <2> QED BY <1>3, <2>4, <2>6, <2>7 DEF Decodable
<1> QED BY <1>1, <1>2, <1>3

(* The node never takes an answer back, and a call never changes its id.   *)
LEMMA AnswersStable ==
  ASSUME TypeInv, IdInv, NodeInv, RequestInv, [Next]_vars
  PROVE  /\ \A i \in Items : verdict[i] # "none" => verdict'[i] = verdict[i]
         /\ \A o \in Ops : requestId[o] # 0 => requestId'[o] = requestId[o]
<1> USE DEF TypeInv
<1>1. CASE verdict' = verdict
  <2>1. CASE requestId' = requestId
    BY <1>1, <2>1
  <2>2. ASSUME NEW t \in Threads, CopyId(t)
        PROVE  \A o \in Ops : requestId[o] # 0 => requestId'[o] = requestId[o]
    <3>1. requestId[Op(t)] = 0
      BY <2>2 DEF CopyId, Goto, RequestInv
    <3> QED BY <2>2, <3>1 DEF CopyId, TypeOK
  <2>3. requestId' = requestId \/ \E t \in Threads : CopyId(t)
    BY DEF Next, Begin, ClientStep, vars, StartCall, StartBatch, EmptyBatch, Start,
           Acquire, Load, Store, Post, Receive, ConnectionFails, Reject,
           RaiseNodeError, ReturnResults, Finish, Execute, LoseRequest, clientVars
  <2> QED BY <1>1, <2>1, <2>2, <2>3
<1>2. ASSUME NEW i \in Items, NEW v \in Verdicts, Execute(i, v)
      PROVE  /\ \A j \in Items : verdict[j] # "none" => verdict'[j] = verdict[j]
             /\ requestId' = requestId
  <2>1. verdict[i] = "none"
    BY <1>2 DEF Execute, NodeInv
  <2> QED BY <1>2, <2>1 DEF Execute, TypeOK, clientVars
<1>3. verdict' = verdict \/ \E i \in Items, v \in Verdicts : Execute(i, v)
  BY DEF Next, Begin, ClientStep, vars, StartCall, StartBatch, EmptyBatch, Start,
         Acquire, Load, Store, CopyId, Post, Receive, ConnectionFails, Reject,
         RaiseNodeError, ReturnResults, Finish, LoseRequest, nodeVars
<1> QED BY <1>1, <1>2, <1>3

(* Initially nobody decodes a reply.                                       *)
LEMMA InitReplies == Init => ReplyInv
BY DEF Init, ReplyInv

(* What a thread goes on decoding stays an answer.                         *)
LEMMA DecodableStable ==
  ASSUME TypeInv, IdInv, NodeInv, RequestInv, [Next]_vars, NEW t \in Threads,
         pc[t] = "decode", NEW es, Decodable(t, es),
         opNo'[t] = opNo[t], shape'[t] = shape[t], count'[t] = count[t]
  PROVE  Decodable(t, es)'
<1> USE DEF TypeInv
<1>1. /\ \A i \in Items : verdict[i] # "none" => verdict'[i] = verdict[i]
      /\ \A o \in Ops : requestId[o] # 0 => requestId'[o] = requestId[o]
  BY AnswersStable
<1>2. CASE shape[t] = "object"
  <2>1. ASSUME NEW e, AnswersCall(e) PROVE AnswersCall(e)'
    <3>1. e.of \in Items /\ OpOf(e.of) \in Ops
      BY <2>1 DEF AnswersCall, Items, OpOf, Ops
    <3> QED BY <1>1, <2>1, <3>1 DEF AnswersCall, OpOf
  <2> QED BY <1>2, <2>1 DEF Decodable
<1>3. CASE shape[t] = "array"
  <2>1. \A k : SentId(t, k)' = k - 1 /\ SentId(t, k) = k - 1
    BY <1>3 DEF SentId
  <2>2. ASSUME NEW k \in 1 .. count[t], NEW e, AnswersOwn(t, k, e)
        PROVE  AnswersOwn(t, k, e)'
    <3>1. <<t, opNo[t], k>> \in Items
      BY BoundsAssumption DEF Items, TypeOK, Begun
    <3> QED BY <1>1, <2>1, <2>2, <3>1 DEF AnswersOwn
  <2> QED BY <1>3, <2>2 DEF Decodable
<1> QED BY <1>2, <1>3 DEF TypeOK

(* A thread that is decoding after a step has just received, or was        *)
(* decoding the same reply before.                                         *)
LEMMA DecodingGoesOn ==
  ASSUME TypeOK, [Next]_vars, NEW t \in Threads, pc'[t] = "decode"
  PROVE  \/ Receive(t)
         \/ /\ pc[t] = "decode"
            /\ reply'[t] = reply[t] /\ opNo'[t] = opNo[t]
            /\ shape'[t] = shape[t] /\ count'[t] = count[t]
<1>1. ASSUME NEW u \in Threads, NEW from, NEW to, to # "decode", Goto(u, from, to)
      PROVE  t # u /\ pc[t] = "decode"
  BY <1>1 DEF Goto, TypeOK
<1>2. ASSUME NEW u \in Threads, Begin(u)
      PROVE  /\ pc[t] = "decode" /\ reply'[t] = reply[t] /\ opNo'[t] = opNo[t]
             /\ shape'[t] = shape[t] /\ count'[t] = count[t]
  <2>1. PICK to, sh, n, o : Start(u, to, sh, n, o) /\ to # "decode"
    BY <1>2 DEF Begin, StartCall, StartBatch, EmptyBatch
  <2>2. t # u /\ pc[t] = "decode"
    BY <1>1, <2>1 DEF Start
  <2> QED BY <2>1, <2>2 DEF Start, TypeOK
<1>3. ASSUME NEW u \in Threads,
             Acquire(u) \/ Load(u) \/ Store(u) \/ CopyId(u) \/ Post(u)
      PROVE  pc[t] = "decode" /\ UNCHANGED <<opVars, reply>>
  BY <1>1, <1>3 DEF Acquire, Load, Store, CopyId, Post
<1>4. ASSUME NEW u \in Threads, NEW o, Finish(u, "idle", o)
      PROVE  pc[t] = "decode" /\ UNCHANGED opVars /\ reply'[t] = reply[t]
  <2>1. t # u /\ pc[t] = "decode"
    BY <1>1, <1>4 DEF Finish
  <2> QED BY <1>4, <2>1 DEF Finish, TypeOK
<1>5. ASSUME NEW u \in Threads,
             ConnectionFails(u) \/ Reject(u) \/ RaiseNodeError(u) \/ ReturnResults(u)
      PROVE  pc[t] = "decode" /\ UNCHANGED opVars /\ reply'[t] = reply[t]
  BY <1>4, <1>5 DEF ConnectionFails, AfterBroken, Reject, RaiseNodeError,
                    ReturnResults
<1>6. ASSUME NEW u \in Threads \ {t}, Receive(u)
      PROVE  pc[t] = "decode" /\ UNCHANGED opVars /\ reply'[t] = reply[t]
  BY <1>6 DEF Receive, Goto, TypeOK
<1>7. ASSUME \/ \E i \in Items, v \in Verdicts : Execute(i, v)
             \/ \E o \in Ops : LoseRequest(o)
             \/ UNCHANGED vars
      PROVE  pc[t] = "decode" /\ UNCHANGED <<opVars, reply>>
  BY <1>7 DEF Execute, LoseRequest, vars
<1> QED
  BY <1>2, <1>3, <1>5, <1>6, <1>7 DEF Next, ClientStep, opVars

(* Every step keeps the replies decodable.                                 *)
LEMMA NextReplies ==
  TypeInv /\ IdInv /\ NodeInv /\ RequestInv /\ ReplyInv /\ [Next]_vars => ReplyInv'
<1> SUFFICES ASSUME TypeInv, IdInv, NodeInv, RequestInv, ReplyInv, [Next]_vars,
                    NEW t \in Threads, pc'[t] = "decode", reply'[t].shape = shape'[t]
             PROVE  Decodable(t, reply[t].entries)'
  BY DEF ReplyInv, Entries
<1> USE DEF TypeInv
<1>1. CASE Receive(t)
  <2>1. PICK b \in Bodies(t) : reply' = [reply EXCEPT ![t] = b]
    BY <1>1 DEF Receive
  <2>2. reply'[t] = b
    BY <2>1 DEF TypeOK
  <2>3. UNCHANGED <<clientVars, opVars, nodeVars>>
    BY <1>1 DEF Receive
  <2>4. Decodable(t, b.entries)
    BY <2>2, <2>3, BodiesDecodable DEF opVars
  <2> QED BY <2>2, <2>3, <2>4 DEF Decodable, AnswersCall, AnswersOwn, SentId, Op,
                                 clientVars, opVars, nodeVars
<1>2. CASE pc[t] = "decode" /\ reply'[t] = reply[t] /\ opNo'[t] = opNo[t]
           /\ shape'[t] = shape[t] /\ count'[t] = count[t]
  <2>1. PICK es : es = reply[t].entries /\ es = reply'[t].entries
    BY <1>2
  <2>2. Decodable(t, es)'
    BY <1>2, <2>1, DecodableStable DEF ReplyInv, Entries
  <2> QED BY <2>1, <2>2
<1> QED BY <1>1, <1>2, DecodingGoesOn

-----------------------------------------------------------------------------
(* Answers.                                                                *)

(* The heart of the correlation: the entry an accepted reply gives for a   *)
(* request is the node's answer to that very request.  For a call because  *)
(* no other call has its id, for a batch because an accepted reply has no  *)
(* room for a second entry with the same id.                               *)
LEMMA AcceptedAnswersOwn ==
  ASSUME TypeInv, IdInv, NodeInv, RequestInv, ReplyInv, NEW t \in Threads,
         pc[t] = "decode", Accepted(t), NEW k \in 1 .. count[t]
  PROVE  /\ AnswerTo(t, k).of = <<t, opNo[t], k>>
         /\ AnswerTo(t, k).kind = verdict[<<t, opNo[t], k>>]
<1> USE DEF TypeInv
<1>1. PICK p \in DOMAIN Entries(t) :
        AnswerTo(t, k) = Entries(t)[p] /\ Entries(t)[p].id = ExpectedId(t, k)
  BY AnswerChosen
<1> DEFINE e == Entries(t)[p]
<1>2. e.int /\ Decodable(t, Entries(t))
  BY <1>1 DEF Accepted, TypedIds, ReplyInv
<1>3. CASE shape[t] = "object"
  <2>1. AnswersCall(e)
    BY <1>1, <1>2, <1>3 DEF Decodable
  <2>2. k = 1
    <3>1. count[t] = 1
      BY <1>3 DEF RequestInv
    <3> QED BY <3>1
  <2>3. e.id = requestId[Op(t)] /\ requestId[Op(t)] # 0
    BY <1>1, <1>3 DEF ExpectedId, SentId, RequestInv
  <2>4. Op(t) \in Ops
    BY DEF Op, Ops, TypeOK, Begun
  <2>5. e.of \in Items /\ OpOf(e.of) \in Ops
    BY <2>1 DEF AnswersCall, Items, OpOf, Ops
  <2>6. OpOf(e.of) = Op(t)
    BY <2>1, <2>3, <2>4, <2>5 DEF AnswersCall, IdInv, UniqueRequestIds
  <2>7. e.of[3] = 1
    BY <2>1, <2>5 DEF AnswersCall, RequestInv, NodeInv
  <2>8. e.of = <<t, opNo[t], k>>
    BY <2>2, <2>5, <2>6, <2>7 DEF Items, OpOf, Op
  <2> QED BY <1>1, <2>1, <2>8 DEF AnswersCall
<1>4. CASE shape[t] = "array"
  <2>1. PICK j \in 1 .. count[t], q \in DOMAIN Entries(t) :
          Entries(t)[q].id = e.id /\ AnswersOwn(t, j, Entries(t)[q])
    BY <1>1, <1>2, <1>4 DEF Decodable
  <2>2. q = p
    BY <1>1, <2>1, DistinctIds
  <2>3. e.id = j - 1 /\ e.id = k - 1
    BY <1>1, <1>4, <2>1, <2>2 DEF AnswersOwn, ExpectedId, SentId
  <2>4. j = k
    BY <2>3
  <2> QED BY <1>1, <2>1, <2>2, <2>4 DEF AnswersOwn
<1> QED BY <1>3, <1>4 DEF TypeOK

(* How t's latest operation ended says the truth about its own requests.   *)
Truthful(t) ==
  /\ outcome[t].tag = "ok" =>
       /\ outcome[t].value = Own(t)
       /\ \A k \in 1 .. count[t] : verdict[<<t, opNo[t], k>>] = "result"
  /\ outcome[t].code # NoItem =>
       \E k \in 1 .. count[t] :
         /\ outcome[t].code = <<t, opNo[t], k>>
         /\ verdict[<<t, opNo[t], k>>] = "error"
         /\ \A j \in 1 .. (k - 1) : verdict[<<t, opNo[t], j>>] = "result"

AnswerInv == \A t \in Threads : Truthful(t)

(* Initially no outcome says anything.                                     *)
LEMMA InitAnswers == Init => AnswerInv
BY DEF Init, AnswerInv, Truthful, Pending

(* The three ways an operation ends are truthful: with the answers, with   *)
(* the first error, or with an outcome that carries neither.               *)
LEMMA ResultsTruthful ==
  ASSUME TypeInv, IdInv, NodeInv, RequestInv, ReplyInv, NEW t \in Threads,
         ReturnResults(t)
  PROVE  /\ outcome'[t] = Ok(Own(t))
         /\ \A k \in 1 .. count[t] : verdict[<<t, opNo[t], k>>] = "result"
<1>1. pc[t] = "decode" /\ Accepted(t)
  BY DEF ReturnResults, Finish, Goto
<1>2. \A k \in 1 .. count[t] :
        /\ AnswerTo(t, k).of = <<t, opNo[t], k>>
        /\ AnswerTo(t, k).kind = verdict[<<t, opNo[t], k>>]
  BY <1>1, AcceptedAnswersOwn
<1>3. [k \in 1 .. count[t] |-> AnswerTo(t, k).of] = Own(t)
  BY <1>2 DEF Own
<1>4. outcome'[t] = Ok([k \in 1 .. count[t] |-> AnswerTo(t, k).of])
  BY DEF ReturnResults, Finish, TypeInv, TypeOK
<1> QED BY <1>2, <1>3, <1>4 DEF ReturnResults

(* A node error is that of the first request that failed.                  *)
LEMMA ErrorTruthful ==
  ASSUME TypeInv, IdInv, NodeInv, RequestInv, ReplyInv, NEW t \in Threads,
         RaiseNodeError(t)
  PROVE  \E k \in 1 .. count[t] :
           /\ \A j \in 1 .. (k - 1) : verdict[<<t, opNo[t], j>>] = "result"
           /\ \/ /\ verdict[<<t, opNo[t], k>>] = "error"
                 /\ outcome'[t] = RpcError(<<t, opNo[t], k>>)
              \/ outcome'[t] = RpcError(NoItem)
<1>1. pc[t] = "decode" /\ Accepted(t)
  BY DEF RaiseNodeError, Finish, Goto
<1>2. \A k \in 1 .. count[t] :
        /\ AnswerTo(t, k).of = <<t, opNo[t], k>>
        /\ AnswerTo(t, k).kind = verdict[<<t, opNo[t], k>>]
  BY <1>1, AcceptedAnswersOwn
<1>3. PICK k \in 1 .. count[t] :
        /\ FirstFailure(t, k)
        /\ Finish(t, "idle", RpcError(IF AnswerTo(t, k).kind = "error"
                                        THEN AnswerTo(t, k).of ELSE NoItem))
  BY DEF RaiseNodeError
<1>4. \A j \in 1 .. (k - 1) : j \in 1 .. count[t]
  BY BoundsAssumption DEF TypeInv, TypeOK
<1>5. \A j \in 1 .. (k - 1) : verdict[<<t, opNo[t], j>>] = "result"
  BY <1>2, <1>3, <1>4 DEF FirstFailure
<1>6. outcome'[t] = RpcError(IF AnswerTo(t, k).kind = "error"
                               THEN AnswerTo(t, k).of ELSE NoItem)
  BY <1>3 DEF Finish, TypeInv, TypeOK
<1> QED BY <1>2, <1>5, <1>6

(* Nothing but the thread itself changes what its outcome speaks of.       *)
LEMMA TruthStable ==
  ASSUME TypeInv, IdInv, NodeInv, RequestInv, [Next]_vars, NEW t \in Threads,
         Truthful(t), outcome'[t] = outcome[t], opNo'[t] = opNo[t],
         count'[t] = count[t]
  PROVE  Truthful(t)'
<1>1. \A k \in 1 .. count[t] :
        verdict[<<t, opNo[t], k>>] # "none" =>
          verdict'[<<t, opNo[t], k>>] = verdict[<<t, opNo[t], k>>]
  <2>1. \A k \in 1 .. count[t] : <<t, opNo[t], k>> \in Items
    BY BoundsAssumption DEF Items, TypeInv, TypeOK, Begun
  <2> QED BY <2>1, AnswersStable
<1>2. Own(t)' = Own(t)
  BY DEF Own
<1>3. \A k \in 1 .. count[t] : \A j \in 1 .. (k - 1) : j \in 1 .. count[t]
  BY BoundsAssumption DEF TypeInv, TypeOK
<1> QED BY <1>1, <1>2, <1>3 DEF Truthful

(* Every step keeps the outcomes truthful.                                 *)
LEMMA NextAnswers ==
  TypeInv /\ IdInv /\ NodeInv /\ RequestInv /\ ReplyInv /\ AnswerInv /\ [Next]_vars
    => AnswerInv'
<1> SUFFICES ASSUME TypeInv, IdInv, NodeInv, RequestInv, ReplyInv, AnswerInv,
                    [Next]_vars, NEW u \in Threads
             PROVE  Truthful(u)'
  BY DEF AnswerInv
<1>1. CASE outcome'[u] = outcome[u] /\ opNo'[u] = opNo[u] /\ count'[u] = count[u]
  BY <1>1, TruthStable DEF AnswerInv
<1>2. ASSUME NEW t \in Threads, NEW to, NEW sh, NEW n, NEW o, Start(t, to, sh, n, o),
             t = u => Truthful(u)'
      PROVE  Truthful(u)'
  BY <1>1, <1>2 DEF Start, TypeInv, TypeOK
<1>3. ASSUME NEW t \in Threads, Begin(t) PROVE Truthful(u)'
  <2>1. ASSUME NEW to, NEW sh, NEW n, Start(t, to, sh, n, Pending) PROVE Truthful(u)'
    <3>1. outcome'[t] = Pending
      BY <2>1 DEF Start, TypeInv, TypeOK
    <3>2. Truthful(t)'
      BY <3>1 DEF Truthful, Pending
    <3> QED BY <1>2, <2>1, <3>2
  <2>2. CASE EmptyBatch(t)
    <3>1. Start(t, "idle", "array", 0, Ok(<<>>))
      BY <2>2 DEF EmptyBatch
    <3>2. outcome'[t] = Ok(<<>>) /\ count'[t] = 0
      BY <3>1 DEF Start, TypeInv, TypeOK
    <3>3. Own(t)' = <<>>
      BY <3>2 DEF Own
    <3>4. Truthful(t)'
      BY <3>2, <3>3 DEF Truthful, Ok
    <3> QED BY <1>2, <3>1, <3>4
  <2>3. CASE StartCall(t)
    BY <2>1, <2>3 DEF StartCall
  <2>4. ASSUME NEW n \in 1 .. MaxBatch, StartBatch(t, n) PROVE Truthful(u)'
    BY <2>1, <2>4 DEF StartBatch
  <2> QED BY <1>3, <2>2, <2>3, <2>4 DEF Begin
<1>4. ASSUME NEW t \in Threads, NEW o, Finish(t, "idle", o), o.tag # "ok",
             o.code = NoItem
      PROVE  Truthful(u)'
  <2>1. CASE u # t
    BY <1>1, <1>4, <2>1 DEF Finish, opVars, TypeInv, TypeOK
  <2>2. CASE u = t
    BY <1>4, <2>2 DEF Finish, Truthful, TypeInv, TypeOK
  <2> QED BY <2>1, <2>2
<1>5. ASSUME NEW t \in Threads, ConnectionFails(t) \/ Reject(t) PROVE Truthful(u)'
  <2>1. PICK o \in {ConnectionError, RpcError(NoItem)} : Finish(t, "idle", o)
    BY <1>5 DEF ConnectionFails, AfterBroken, Reject
  <2>2. o.tag # "ok" /\ o.code = NoItem
    BY <2>1 DEF ConnectionError, RpcError
  <2> QED BY <1>4, <2>1, <2>2
<1>6. ASSUME NEW t \in Threads, RaiseNodeError(t) \/ ReturnResults(t),
             t # u
      PROVE  Truthful(u)'
  <2>1. PICK o : Finish(t, "idle", o)
    BY <1>6 DEF RaiseNodeError, ReturnResults
  <2> QED BY <1>1, <1>6, <2>1 DEF Finish, opVars, TypeInv, TypeOK
<1>7. CASE ReturnResults(u)
  <2>1. /\ outcome'[u] = Ok(Own(u))
        /\ \A k \in 1 .. count[u] : verdict[<<u, opNo[u], k>>] = "result"
    BY <1>7, ResultsTruthful
  <2>2. UNCHANGED <<opNo, count, verdict>> /\ Own(u)' = Own(u)
    BY <1>7 DEF ReturnResults, Finish, opVars, nodeVars, Own
  <2> QED BY <2>1, <2>2 DEF Truthful, Ok
<1>8. CASE RaiseNodeError(u)
  <2>1. PICK k \in 1 .. count[u] :
          /\ \A j \in 1 .. (k - 1) : verdict[<<u, opNo[u], j>>] = "result"
          /\ \/ /\ verdict[<<u, opNo[u], k>>] = "error"
                /\ outcome'[u] = RpcError(<<u, opNo[u], k>>)
             \/ outcome'[u] = RpcError(NoItem)
    BY <1>8, ErrorTruthful
  <2>2. UNCHANGED <<opNo, count, verdict>>
    BY <1>8 DEF RaiseNodeError, Finish, opVars, nodeVars
  <2> QED BY <2>1, <2>2 DEF Truthful, RpcError
<1>9. ASSUME UNCHANGED <<outcome, opVars>> PROVE Truthful(u)'
  BY <1>1, <1>9 DEF opVars
<1>10. ASSUME NEW t \in Threads,
              Acquire(t) \/ Load(t) \/ Store(t) \/ CopyId(t) \/ Post(t) \/ Receive(t)
       PROVE  Truthful(u)'
  BY <1>9, <1>10 DEF Acquire, Load, Store, CopyId, Post, Receive
<1>11. ASSUME \/ \E i \in Items, v \in Verdicts : Execute(i, v)
              \/ \E o \in Ops : LoseRequest(o)
              \/ UNCHANGED vars
       PROVE  Truthful(u)'
  BY <1>9, <1>11 DEF Execute, LoseRequest, vars
<1> QED
  BY <1>3, <1>5, <1>6, <1>7, <1>8, <1>10, <1>11 DEF Next, ClientStep

(* The whole inductive invariant, and what it gives.                       *)
ServiceInv ==
  TypeInv /\ IdInv /\ NodeInv /\ RequestInv /\ ReplyInv /\ AnswerInv

(* All parts of the invariant hold in every behaviour.                     *)
LEMMA ServiceInvariant == Spec => []ServiceInv
<1>1. Init => ServiceInv
  BY InitType, InitIds, InitNode, InitRequests, InitReplies, InitAnswers
     DEF ServiceInv
<1>2. ServiceInv /\ [Next]_vars => ServiceInv'
  BY NextType, NextIds, NextNode, NextRequests, NextReplies, NextAnswers
     DEF ServiceInv
<1> QED BY <1>1, <1>2, PTL DEF Spec

(* What call() and batch() return are the answers to the thread's own      *)
(* latest requests, in request order, for any number of threads, calls and *)
(* requests in a batch, and whatever replies cross, come late or lie.      *)
THEOREM ResultsAreOwn == Spec => []OwnAnswers
<1>1. ServiceInv => OwnAnswers
  BY DEF ServiceInv, AnswerInv, Truthful, OwnAnswers
<1> QED BY <1>1, ServiceInvariant, PTL

(* The error code a call or batch raises is the node's error for the first *)
(* of the thread's own requests that failed.                               *)
THEOREM FirstErrorIsOwn == Spec => []OwnFirstError
<1>1. ServiceInv => OwnFirstError
  BY DEF ServiceInv, AnswerInv, Truthful, OwnFirstError
<1> QED BY <1>1, ServiceInvariant, PTL

-----------------------------------------------------------------------------
(* Refinement.                                                             *)

(* What the service sees of a thread's control: it is inside an operation. *)
Running == [t \in Threads |-> pc[t] # "idle"]

(* How a step of one thread shows in what the service sees.                *)
LEMMA RunningMoves ==
  ASSUME TypeOK, NEW t \in Threads, NEW from, NEW to, Goto(t, from, to)
  PROVE  /\ from # "idle" <=> Running[t]
         /\ to # "idle" => Running' = [Running EXCEPT ![t] = TRUE]
         /\ to = "idle" => Running' = [Running EXCEPT ![t] = FALSE]
         /\ (from = "idle" <=> to = "idle") => Running' = Running
<1>1. pc[t] = from /\ \A u \in Threads : pc'[u] = IF u = t THEN to ELSE pc[u]
  BY DEF Goto, TypeOK
<1>2. Running[t] <=> from # "idle"
  BY <1>1, Zenon DEF Running
<1>3. to # "idle" => Running' = [Running EXCEPT ![t] = TRUE]
  BY <1>1, Zenon DEF Running
<1>4. to = "idle" => Running' = [Running EXCEPT ![t] = FALSE]
  BY <1>1, Zenon DEF Running
<1>5. (from = "idle" <=> to = "idle") => Running' = Running
  BY <1>1, Zenon DEF Running
<1> QED BY <1>2, <1>3, <1>4, <1>5

(* The initial states are those of the service.                            *)
LEMMA InitRefines == Init => Service!Init
<1> SUFFICES ASSUME Init PROVE Service!Init
  OBVIOUS
<1>1. [t \in Threads |-> pc[t] # "idle"] = [t \in Threads |-> FALSE]
  BY Zenon DEF Init
<1> QED BY <1>1, Zenon DEF Init, Service!Init, Items, Service!Items, Pending,
                           Service!Pending, NoItem, Service!NoItem

(* Every step is one of the service or leaves its variables alone.         *)
LEMMA NextRefines == ServiceInv /\ [Next]_vars => [Service!Next]_(Service!vars)
<1> SUFFICES ASSUME ServiceInv, [Next]_vars PROVE [Service!Next]_(Service!vars)
  OBVIOUS
<1> USE DEF ServiceInv
<1>0. TypeOK
  BY DEF TypeInv
<1>1. ASSUME Running' = Running, UNCHANGED <<opNo, count, applied, verdict, outcome>>
      PROVE  UNCHANGED Service!vars
  BY <1>1 DEF Service!vars, Running
<1>2. ASSUME NEW t \in Threads, NEW to, NEW sh, NEW n \in 1 .. MaxBatch, to # "idle",
             Start(t, to, sh, n, Pending)
      PROVE  Service!Begin(t, n)
  <2>1. Goto(t, "idle", to)
    BY <1>2 DEF Start
  <2>2. ~Running[t] /\ Running' = [Running EXCEPT ![t] = TRUE]
    BY <1>0, <1>2, <2>1, RunningMoves
  <2> QED BY <1>2, <2>2, Zenon DEF Start, Service!Begin, Running, nodeVars, Pending,
                                   Service!Pending, NoItem, Service!NoItem
<1>3. ASSUME NEW t \in Threads, EmptyBatch(t) PROVE Service!BeginEmpty(t)
  <2>1. Goto(t, "idle", "idle")
    BY <1>3 DEF EmptyBatch, Start
  <2>2. ~Running[t] /\ Running' = Running
    BY <1>0, <2>1, RunningMoves
  <2> QED BY <1>3, <2>2, Zenon DEF EmptyBatch, Start, Service!BeginEmpty,
                 Running, nodeVars, Ok, Service!Ok, NoItem, Service!NoItem
<1>4. ASSUME NEW t \in Threads, Begin(t) PROVE Service!Next
  <2>1. CASE StartCall(t)
    <3>1. 1 \in 1 .. MaxBatch
      BY BoundsAssumption
    <3>2. Service!Begin(t, 1)
      BY <1>2, <2>1, <3>1 DEF StartCall
    <3> QED BY <3>1, <3>2 DEF Service!Next
  <2>2. ASSUME NEW n \in 1 .. MaxBatch, StartBatch(t, n) PROVE Service!Next
    <3>1. Service!Begin(t, n)
      BY <1>2, <2>2 DEF StartBatch
    <3> QED BY <3>1 DEF Service!Next
  <2>3. CASE EmptyBatch(t)
    BY <1>3, <2>3 DEF Service!Next
  <2> QED BY <1>4, <2>1, <2>2, <2>3 DEF Begin
<1>5. ASSUME NEW t \in Threads,
             Acquire(t) \/ Load(t) \/ Store(t) \/ CopyId(t) \/ Post(t) \/ Receive(t)
      PROVE  UNCHANGED Service!vars
  <2>1. PICK from, to : Goto(t, from, to) /\ from # "idle" /\ to # "idle"
    BY <1>5 DEF Acquire, Load, Store, CopyId, Post, Receive
  <2>2. Running' = Running
    BY <1>0, <2>1, RunningMoves
  <2>3. UNCHANGED <<opVars, applied, verdict, outcome>>
    BY <1>5 DEF Acquire, Load, Store, CopyId, Post, Receive, nodeVars
  <2> QED BY <1>1, <2>2, <2>3 DEF opVars
<1>6. ASSUME NEW t \in Threads, NEW o, Finish(t, "idle", o)
      PROVE  /\ Service!End(t, o)
             /\ outcome'[t] = o
  <2>1. Goto(t, "decode", "idle")
    BY <1>6 DEF Finish
  <2>2. Running[t] /\ Running' = [Running EXCEPT ![t] = FALSE]
    BY <1>0, <2>1, RunningMoves
  <2> QED BY <1>0, <1>6, <2>2, Zenon DEF Finish, Service!End, Running, opVars,
                                        nodeVars, TypeOK
<1>7. ASSUME NEW t \in Threads, NEW o \in {ConnectionError, RpcError(NoItem)},
             Finish(t, "idle", o)
      PROVE  Service!Next
  <2>1. Service!GiveUp(t)
    BY <1>6, <1>7 DEF Service!GiveUp, ConnectionError, Service!ConnectionError,
                      RpcError, Service!RpcError, NoItem, Service!NoItem
  <2> QED BY <2>1 DEF Service!Next
<1>8. ASSUME NEW t \in Threads, ConnectionFails(t) \/ Reject(t) PROVE Service!Next
  BY <1>7, <1>8 DEF ConnectionFails, AfterBroken, Reject
<1>9. ASSUME NEW t \in Threads, ReturnResults(t) PROVE Service!Next
  <2>1. /\ outcome'[t] = Ok(Own(t))
        /\ \A k \in 1 .. count[t] : verdict[<<t, opNo[t], k>>] = "result"
    BY <1>9, ResultsTruthful
  <2>2. PICK o : Finish(t, "idle", o)
    BY <1>9 DEF ReturnResults
  <2>3. Service!End(t, Ok(Own(t)))
    BY <1>6, <2>1, <2>2 DEF Service!End
  <2>4. Service!Own(t) = Own(t)
    BY DEF Service!Own, Own
  <2>5. \A k \in 1 .. count[t] : verdict[Own(t)[k]] = "result"
    BY <2>1 DEF Own
  <2>6. Service!Return(t)
    BY <2>3, <2>4, <2>5 DEF Service!Return, Service!End, Ok, Service!Ok, NoItem,
                            Service!NoItem
  <2> QED BY <2>6 DEF Service!Next
<1>10. ASSUME NEW t \in Threads, RaiseNodeError(t) PROVE Service!Next
  <2>1. PICK k \in 1 .. count[t] :
          /\ \A j \in 1 .. (k - 1) : verdict[<<t, opNo[t], j>>] = "result"
          /\ \/ /\ verdict[<<t, opNo[t], k>>] = "error"
                /\ outcome'[t] = RpcError(<<t, opNo[t], k>>)
             \/ outcome'[t] = RpcError(NoItem)
    BY <1>10, ErrorTruthful
  <2>2. PICK o : Finish(t, "idle", o)
    BY <1>10 DEF RaiseNodeError
  <2>3. o = outcome'[t] /\ Service!End(t, o)
    BY <1>6, <2>2
  <2>4. CASE outcome'[t] = RpcError(NoItem)
    BY <1>7, <2>2, <2>3, <2>4
  <2>5. CASE /\ verdict[<<t, opNo[t], k>>] = "error"
             /\ outcome'[t] = RpcError(<<t, opNo[t], k>>)
    <3>1. \A j \in 1 .. (k - 1) : j \in 1 .. count[t]
      BY <1>0, BoundsAssumption DEF TypeOK
    <3>2. \A j \in 1 .. count[t] : Service!Own(t)[j] = <<t, opNo[t], j>>
      BY DEF Service!Own
    <3>3. Service!End(t, Service!RpcError(Service!Own(t)[k]))
      BY <2>3, <2>5, <3>2 DEF Service!End, RpcError, Service!RpcError
    <3>4. Service!Raise(t)
      BY <2>1, <2>5, <3>1, <3>2, <3>3 DEF Service!Raise
    <3> QED BY <3>4 DEF Service!Next
  <2> QED BY <2>1, <2>4, <2>5
<1>11. ASSUME NEW i \in Items, NEW v \in Verdicts, Execute(i, v) PROVE Service!Next
  <2>1. applied[i] = 0 /\ 0 + 1 = 1
    BY <1>11 DEF Execute, NodeInv
  <2>2. i[2] <= opNo[i[1]]
    <3>1. ~Unposted(i)
      BY <1>11 DEF Execute, NodeInv
    <3>2. i[2] \in Nat /\ opNo[i[1]] \in Nat
      BY <1>0, BoundsAssumption DEF Items, TypeOK
    <3> QED BY <3>1, <3>2 DEF Unposted
  <2>3. Running' = Running
    BY <1>11 DEF Execute, Running
  <2>4. Service!Execute(i, v)
    BY <1>11, <2>1, <2>2, <2>3 DEF Execute, Service!Execute, Running, opVars
  <2>5. i \in Service!Items /\ v \in Service!Verdicts
    BY DEF Items, Service!Items, Verdicts, Service!Verdicts
  <2> QED BY <2>4, <2>5 DEF Service!Next
<1>12. ASSUME (\E o \in Ops : LoseRequest(o)) \/ UNCHANGED vars
       PROVE  UNCHANGED Service!vars
  <2>1. Running' = Running
    BY <1>12 DEF LoseRequest, vars, Running
  <2> QED BY <1>1, <1>12, <2>1 DEF LoseRequest, vars, opVars, nodeVars
<1> QED
  BY <1>4, <1>5, <1>8, <1>9, <1>10, <1>11, <1>12 DEF Next, ClientStep

(* The client with its ids, lock, posts and decoding implements the        *)
(* service of RpcService.tla, for every number of threads and requests.    *)
THEOREM ClientImplementsService == Spec => ServiceSpec
<1>1. Spec => Service!Spec
  BY ServiceInvariant, InitRefines, NextRefines, PTL DEF Spec, Service!Spec
<1> QED BY <1>1 DEF ServiceSpec

-----------------------------------------------------------------------------
(* A genuine reply is honoured.                                            *)

(* A reply made of the answers to all of a thread's requests, in any       *)
(* order, passes every check of the decoder.                               *)
LEMMA GenuineAccepted ==
  ASSUME TypeInv, NEW t \in Threads, FullGenuineReply(t)
  PROVE  /\ Accepted(t)
         /\ \A p \in DOMAIN Entries(t) : Entries(t)[p].kind = "result"
<1> USE DEF TypeInv
<1> DEFINE n     == count[t]
           e(k)  == Entry(SentId(t, k), TRUE, verdict[<<t, opNo[t], k>>],
                          <<t, opNo[t], k>>)
<1>1. n \in Nat /\ IsFiniteSet(1 .. n) /\ Cardinality(1 .. n) = n
  <2>1. n \in Nat
    BY BoundsAssumption DEF TypeOK
  <2> QED BY <2>1, FS_Interval
<1>2. Answered(t) = 1 .. n
  <2>1. Answered(t) \subseteq 1 .. n
    BY DEF Answered
  <2>2. IsFiniteSet(Answered(t)) /\ Cardinality(Answered(t)) <= n
    BY <1>1, <2>1, FS_Subset
  <2> DEFINE f == [k \in Answered(t) |-> e(k)]
  <2>3. f \in Surjection(Answered(t), Genuine(t))
    BY DEF Genuine, Surjection
  <2>4. Cardinality(Genuine(t)) <= Cardinality(Answered(t))
    BY <2>2, <2>3, FS_Surjection
  <2>5. Cardinality(Genuine(t)) = n
    BY DEF FullGenuineReply
  <2>6. Cardinality(Answered(t)) = n
    BY <1>1, <2>2, <2>4, <2>5, FS_CardinalityType
  <2> QED BY <1>1, <2>1, <2>6, FS_Subset
<1>3. \A g \in Genuine(t) : \E k \in 1 .. n : g = e(k)
  BY <1>2 DEF Genuine
<1>4. \A k \in 1 .. n : e(k) \in Genuine(t)
  BY <1>2 DEF Genuine
<1>5. \A k \in 1 .. n : e(k).id = ExpectedId(t, k) /\ e(k).int = TRUE
  BY DEF Entry, ExpectedId
<1>6. \A p \in DOMAIN Entries(t) : Entries(t)[p] \in Genuine(t)
  BY DEF FullGenuineReply, Range
<1>7. \A g \in Genuine(t) : \E p \in DOMAIN Entries(t) : g = Entries(t)[p]
  BY DEF FullGenuineReply, Range
<1>8. TypedIds(t)
  BY <1>3, <1>5, <1>6 DEF TypedIds
<1>9. SameIds(t)
  <2>1. \A p \in DOMAIN Entries(t) : Entries(t)[p].id \in ExpectedIds(t)
    BY <1>3, <1>5, <1>6 DEF ExpectedIds
  <2>2. \A k \in 1 .. n : \E p \in DOMAIN Entries(t) : Entries(t)[p].id = ExpectedId(t, k)
    BY <1>4, <1>5, <1>7
  <2> QED BY <2>1, <2>2 DEF SameIds, ExpectedIds
<1> QED BY <1>6, <1>8, <1>9 DEF Accepted, SameLength, FullGenuineReply

(* A genuine reply without errors is returned.                             *)
LEMMA GenuineReturned ==
  ASSUME TypeInv, [Next]_vars, NEW t \in Threads, pc[t] = "decode",
         pc'[t] # "decode", FullGenuineReply(t)
  PROVE  outcome'[t].tag = "ok"
<1> USE DEF TypeInv
<1>1. /\ Accepted(t)
      /\ \A k \in 1 .. count[t] : AnswerTo(t, k).kind = "result"
  BY GenuineAccepted, AnswerChosen
<1>2. reply[t].shape # "broken"
  BY DEF FullGenuineReply, TypeOK
<1>3. ConnectionFails(t) \/ Reject(t) \/ RaiseNodeError(t) \/ ReturnResults(t)
  <2>1. ASSUME NEW u \in Threads, NEW from, NEW to, Goto(u, from, to), from # "decode"
        PROVE  FALSE
    BY <2>1 DEF Goto, TypeOK
  <2>2. ASSUME NEW u \in Threads, Begin(u) PROVE FALSE
    BY <2>1, <2>2 DEF Begin, StartCall, StartBatch, EmptyBatch, Start
  <2>3. ASSUME NEW u \in Threads,
               \/ Acquire(u) \/ Load(u) \/ Store(u) \/ CopyId(u) \/ Post(u) \/ Receive(u)
        PROVE  FALSE
    BY <2>1, <2>3 DEF Acquire, Load, Store, CopyId, Post, Receive
  <2>4. ASSUME NEW u \in Threads,
               ConnectionFails(u) \/ Reject(u) \/ RaiseNodeError(u) \/ ReturnResults(u)
        PROVE  u = t
    <3>1. PICK to : Goto(u, "decode", to)
      BY <2>4 DEF ConnectionFails, Reject, RaiseNodeError, ReturnResults, Finish
    <3> QED BY <3>1 DEF Goto, TypeOK
  <2>5. ASSUME \/ \E i \in Items, v \in Verdicts : Execute(i, v)
               \/ \E o \in Ops : LoseRequest(o)
               \/ UNCHANGED vars
        PROVE  FALSE
    BY <2>5 DEF Execute, LoseRequest, vars
  <2> QED BY <2>2, <2>3, <2>4, <2>5 DEF Next, ClientStep
<1>4. ReturnResults(t)
  BY <1>1, <1>2, <1>3 DEF ConnectionFails, Reject, RaiseNodeError, FirstFailure
<1>5. outcome'[t] = Ok([k \in 1 .. count[t] |-> AnswerTo(t, k).of])
  BY <1>4 DEF ReturnResults, Finish, TypeOK
<1> QED BY <1>5 DEF Ok

(* A thread whose reply is exactly the answers to its own requests, all    *)
(* results, returns them: nothing other threads did meanwhile to the       *)
(* shared counter can make it reject them.                                 *)
THEOREM GenuineRepliesHonoured == Spec => GenuineReplyHonoured
<1> DEFINE A == \A t \in Threads :
                  pc[t] = "decode" /\ pc'[t] # "decode" /\ FullGenuineReply(t) =>
                    outcome'[t].tag = "ok"
<1>1. TypeInv /\ [Next]_vars => [A]_vars
  BY GenuineReturned
<1>2. Spec => [][A]_vars
  BY <1>1, TypeInvariant, PTL DEF Spec
<1> QED BY <1>2 DEF GenuineReplyHonoured
=============================================================================
