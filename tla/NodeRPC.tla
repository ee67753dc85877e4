------------------------------ MODULE NodeRPC -------------------------------
(***************************************************************************)
(* The JSON-RPC client of src/bitwalkit/rpc.py: one NodeRPC object shared  *)
(* by several threads, the node it posts to, and the HTTP exchange between *)
(* them.                                                                   *)
(*                                                                         *)
(* A thread runs call() (directly or through an attribute proxy) or        *)
(* batch().  call() takes a request id from the counter the threads share, *)
(* under _id_lock; batch() numbers its requests 0 .. n-1 by itself.  Both  *)
(* then post, wait without any lock, and check what came back against the  *)
(* ids they sent.  A request is an item <<thread, operation, position>>;   *)
(* an entry of a reply names the item whose answer it carries.             *)
(***************************************************************************)
EXTENDS Integers, Sequences, FiniteSets, SequencesExt

CONSTANTS
  Threads,      \* threads sharing the client
  Hung,         \* threads whose HTTP exchange may never end: urllib's timeout
                \* bounds each socket operation, not the whole exchange
  NoThread,     \* nobody holds the lock
  MaxOps,       \* bound: operations a thread begins
  MaxBatch      \* bound: requests in one batch

ASSUME HungAssumption     == Hung \subseteq Threads
ASSUME NoThreadAssumption == NoThread \notin Threads
ASSUME BoundsAssumption   == MaxOps \in Nat /\ MaxBatch \in Nat \ {0}

VARIABLES
  id,           \* self._id
  idLock,       \* holder of self._id_lock
  pc,           \* where each thread is in call() or batch()
  loaded,       \* the value `self._id += 1` read and has not stored yet
  requestId,    \* requestId[<<t, n>>]: local request_id of t's n-th operation,
                \* 0 when it is a batch or has none yet
  opNo,         \* operations begun by each thread
  shape,        \* type of the body the running operation expects:
                \* "object" in call(), "array" in batch()
  count,        \* requests in the thread's latest operation
  pending,      \* items sent and not yet executed by the node
  applied,      \* times the node executed each item
  verdict,      \* the node's answer to each item
  reply,        \* what _post() got for each thread
  outcome       \* how each thread's latest operation ended

clientVars == <<id, idLock, loaded, requestId>>
opVars     == <<opNo, shape, count>>
nodeVars   == <<pending, applied, verdict>>
vars       == <<clientVars, opVars, nodeVars, pc, reply, outcome>>

Ops      == Threads \X (1 .. MaxOps)
Items    == Threads \X (1 .. MaxOps) \X (1 .. MaxBatch)
OpOf(i)  == <<i[1], i[2]>>
Op(t)    == <<t, opNo[t]>>
Own(t)   == [k \in 1 .. count[t] |-> <<t, opNo[t], k>>]
OwnSet(t) == {<<t, opNo[t], k>> : k \in 1 .. count[t]}
NoItem   == <<>>

(* "error" is an error object with a code; "uncoded" is any other error    *)
(* value, or an answer with neither error nor result.                      *)
Verdicts == {"result", "error", "uncoded"}

Pending         == [tag |-> "pending", value |-> <<>>, code |-> NoItem]
Ok(value)       == [tag |-> "ok", value |-> value, code |-> NoItem]
RpcError(code)  == [tag |-> "RpcError", value |-> <<>>, code |-> code]
ConnectionError == [tag |-> "ConnectionError", value |-> <<>>, code |-> NoItem]

-----------------------------------------------------------------------------
(* Replies.  An entry's id is a true JSON integer or a lookalike (true,    *)
(* 1.0, null), which compares equal in Python and is not of type int.      *)

Entry(n, int, kind, of) == [id |-> n, int |-> int, kind |-> kind, of |-> of]
Body(sh, es)            == [shape |-> sh, entries |-> es]
NoReply                 == Body("none", <<>>)

(* The id operation t sent with its k-th request.                          *)
SentId(t, k) == IF shape[t] = "object" THEN requestId[Op(t)] ELSE k - 1
SentIds(t)   == {SentId(t, k) : k \in 1 .. count[t]}

Answered(t)  == {k \in 1 .. count[t] : verdict[<<t, opNo[t], k>>] # "none"}

Genuine(t)   == {Entry(SentId(t, k), TRUE, verdict[<<t, opNo[t], k>>],
                       <<t, opNo[t], k>>) : k \in Answered(t)}
Lookalikes(t) == {Entry(n, FALSE, "result", NoItem) : n \in SentIds(t)}
Stale(t)     == {Entry(n, TRUE, "result", NoItem) : n \in SentIds(t)}

(* Answers the node gave to single calls of any thread at any time: a      *)
(* crossed or late reply is one of them.                                   *)
CallAnswers ==
  {Entry(requestId[OpOf(i)], TRUE, verdict[i], i) :
     i \in {j \in Items : verdict[j] # "none" /\ requestId[OpOf(j)] # 0}}

CallBodies(t) ==
  {Body("object", <<e>>) : e \in CallAnswers \union Lookalikes(t)}

(* A batch reply holds some of the batch's own answers, in any order and   *)
(* with repetitions, lookalike entries, and extra entries that repeat an   *)
(* id next to the genuine one.                                             *)
BatchBodies(t) ==
  {Body("array", es) :
     es \in {s \in BoundedSeq(Genuine(t) \union Lookalikes(t) \union Stale(t),
                              count[t] + 1) :
               \A e \in Range(s) \cap Stale(t) :
                 \E g \in Range(s) \cap Genuine(t) : g.id = e.id}}

Bodies(t) ==
  (IF shape[t] = "object" THEN CallBodies(t) ELSE BatchBodies(t))
    \union {Body(sh, <<>>) :
              sh \in {"broken", "notjson", "scalar"}
                       \union ({"object", "array"} \ {shape[t]})}

-----------------------------------------------------------------------------
Init ==
  /\ id        = 0
  /\ idLock    = NoThread
  /\ pc        = [t \in Threads |-> "idle"]
  /\ loaded    = [t \in Threads |-> 0]
  /\ requestId = [o \in Ops |-> 0]
  /\ opNo      = [t \in Threads |-> 0]
  /\ shape     = [t \in Threads |-> "object"]
  /\ count     = [t \in Threads |-> 0]
  /\ pending   = {}
  /\ applied   = [i \in Items |-> 0]
  /\ verdict   = [i \in Items |-> "none"]
  /\ reply     = [t \in Threads |-> NoReply]
  /\ outcome   = [t \in Threads |-> Pending]

Goto(t, from, to) == pc[t] = from /\ pc' = [pc EXCEPT ![t] = to]

(* Enter call() or batch() with n requests.                                *)
Start(t, to, sh, n, o) ==
  /\ opNo[t] < MaxOps
  /\ Goto(t, "idle", to)
  /\ opNo'    = [opNo EXCEPT ![t] = @ + 1]
  /\ shape'   = [shape EXCEPT ![t] = sh]
  /\ count'   = [count EXCEPT ![t] = n]
  /\ outcome' = [outcome EXCEPT ![t] = o]
  /\ UNCHANGED <<clientVars, nodeVars, reply>>

StartCall(t)     == Start(t, "acquire", "object", 1, Pending)
StartBatch(t, n) == Start(t, "post", "array", n, Pending)
EmptyBatch(t)    == Start(t, "idle", "array", 0, Ok(<<>>))

UnlockedAcquire(t) == TRUE                           \* mutant: no lock
LockFree(t) == idLock = NoThread

Acquire(t) ==
  /\ LockFree(t)
  /\ Goto(t, "acquire", "load")
  /\ idLock' = t
  /\ UNCHANGED <<id, loaded, requestId, opVars, nodeVars, reply, outcome>>

Decremented(n) == n - 1                              \* mutant: counts down
Incremented(n) == n + 1

Load(t) ==
  /\ Goto(t, "load", "store")
  /\ loaded' = [loaded EXCEPT ![t] = id]
  /\ UNCHANGED <<id, idLock, requestId, opVars, nodeVars, reply, outcome>>

Store(t) ==
  /\ Goto(t, "store", "copy")
  /\ id' = Incremented(loaded[t])
  /\ loaded' = [loaded EXCEPT ![t] = 0]
  /\ UNCHANGED <<idLock, requestId, opVars, nodeVars, reply, outcome>>

(* mutant: the lock is still held while the request is posted.             *)
CopyIdKeepingLock(t) ==
  /\ Goto(t, "copy", "post")
  /\ requestId' = [requestId EXCEPT ![Op(t)] = id]
  /\ UNCHANGED <<id, idLock, loaded, opVars, nodeVars, reply, outcome>>

(* request_id = self._id, and the end of the `with` block.                 *)
CopyId(t) ==
  /\ Goto(t, "copy", "post")
  /\ requestId' = [requestId EXCEPT ![Op(t)] = id]
  /\ idLock' = NoThread
  /\ UNCHANGED <<id, loaded, opVars, nodeVars, reply, outcome>>

Post(t) ==
  /\ Goto(t, "post", "wait")
  /\ pending' = pending \union OwnSet(t)
  /\ UNCHANGED <<clientVars, opVars, applied, verdict, reply, outcome>>

Receive(t) ==
  /\ Goto(t, "wait", "decode")
  /\ \E b \in Bodies(t) : reply' = [reply EXCEPT ![t] = b]
  /\ UNCHANGED <<clientVars, opVars, nodeVars, outcome>>

-----------------------------------------------------------------------------
(* Decoding.                                                               *)

Entries(t) == reply[t].entries

(* The id the client compares with: the local request_id, or the position. *)
ExpectedId(t, k) == SentId(t, k)
ExpectedIds(t)   == {ExpectedId(t, k) : k \in 1 .. count[t]}

TypedIds(t)   == \A p \in DOMAIN Entries(t) : Entries(t)[p].int
SameLength(t) == Len(Entries(t)) = count[t]
SameOrder(t)  == \A p \in DOMAIN Entries(t) :         \* mutant: answers must
                   Entries(t)[p].id = ExpectedId(t, p) \* come in request order
SameIds(t)    == {Entries(t)[p].id : p \in DOMAIN Entries(t)} = ExpectedIds(t)

AcceptedUntyped(t) ==                       \* mutant: True and 1.0 pass for 1
  reply[t].shape = shape[t] /\ SameLength(t) /\ SameIds(t)
AcceptedAnyLength(t) ==                     \* mutant: a repeated id passes
  reply[t].shape = shape[t] /\ TypedIds(t) /\ SameIds(t)
Accepted(t) ==
  /\ reply[t].shape = shape[t]
  /\ TypedIds(t)
  /\ SameLength(t)
  /\ SameIds(t)

InArrivalOrder(t, k) == Entries(t)[k]       \* mutant: trusts the reply's order

(* by_id[...]: of several entries with one id, the dict keeps the last.    *)
AnswerTo(t, k) ==
  Entries(t)[CHOOSE p \in DOMAIN Entries(t) :
               /\ Entries(t)[p].id = ExpectedId(t, k)
               /\ \A q \in DOMAIN Entries(t) :
                    Entries(t)[q].id = ExpectedId(t, k) => q <= p]

AnyFailure(t, k) == AnswerTo(t, k).kind # "result"  \* mutant: not the first

(* The list comprehension stops at the first answer that is not a result.  *)
FirstFailure(t, k) ==
  /\ AnswerTo(t, k).kind # "result"
  /\ \A j \in 1 .. (k - 1) : AnswerTo(t, j).kind = "result"

Finish(t, to, o) ==
  /\ Goto(t, "decode", to)
  /\ reply'   = [reply EXCEPT ![t] = NoReply]
  /\ outcome' = [outcome EXCEPT ![t] = o]
  /\ UNCHANGED <<clientVars, opVars, nodeVars>>

(* Refused, timed out or truncated: ConnectionError, and no retry.         *)
RetryPost   == "post"                       \* mutant: sends it again
AfterBroken == "idle"
ConnectionFails(t) ==
  /\ reply[t].shape = "broken"
  /\ Finish(t, AfterBroken, ConnectionError)

(* Not JSON, a body of the wrong type, or ids that do not match.           *)
Reject(t) ==
  /\ reply[t].shape # "broken"
  /\ ~Accepted(t)
  /\ Finish(t, "idle", RpcError(NoItem))

RaiseNodeError(t) ==
  /\ Accepted(t)
  /\ \E k \in 1 .. count[t] :
       /\ FirstFailure(t, k)
       /\ Finish(t, "idle", RpcError(IF AnswerTo(t, k).kind = "error"
                                       THEN AnswerTo(t, k).of ELSE NoItem))

ReturnResults(t) ==
  /\ Accepted(t)
  /\ \A k \in 1 .. count[t] : AnswerTo(t, k).kind = "result"
  /\ Finish(t, "idle", Ok([k \in 1 .. count[t] |-> AnswerTo(t, k).of]))

-----------------------------------------------------------------------------
(* The node and the network.                                               *)

Execute(i, v) ==
  /\ i \in pending
  /\ pending' = pending \ {i}
  /\ applied' = [applied EXCEPT ![i] = @ + 1]
  /\ verdict' = [verdict EXCEPT ![i] = v]
  /\ UNCHANGED <<clientVars, opVars, pc, reply, outcome>>

(* The request never arrives, or the node stops before finishing it.       *)
LoseRequest(o) ==
  /\ \E i \in pending : OpOf(i) = o
  /\ pending' = {i \in pending : OpOf(i) # o}
  /\ UNCHANGED <<clientVars, opVars, applied, verdict, pc, reply, outcome>>

-----------------------------------------------------------------------------
ClientStep(t) ==
  \/ Acquire(t) \/ Load(t) \/ Store(t) \/ CopyId(t) \/ Post(t)
  \/ ConnectionFails(t) \/ Reject(t) \/ RaiseNodeError(t) \/ ReturnResults(t)

Begin(t) ==
  \/ StartCall(t)
  \/ \E n \in 1 .. MaxBatch : StartBatch(t, n)
  \/ EmptyBatch(t)

Next ==
  \/ \E t \in Threads : Begin(t) \/ ClientStep(t) \/ Receive(t)
  \/ \E i \in Items, v \in Verdicts : Execute(i, v)
  \/ \E o \in Ops : LoseRequest(o)

(* A thread that can run does; an exchange that is not hung ends, if only  *)
(* by the timeout handed to urlopen.                                       *)
Fairness ==
  /\ \A t \in Threads : WF_vars(ClientStep(t))
  /\ \A t \in Threads \ Hung : WF_vars(Receive(t))

Spec     == Init /\ [][Next]_vars
FairSpec == Spec /\ Fairness

-----------------------------------------------------------------------------
(* Properties.                                                             *)

BodyShapes == {"none", "broken", "notjson", "scalar", "object", "array"}
EntryType  == [id : Nat, int : BOOLEAN, kind : Verdicts,
               of : Items \union {NoItem}]
OutcomeType ==
  [tag : {"pending", "ok", "RpcError", "ConnectionError"},
   value : Seq(Items \union {NoItem}), code : Items \union {NoItem}]

(* Types of every variable: ids and counts are naturals, what a thread     *)
(* waits for is one of the two body shapes, replies are sequences of       *)
(* entries.                                                                *)
TypeOK ==
  /\ id \in Nat
  /\ idLock \in Threads \union {NoThread}
  /\ pc \in [Threads -> {"idle", "acquire", "load", "store", "copy",
                         "post", "wait", "decode"}]
  /\ loaded \in [Threads -> Nat]
  /\ requestId \in [Ops -> Nat]
  /\ opNo \in [Threads -> 0 .. MaxOps]
  /\ shape \in [Threads -> {"object", "array"}]
  /\ count \in [Threads -> 0 .. MaxBatch]
  /\ pending \in SUBSET Items
  /\ applied \in [Items -> Nat]
  /\ verdict \in [Items -> Verdicts \union {"none"}]
  /\ reply \in [Threads -> [shape : BodyShapes, entries : Seq(EntryType)]]
  /\ outcome \in [Threads -> OutcomeType]

(* No two calls ever made on one client carry the same request id, however *)
(* their threads interleave in `self._id += 1; request_id = self._id`.     *)
UniqueRequestIds ==
  \A a, b \in Ops : a # b /\ requestId[a] # 0 => requestId[a] # requestId[b]

(* Results that call() or batch() returns are the answers to the thread's  *)
(* own latest requests, in request order, all of them results, whatever    *)
(* crossed, late, duplicated, reordered or lookalike replies arrived.      *)
OwnAnswers ==
  \A t \in Threads :
    outcome[t].tag = "ok" =>
      /\ outcome[t].value = Own(t)
      /\ \A k \in 1 .. count[t] : verdict[<<t, opNo[t], k>>] = "result"

(* The node's code an RpcError carries is the code of the first of the     *)
(* thread's own requests that failed, in request order.                    *)
OwnFirstError ==
  \A t \in Threads :
    outcome[t].code # NoItem =>
      \E k \in 1 .. count[t] :
        /\ outcome[t].code = <<t, opNo[t], k>>
        /\ verdict[<<t, opNo[t], k>>] = "error"
        /\ \A j \in 1 .. (k - 1) : verdict[<<t, opNo[t], j>>] = "result"

(* The node executes no request twice: a lost or broken answer is reported *)
(* and the request is not sent again.                                      *)
AtMostOnce == \A i \in Items : applied[i] <= 1

(* A thread that got exactly the answers to its own requests, in any       *)
(* order, and all of them results, returns them: no other thread's call    *)
(* that took the next id in the meantime can make it reject them.          *)
FullGenuineReply(t) ==
  /\ reply[t].shape = shape[t]
  /\ Len(Entries(t)) = count[t]
  /\ Range(Entries(t)) = Genuine(t)
  /\ Cardinality(Genuine(t)) = count[t]
  /\ \A e \in Genuine(t) : e.kind = "result"

GenuineReplyHonoured ==
  [][\A t \in Threads :
       pc[t] = "decode" /\ pc'[t] # "decode" /\ FullGenuineReply(t) =>
         outcome'[t].tag = "ok"]_vars

(* Every call and batch of a thread whose exchanges end returns or raises, *)
(* even while other threads' exchanges hang: no lock is held during I/O.   *)
CallsReturn == \A t \in Threads \ Hung : pc[t] # "idle" ~> pc[t] = "idle"

(* The client implements the service it promises (RpcService.tla).         *)
Service ==
  INSTANCE RpcService WITH running <- [t \in Threads |-> pc[t] # "idle"]
ServiceSpec == Service!Spec
=============================================================================
