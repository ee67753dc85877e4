----------------------------- MODULE RpcService -----------------------------
(***************************************************************************)
(* What NodeRPC promises a program that shares one client between threads, *)
(* stated without request ids, locks, HTTP exchanges or reply bodies.      *)
(*                                                                         *)
(* A thread begins an operation made of one or more requests; the node may *)
(* execute each request at most once, at any time after the operation was  *)
(* begun, even after the client gave up on it.  The operation ends in one  *)
(* of three ways: with the answers to its own requests in request order,   *)
(* with the node's error for its first failing request, or with an error   *)
(* that says nothing about what the node did.                              *)
(***************************************************************************)
EXTENDS Naturals, Sequences

CONSTANTS
  Threads,    \* threads sharing the client
  MaxOps,     \* bound: operations a thread begins
  MaxBatch    \* bound: requests in one operation

VARIABLES
  running,    \* running[t]: t is inside an operation
  opNo,       \* opNo[t]: number of operations t has begun
  count,      \* count[t]: requests in t's latest operation
  applied,    \* applied[i]: times the node executed request i
  verdict,    \* verdict[i]: how the node answered request i
  outcome     \* outcome[t]: how t's latest operation ended

vars == <<running, opNo, count, applied, verdict, outcome>>

Items    == Threads \X (1 .. MaxOps) \X (1 .. MaxBatch)
Verdicts == {"result", "error", "uncoded"}
NoItem   == <<>>

Pending             == [tag |-> "pending", value |-> <<>>, code |-> NoItem]
Ok(value)           == [tag |-> "ok", value |-> value, code |-> NoItem]
RpcError(code)      == [tag |-> "RpcError", value |-> <<>>, code |-> code]
ConnectionError     == [tag |-> "ConnectionError", value |-> <<>>, code |-> NoItem]

(* The requests of t's latest operation, in request order.                 *)
Own(t) == [k \in 1 .. count[t] |-> <<t, opNo[t], k>>]

Init ==
  /\ running = [t \in Threads |-> FALSE]
  /\ opNo    = [t \in Threads |-> 0]
  /\ count   = [t \in Threads |-> 0]
  /\ applied = [i \in Items |-> 0]
  /\ verdict = [i \in Items |-> "none"]
  /\ outcome = [t \in Threads |-> Pending]

Begin(t, n) ==
  /\ ~running[t]
  /\ opNo[t] < MaxOps
  /\ running' = [running EXCEPT ![t] = TRUE]
  /\ opNo'    = [opNo EXCEPT ![t] = @ + 1]
  /\ count'   = [count EXCEPT ![t] = n]
  /\ outcome' = [outcome EXCEPT ![t] = Pending]
  /\ UNCHANGED <<applied, verdict>>

(* An operation without requests is over as soon as it is begun.           *)
BeginEmpty(t) ==
  /\ ~running[t]
  /\ opNo[t] < MaxOps
  /\ opNo'    = [opNo EXCEPT ![t] = @ + 1]
  /\ count'   = [count EXCEPT ![t] = 0]
  /\ outcome' = [outcome EXCEPT ![t] = Ok(<<>>)]
  /\ UNCHANGED <<running, applied, verdict>>

Execute(i, v) ==
  /\ i[2] <= opNo[i[1]]
  /\ applied[i] = 0
  /\ applied' = [applied EXCEPT ![i] = 1]
  /\ verdict' = [verdict EXCEPT ![i] = v]
  /\ UNCHANGED <<running, opNo, count, outcome>>

End(t, o) ==
  /\ running[t]
  /\ running' = [running EXCEPT ![t] = FALSE]
  /\ outcome' = [outcome EXCEPT ![t] = o]
  /\ UNCHANGED <<opNo, count, applied, verdict>>

Return(t) ==
  /\ \A k \in 1 .. count[t] : verdict[Own(t)[k]] = "result"
  /\ End(t, Ok(Own(t)))

Raise(t) ==
  \E k \in 1 .. count[t] :
    /\ verdict[Own(t)[k]] = "error"
    /\ \A j \in 1 .. (k - 1) : verdict[Own(t)[j]] = "result"
    /\ End(t, RpcError(Own(t)[k]))

(* A reply that cannot be used, or no reply at all.                        *)
GiveUp(t) == End(t, RpcError(NoItem)) \/ End(t, ConnectionError)

Next ==
  \/ \E t \in Threads :
       \/ \E n \in 1 .. MaxBatch : Begin(t, n)
       \/ BeginEmpty(t)
       \/ Return(t)
       \/ Raise(t)
       \/ GiveUp(t)
  \/ \E i \in Items, v \in Verdicts : Execute(i, v)

Spec == Init /\ [][Next]_vars
=============================================================================
