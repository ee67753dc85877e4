----------------------------- MODULE ChainQuery -----------------------------
(***************************************************************************)
(* src/bitwalkit/chain.py on top of ElectrumClient: address queries that   *)
(* open a client of their own in a `with` block, make one call or one      *)
(* batch, close the client whatever happened, and convert what came back.  *)
(*                                                                         *)
(* get_balance, get_utxos, get_history and get_status differ only in the   *)
(* method and in the conversion; so do their four batched forms.  The      *)
(* client's state is that of the client the running query made.            *)
(***************************************************************************)
EXTENDS ElectrumClient

CONSTANTS
  Addresses,    \* what a caller may pass for an address
  Scripthash    \* the scripthash of each valid one

ASSUME ScripthashAssumption ==
  DOMAIN Scripthash \subseteq Addresses /\ Range(Scripthash) \subseteq Params

VARIABLES
  qpc,          \* "idle", "enter", "ask", "wait" or "convert"
  addresses,    \* argument of the latest query
  many,         \* it is one of the batched queries
  result        \* how the latest query ended

queryVars == <<addresses, many, result>>
allVars   == <<vars, qpc, queryVars>>

NoResult        == [tag |-> "none", value |-> <<>>]
Returns(value)  == [tag |-> "ok", value |-> value]
Raises(error)   == [tag |-> error, value |-> <<>>]

QInit ==
  /\ Init
  /\ qpc = "idle" /\ addresses = <<>> /\ many = FALSE /\ result = NoResult

QGoto(from, to) == qpc = from /\ qpc' = to

(* address_to_scripthash() of every address comes before any I/O.          *)
Query(as, batched) ==
  /\ opNo + 1 <= MaxOps
  /\ addresses' = as
  /\ many' = batched
  /\ \/ /\ as = <<>>
        /\ QGoto("idle", "idle")
        /\ result' = Returns(<<>>)
     \/ /\ as # <<>> /\ ~(Range(as) \subseteq DOMAIN Scripthash)
        /\ QGoto("idle", "idle")
        /\ result' = Raises("AddressError")
     \/ /\ as # <<>> /\ Range(as) \subseteq DOMAIN Scripthash
        /\ QGoto("idle", "enter")
        /\ result' = NoResult
  /\ UNCHANGED vars

(* __enter__: connect() succeeds, or raises and there is nothing to close. *)
Enter ==
  /\ QGoto("enter", "ask")
  /\ Connect
  /\ UNCHANGED queryVars

EnterFails ==
  /\ QGoto("enter", "idle")
  /\ result' = Raises("ConnectionError")
  /\ UNCHANGED <<vars, addresses, many>>

Ask ==
  /\ QGoto("ask", "wait")
  /\ IF many THEN BeginBatch([k \in DOMAIN addresses |-> Scripthash[addresses[k]]])
             ELSE BeginCall(Scripthash[addresses[1]])
  /\ UNCHANGED queryVars

(* mutant: the client is closed only when the operation succeeded.         *)
CloseOnSuccess ==
  IF outcome.tag = "ok" THEN Close ELSE UNCHANGED vars
CloseClient == Close

(* __exit__ closes the client; what the block raised goes on.              *)
Leave ==
  /\ pc = "idle"
  /\ CloseClient
  /\ IF outcome.tag = "ok"
       THEN QGoto("wait", "convert") /\ UNCHANGED result
       ELSE QGoto("wait", "idle") /\ result' = Raises(outcome.tag)
  /\ UNCHANGED <<addresses, many>>

(* dict comprehension over zip(): the last of several equal addresses wins.*)
LastAt(a) ==
  CHOOSE k \in DOMAIN addresses :
    addresses[k] = a /\ \A j \in DOMAIN addresses : addresses[j] = a => j <= k
ZippedInReverse ==                           \* mutant: results paired backwards
  [a \in Range(addresses) |-> outcome.value[Len(addresses) + 1 - LastAt(a)].of]
Zipped ==
  [a \in Range(addresses) |-> outcome.value[LastAt(a)].of]

(* _to_balance, _to_utxos, _to_history, _to_status.                        *)
Convert ==
  /\ QGoto("convert", "idle")
  /\ result' = Returns(Zipped)
  /\ \A k \in DOMAIN addresses : outcome.value[k].kind = "good"
  /\ UNCHANGED <<vars, addresses, many>>

ConvertFails ==
  /\ QGoto("convert", "idle")
  /\ \E k \in DOMAIN addresses :
       /\ outcome.value[k].kind # "good"
       /\ \A j \in 1 .. (k - 1) : outcome.value[j].kind = "good"
       /\ result' = Raises(IF outcome.value[k].kind = "misshapen"
                             THEN "RpcError" ELSE "FieldError")
  /\ UNCHANGED <<vars, addresses, many>>

QueryStep == Enter \/ EnterFails \/ Ask \/ Leave \/ Convert \/ ConvertFails

(* The client's own steps, and the server's, happen inside the block.      *)
Inside(step) == step /\ UNCHANGED <<qpc, queryVars>>

QNext ==
  \/ \E a \in Addresses : Query(<<a>>, FALSE)
  \/ \E as \in BoundedSeq(Addresses, MaxBatch) : Query(as, TRUE)
  \/ QueryStep
  \/ Inside(ClientStep)
  \/ Inside(ServerStep)

QSpec == QInit /\ [][QNext]_allVars

(* The thread that runs a query goes on; a silent server is given up by    *)
(* the socket's timeout, which is a client step.                           *)
QFairSpec ==
  QSpec /\ WF_allVars(QueryStep) /\ WF_allVars(Inside(ClientStep))

-----------------------------------------------------------------------------
(* Properties.                                                             *)

QTypeOK ==
  /\ TypeOK
  /\ qpc \in {"idle", "enter", "ask", "wait", "convert"}
  /\ addresses \in BoundedSeq(Addresses, MaxBatch)
  /\ many \in BOOLEAN
  /\ result.tag \in {"none", "ok", "AddressError", "RpcError", "ConnectionError",
                     "TypeError", "FieldError"}

(* A query returns a value for each address it was asked about and for no  *)
(* other, and the value of an address is the server's answer to this       *)
(* query's request for it, also after earlier queries timed out, failed or *)
(* met notifications.                                                      *)
OwnAddresses ==
  /\ QTypeOK
  /\ result.tag = "ok" /\ addresses # <<>> =>
       /\ DOMAIN result.value = Range(addresses)
       /\ \A a \in DOMAIN result.value :
            \E k \in DOMAIN addresses :
              addresses[k] = a /\ result.value[a] = <<opNo, k>>

(* A query that is over has left no connection open and no byte behind,    *)
(* however it ended.                                                       *)
NothingLeftOpen == qpc = "idle" => sock = 0 /\ buf = <<>>

(* Every query returns or raises, even when the server never answers.      *)
QueriesEnd == qpc # "idle" ~> qpc = "idle"
=============================================================================
