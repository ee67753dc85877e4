--------------------------- MODULE ElectrumClient ---------------------------
(***************************************************************************)
(* The Electrum client of src/bitwalkit/_electrum.py and the server it     *)
(* talks to: newline-delimited JSON-RPC over one TCP or TLS connection.    *)
(*                                                                         *)
(* The client is used by one thread.  A line is two cells on the wire, its *)
(* text and its newline, so that recv() can return any run of cells: part  *)
(* of a line, a line, or several.  Request ids start at 0 in every         *)
(* operation; a request is an item <<operation, position>>.                *)
(***************************************************************************)
EXTENDS Integers, Sequences, FiniteSets, SequencesExt

CONSTANTS
  Params,       \* parameters of a request: scripthashes
  Kinds,        \* how the server answers a request: a subset of AllKinds
  MaxOps,       \* bound: calls and batches made with the client
  MaxBatch,     \* bound: requests in one batch
  MaxConns,     \* bound: connections the client opens
  MaxNotes      \* bound: notifications the server sends on a connection

AllKinds == {"good", "misshapen", "badfield", "error", "uncoded"}
Results  == {"good", "misshapen", "badfield"}   \* carry a "result" field

ASSUME KindsAssumption  == Kinds \subseteq AllKinds /\ Kinds # {}
ASSUME BoundsAssumption ==
  /\ {MaxOps, MaxConns, MaxNotes} \subseteq Nat
  /\ MaxBatch \in Nat \ {0}

VARIABLES
  sock,         \* self._sock: number of the open connection, 0 for None
  buf,          \* self._buf: cells received and not yet consumed
  pc,           \* "idle", "send" or "recv"
  opNo,         \* operations begun
  shape,        \* "object" in call(), "array" in batch()
  asked,        \* parameters of the latest operation, in request order
  outcome,      \* how the latest operation ended
  conns,        \* connections opened so far
  inbox,        \* requests the server has received and not answered
  wire,         \* cells the server sent and the client has not received
  eof,          \* the server closed its end
  torn,         \* a send failed half-way: the server cannot parse what follows
  sentLines,    \* lines the server sent on this connection
  readLines,    \* lines the client consumed on this connection
  notes,        \* notifications sent on this connection
  strayed       \* this connection owes or carries a line nobody waits for

clientVars == <<sock, buf>>
opVars     == <<opNo, shape, asked>>
connVars   == <<conns, inbox, wire, eof, torn, sentLines, notes>>
vars == <<clientVars, opVars, connVars, pc, outcome, readLines, strayed>>

Item(k) == <<opNo, k>>
Own     == [k \in 1 .. Len(asked) |-> Item(k)]

Pending         == [tag |-> "pending", value |-> <<>>]
Ok(value)       == [tag |-> "ok", value |-> value]
Raised(error)   == [tag |-> error, value |-> <<>>]

-----------------------------------------------------------------------------
(* Lines the server can send.  Ids: 0 .. n-1 answer a request; Other is an *)
(* id that equals none of them, or no id at all; Unhashable is a list or a *)
(* dict.  0.0 and False equal 0 and pass for it.                           *)

Other      == -1
Unhashable == -2

Entry(n, kind, of) == [id |-> n, kind |-> kind, of |-> of]
Body(sh, es)       == [shape |-> sh, entries |-> es]
NotJson            == Body("notjson", <<>>)
Foreign(n)         == Entry(n, "good", <<>>)

Answers(r, k) == {Entry(k - 1, kind, <<r.op, k>>) : kind \in Kinds}

(* Honest bodies: one answer for every request of r, in any order.         *)
HonestBodies(r) ==
  {Body(r.shape, es) :
     es \in {s \in [1 .. r.count -> UNION {Answers(r, k) : k \in 1 .. r.count}] :
               \A p, q \in 1 .. r.count : s[p].id = s[q].id => p = q}}

(* Bodies with a missing, repeated, unknown or unhashable id.              *)
BadBodies(r) ==
  LET first == CHOOSE e \in Answers(r, 1) : TRUE
      rest  == [k \in 1 .. (r.count - 1) |-> first]
  IN  {NotJson, Body("scalar", <<>>), Body(r.shape, rest),
       Body(IF r.shape = "object" THEN "array" ELSE "object", <<first>>)}
        \union {Body(r.shape, Append(rest, e)) :
                  e \in {Foreign(Other), Foreign(Unhashable)}
                          \union (IF r.count > 1 THEN {first} ELSE {})}

Notification == Body("object", <<Foreign(Other)>>)

-----------------------------------------------------------------------------
Init ==
  /\ sock = 0 /\ buf = <<>>
  /\ pc = "idle" /\ opNo = 0 /\ shape = "object" /\ asked = <<>>
  /\ outcome = Pending
  /\ conns = 0 /\ inbox = <<>> /\ wire = <<>> /\ eof = FALSE /\ torn = FALSE
  /\ sentLines = 0 /\ readLines = 0 /\ notes = 0 /\ strayed = FALSE

(* Nothing of one connection reaches the next, but for what the client     *)
(* keeps in its buffer.                                                    *)
NewStream ==
  /\ inbox' = <<>> /\ wire' = <<>> /\ eof' = FALSE /\ torn' = FALSE
  /\ sentLines' = 0 /\ readLines' = 0 /\ notes' = 0 /\ strayed' = FALSE

(* connect() on a client without a connection; with one it returns at once.*)
Connect ==
  /\ sock = 0
  /\ conns < MaxConns
  /\ conns' = conns + 1
  /\ sock' = conns + 1
  /\ NewStream
  /\ UNCHANGED <<buf, opVars, pc, outcome>>

UserConnect == pc = "idle" /\ Connect

EmptyBuffer == <<>>

Close ==
  /\ pc = "idle"
  /\ sock # 0
  /\ sock' = 0
  /\ buf' = EmptyBuffer
  /\ NewStream
  /\ UNCHANGED <<opVars, conns, pc, outcome>>

Begin(sh, ps, to, o) ==
  /\ pc = "idle"
  /\ opNo < MaxOps
  /\ pc' = to
  /\ opNo' = opNo + 1
  /\ shape' = sh
  /\ asked' = ps
  /\ outcome' = o
  /\ UNCHANGED <<clientVars, connVars, readLines, strayed>>

BeginCall(p)   == Begin("object", <<p>>, "send", Pending)
BeginBatch(ps) == ps # <<>> /\ Begin("array", ps, "send", Pending)
EmptyBatch     == Begin("array", <<>>, "idle", Ok(<<>>))

End(o) == pc' = "idle" /\ outcome' = o

(* _send() opens the connection when there is none.                        *)
AutoConnect == pc = "send" /\ Connect

CannotConnect ==
  /\ pc = "send" /\ sock = 0
  /\ End(Raised("ConnectionError"))
  /\ UNCHANGED <<clientVars, opVars, connVars, readLines, strayed>>

(* sendall() succeeds; a closed or torn connection swallows the line.      *)
Send ==
  /\ pc = "send" /\ sock # 0
  /\ pc' = "recv"
  /\ inbox' = IF eof \/ torn THEN inbox
              ELSE Append(inbox, [op |-> opNo, shape |-> shape,
                                  count |-> Len(asked)])
  /\ UNCHANGED <<clientVars, opVars, conns, wire, eof, torn, sentLines, notes,
                 outcome, readLines, strayed>>

SendFails ==
  /\ pc = "send" /\ sock # 0
  /\ torn' = TRUE
  /\ strayed' = TRUE
  /\ End(Raised("ConnectionError"))
  /\ UNCHANGED <<clientVars, opVars, conns, inbox, wire, eof, sentLines, notes,
                 readLines>>

-----------------------------------------------------------------------------
(* _recv_line().                                                           *)

Ends         == {p \in DOMAIN buf : buf[p].last}
HasLine      == Ends # {}
LineEnd      == CHOOSE p \in Ends : \A q \in Ends : p <= q
FirstLine    == SubSeq(buf, 1, LineEnd)
NoRest       == <<>>      \* mutant: what follows the first line is dropped
RestOfBuffer == SubSeq(buf, LineEnd + 1, Len(buf))

Receive(n) ==
  /\ pc = "recv" /\ ~HasLine
  /\ buf' = buf \o SubSeq(wire, 1, n)
  /\ wire' = SubSeq(wire, n + 1, Len(wire))
  /\ UNCHANGED <<sock, opVars, conns, inbox, eof, torn, sentLines, notes, pc,
                 outcome, readLines, strayed>>

(* mutant: no timeout is set on the socket.                                *)
ReceiveFailsAtEof ==
  /\ pc = "recv" /\ ~HasLine /\ eof
  /\ strayed' = TRUE
  /\ End(Raised("ConnectionError"))
  /\ UNCHANGED <<clientVars, opVars, connVars, readLines>>

(* Timed out, reset, or closed by the server: the socket stays open.       *)
ReceiveFails ==
  /\ pc = "recv" /\ ~HasLine
  /\ strayed' = TRUE
  /\ End(Raised("ConnectionError"))
  /\ UNCHANGED <<clientVars, opVars, connVars, readLines>>

-----------------------------------------------------------------------------
(* call() and batch() after _receive().                                    *)

(* What json.loads() makes of the first line.                              *)
WholeLine == \A p, q \in 1 .. LineEnd : buf[p].line = buf[q].line
Parsed    == IF WholeLine THEN buf[1].line.body ELSE NotJson
Parts     == Parsed.entries
Sent      == 0 .. (Len(asked) - 1)

RightShape == Parsed.shape = shape /\ Len(Parts) = Len(asked)
Ids        == {Parts[p].id : p \in DOMAIN Parts}
Mismatch   == Ids # Sent

AnswerInLine(n) == Parts[n + 1]              \* mutant: trusts the reply's order
Answer(n) == Parts[CHOOSE p \in DOMAIN Parts : Parts[p].id = n]

Consume(o) ==
  /\ pc = "recv" /\ HasLine
  /\ buf' = RestOfBuffer
  /\ readLines' = readLines + 1
  /\ End(o)
  /\ UNCHANGED <<sock, opVars, connVars, strayed>>

(* An unhashable id cannot be a dict key: batch() lets the TypeError out.  *)
UnhashableId == shape = "array" /\ RightShape /\ Unhashable \in Ids

RaiseTypeError == HasLine /\ UnhashableId /\ Consume(Raised("TypeError"))

Reject ==
  /\ HasLine
  /\ ~UnhashableId
  /\ ~RightShape \/ Mismatch
  /\ Consume(Raised("RpcError"))

Accepted == HasLine /\ RightShape /\ ~Mismatch /\ ~UnhashableId

ReturnResults ==
  /\ Accepted
  /\ \A n \in Sent : Answer(n).kind \in Results
  /\ Consume(Ok([k \in 1 .. Len(asked) |-> Answer(k - 1)]))

RaiseServerError ==
  /\ Accepted
  /\ \E n \in Sent : Answer(n).kind \notin Results
  /\ Consume(Raised("RpcError"))

-----------------------------------------------------------------------------
(* The server.                                                             *)

Line(body)  == [conn |-> sock, no |-> sentLines + 1, body |-> body]
Cells(line) == <<[line |-> line, last |-> FALSE], [line |-> line, last |-> TRUE]>>
SendLine(body) ==
  /\ sock # 0 /\ ~eof
  /\ wire' = wire \o Cells(Line(body))
  /\ sentLines' = sentLines + 1
  /\ UNCHANGED <<clientVars, opVars, conns, eof, torn, pc, outcome, readLines>>

ServerAnswers(body) ==
  /\ inbox' = Tail(inbox)
  /\ SendLine(body)
  /\ UNCHANGED <<notes, strayed>>

(* A notification of a subscription, or an error about a torn line.        *)
ServerNotifies ==
  /\ notes < MaxNotes
  /\ notes' = notes + 1
  /\ strayed' = TRUE
  /\ SendLine(Notification)
  /\ UNCHANGED inbox

ServerCloses ==
  /\ sock # 0 /\ ~eof
  /\ eof' = TRUE
  /\ inbox' = <<>>
  /\ UNCHANGED <<clientVars, opVars, conns, wire, torn, sentLines, notes, pc,
                 outcome, readLines, strayed>>

-----------------------------------------------------------------------------
ClientStep ==
  \/ AutoConnect \/ CannotConnect \/ Send \/ SendFails
  \/ \E n \in 1 .. Len(wire) : Receive(n)
  \/ ReceiveFails
  \/ RaiseTypeError \/ Reject \/ ReturnResults \/ RaiseServerError

ServerStep ==
  \/ /\ inbox # <<>>
     /\ \E body \in HonestBodies(Head(inbox)) \union BadBodies(Head(inbox)) :
          ServerAnswers(body)
  \/ ServerNotifies
  \/ ServerCloses

Use ==
  \/ UserConnect \/ Close \/ EmptyBatch
  \/ \E p \in Params : BeginCall(p)
  \/ \E ps \in BoundedSeq(Params, MaxBatch) : BeginBatch(ps)

Next == Use \/ ClientStep \/ ServerStep

Spec == Init /\ [][Next]_vars

-----------------------------------------------------------------------------
(* Properties.                                                             *)

Entries  == [id : Other .. (MaxBatch - 1) \union {Unhashable}, kind : AllKinds,
             of : (1 .. MaxOps) \X (1 .. MaxBatch) \union {<<>>}]
TypeOK ==
  /\ sock \in 0 .. conns
  /\ conns \in 0 .. MaxConns
  /\ pc \in {"idle", "send", "recv"}
  /\ opNo \in 0 .. MaxOps
  /\ shape \in {"object", "array"}
  /\ asked \in BoundedSeq(Params, MaxBatch)
  /\ outcome.tag \in {"pending", "ok", "RpcError", "ConnectionError", "TypeError"}
  /\ \A p \in DOMAIN outcome.value : outcome.value[p] \in Entries
  /\ {eof, torn, strayed} \subseteq BOOLEAN
  /\ readLines \in 0 .. sentLines
  /\ notes \in 0 .. MaxNotes
  /\ \A p \in DOMAIN inbox : inbox[p].op \in 1 .. opNo

(* Framing: however recv() cuts the stream, the next line call() or        *)
(* batch() decodes is the next line the server sent on the open            *)
(* connection, whole, and never mixed with what an earlier connection left.*)
Framing ==
  /\ TypeOK
  /\ HasLine =>
       /\ LineEnd = 2
       /\ WholeLine
       /\ buf[1].line.conn = sock
       /\ buf[1].line.no = readLines + 1

ValueItems == [k \in DOMAIN outcome.value |-> outcome.value[k].of]

(* On a connection nothing has strayed on, results are the answers to the  *)
(* operation's own requests, in request order.                             *)
Correlated ==
  [][pc = "recv" /\ ~strayed /\ outcome'.tag = "ok" =>
       [k \in DOMAIN outcome'.value |-> outcome'.value[k].of] = Own]_vars

(* "results stay in order": result k of batch() answers entry k, whatever  *)
(* happened to the client before.                                          *)
ResultsInOrder == shape = "array" /\ outcome.tag = "ok" => ValueItems = Own
=============================================================================
