-------------------------- MODULE ChainQuery_proofs --------------------------
(***************************************************************************)
(* Proofs about ElectrumClient and about ChainQuery, which drives it.      *)
(*                                                                         *)
(* The lines of a connection are decoded whole and in order however recv() *)
(* cuts the stream, and on a connection where nothing has strayed results  *)
(* belong to the operation that returns them.  The queries use the client  *)
(* only as ElectrumClient allows, leave nothing open when they are over,   *)
(* and give every address its own answer.                                  *)
(***************************************************************************)
EXTENDS ChainQuery, SequenceTheorems, WellFoundedInduction, TLAPS

-----------------------------------------------------------------------------
(* Types.                                                                  *)

BodyShapes  == {"object", "array", "scalar", "notjson"}
BodyType    == [shape : BodyShapes, entries : Seq(Entries)]
LineType    == [conn : Nat, no : Nat, body : BodyType]
CellType    == [line : LineType, last : BOOLEAN]
RequestType == [op : 1 .. MaxOps, shape : {"object", "array"}, count : 1 .. MaxBatch]

OutcomeType == [tag : {"pending", "ok", "RpcError", "ConnectionError", "TypeError"},
                value : Seq(Entries)]

(* TypeOK with the contents of the channels, and what it needs to be       *)
(* inductive: an operation that is running has been begun, asks for        *)
(* something and has no outcome yet.                                       *)
TypeInv ==
  /\ conns \in 0 .. MaxConns /\ sock \in 0 .. conns
  /\ pc \in {"idle", "send", "recv"}
  /\ opNo \in 0 .. MaxOps
  /\ shape \in {"object", "array"}
  /\ asked \in Seq(Params) /\ Len(asked) <= MaxBatch
  /\ outcome \in OutcomeType
  /\ buf \in Seq(CellType) /\ wire \in Seq(CellType)
  /\ inbox \in Seq(RequestType)
  /\ \A p \in DOMAIN inbox : inbox[p].op <= opNo
  /\ eof \in BOOLEAN /\ torn \in BOOLEAN /\ strayed \in BOOLEAN
  /\ sentLines \in Nat /\ readLines \in Nat
  /\ notes \in 0 .. MaxNotes
  /\ pc # "idle" => opNo > 0 /\ asked # <<>> /\ outcome = Pending

(* The sequences an operation may ask for are those of up to MaxBatch      *)
(* entries.                                                                *)
LEMMA AskedTyped ==
  ASSUME NEW S
  PROVE  \A ps : ps \in BoundedSeq(S, MaxBatch) <=> ps \in Seq(S) /\ Len(ps) <= MaxBatch
<1>1. ASSUME NEW ps \in BoundedSeq(S, MaxBatch)
      PROVE  ps \in Seq(S) /\ Len(ps) <= MaxBatch
  <2>1. PICK m \in 0 .. MaxBatch : ps \in [1 .. m -> S]
    BY DEF BoundedSeq, SeqOf
  <2> QED BY <2>1, BoundsAssumption
<1>2. ASSUME NEW ps \in Seq(S), Len(ps) <= MaxBatch
      PROVE  ps \in BoundedSeq(S, MaxBatch)
  <2>1. Len(ps) \in 0 .. MaxBatch /\ ps \in [1 .. Len(ps) -> S]
    BY <1>2, BoundsAssumption
  <2> QED BY <2>1 DEF BoundedSeq, SeqOf
<1> QED BY <1>1, <1>2

(* Every body the server may send for a request is typed.                  *)
LEMMA AnswersTyped ==
  ASSUME NEW r \in RequestType, NEW k \in 1 .. r.count
  PROVE  Answers(r, k) \subseteq Entries /\ Answers(r, k) # {}
<1>1. /\ k - 1 \in Other .. (MaxBatch - 1)
      /\ <<r.op, k>> \in (1 .. MaxOps) \X (1 .. MaxBatch)
  BY BoundsAssumption DEF RequestType, Other
<1>2. \A kind \in Kinds : Entry(k - 1, kind, <<r.op, k>>) \in Entries
  BY <1>1, KindsAssumption DEF Entry, Entries
<1> QED BY <1>2, KindsAssumption DEF Answers

(* Lines nobody asked for have the type of a body.                         *)
LEMMA ForeignTyped ==
  /\ Foreign(Other) \in Entries
  /\ Foreign(Unhashable) \in Entries
  /\ Notification \in BodyType
<1>1. Foreign(Other) \in Entries /\ Foreign(Unhashable) \in Entries
  BY BoundsAssumption DEF Foreign, Entry, Entries, Other, Unhashable, AllKinds
<1> QED BY <1>1 DEF Notification, Body, BodyType, BodyShapes

(* Whatever the server sends about a request has the type of a body.       *)
LEMMA BodiesTyped ==
  ASSUME NEW r \in RequestType
  PROVE  HonestBodies(r) \union BadBodies(r) \subseteq BodyType
<1>1. r.count \in Nat /\ r.count > 0 /\ r.shape \in BodyShapes
  BY DEF RequestType, BodyShapes
<1>2. HonestBodies(r) \subseteq BodyType
  <2>1. UNION {Answers(r, k) : k \in 1 .. r.count} \subseteq Entries
    BY AnswersTyped
  <2>2. [1 .. r.count -> UNION {Answers(r, k) : k \in 1 .. r.count}] \subseteq Seq(Entries)
    BY <1>1, <2>1
  <2> QED BY <1>1, <2>2 DEF HonestBodies, Body, BodyType
<1>3. BadBodies(r) \subseteq BodyType
  <2> DEFINE first == CHOOSE e \in Answers(r, 1) : TRUE
             rest  == [k \in 1 .. (r.count - 1) |-> first]
  <2>1. first \in Entries
    BY <1>1, AnswersTyped
  <2> HIDE DEF first
  <2>2. rest \in Seq(Entries) /\ <<first>> \in Seq(Entries) /\ <<>> \in Seq(Entries)
    <3>1. rest \in [1 .. (r.count - 1) -> Entries] /\ r.count - 1 \in Nat
      <4>1. r.count - 1 \in Nat
        BY <1>1
      <4> QED BY <2>1, <4>1
    <3>2. rest \in Seq(Entries)
      BY <3>1
    <3> QED BY <2>1, <3>2
  <2>3. \A e \in Entries : Append(rest, e) \in Seq(Entries)
    BY <2>2
  <2> HIDE DEF rest
  <2>4. \A sh \in BodyShapes, es \in Seq(Entries) : Body(sh, es) \in BodyType
    BY DEF Body, BodyType
  <2>5. NotJson \in BodyType /\ Body("scalar", <<>>) \in BodyType
    BY <2>2, <2>4 DEF NotJson, BodyShapes
  <2>6. \A x \in BadBodies(r) :
          \/ x \in {NotJson, Body("scalar", <<>>), Body(r.shape, rest),
                    Body("array", <<first>>), Body("object", <<first>>)}
          \/ \E e \in {Foreign(Other), Foreign(Unhashable), first} :
               x = Body(r.shape, Append(rest, e))
    BY DEF BadBodies, first, rest
  <2>7. "array" \in BodyShapes /\ "object" \in BodyShapes
    BY DEF BodyShapes
  <2> QED BY <1>1, <2>1, <2>2, <2>3, <2>4, <2>5, <2>6, <2>7, ForeignTyped
<1> QED BY <1>2, <1>3

(* A line is two cells, the text and the newline.                          *)
LEMMA CellsTyped ==
  ASSUME sock \in Nat, sentLines \in Nat, NEW body \in BodyType
  PROVE  /\ Cells(Line(body)) \in Seq(CellType)
         /\ Len(Cells(Line(body))) = 2
         /\ Cells(Line(body))[1] = [line |-> Line(body), last |-> FALSE]
         /\ Cells(Line(body))[2] = [line |-> Line(body), last |-> TRUE]
<1>1. Line(body) \in LineType
  BY DEF Line, LineType
<1> QED BY <1>1 DEF Cells, CellType

(* The initial states are typed.                                           *)
LEMMA InitType == Init => TypeInv
<1> SUFFICES ASSUME Init PROVE TypeInv
  OBVIOUS
<1>1. <<>> \in Seq(Params) /\ <<>> \in Seq(CellType) /\ <<>> \in Seq(RequestType)
      /\ <<>> \in Seq(Entries) /\ Len(<<>>) <= MaxBatch
  BY BoundsAssumption
<1>2. Pending \in OutcomeType
  BY <1>1 DEF Pending, OutcomeType
<1>3. inbox = <<>> /\ DOMAIN inbox = {}
  BY DEF Init
<1>4. 0 \in 0 .. 0 /\ 0 \in 0 .. MaxConns /\ 0 \in 0 .. MaxOps /\ 0 \in 0 .. MaxNotes
  BY BoundsAssumption
<1> QED BY <1>1, <1>2, <1>3, <1>4 DEF Init, TypeInv

(* The entry an accepted line gives for an id is one of its entries and    *)
(* has that id.                                                            *)
LEMMA AnswerChosen ==
  ASSUME TypeInv, Accepted, NEW n \in Sent
  PROVE  \E p \in DOMAIN Parts : Answer(n) = Parts[p] /\ Parts[p].id = n
<1>1. n \in Ids
  BY DEF Accepted, Mismatch
<1>2. PICK p \in DOMAIN Parts : Parts[p].id = n
  BY <1>1 DEF Ids
<1> QED BY <1>2 DEF Answer

(* What is decoded is a typed body: it is what the server sent, or nothing *)
(* that json.loads() accepts.                                              *)
LEMMA ParsedTyped ==
  ASSUME TypeInv, HasLine
  PROVE  Parsed \in BodyType
<1>1. 1 \in DOMAIN buf
  BY DEF HasLine, Ends, TypeInv
<1>2. buf[1] \in CellType
  BY <1>1, ElementOfSeq DEF TypeInv
<1>3. <<>> \in Seq(Entries) /\ "notjson" \in BodyShapes
  BY DEF BodyShapes
<1> QED BY <1>2, <1>3 DEF Parsed, NotJson, Body, CellType, LineType, BodyType

(* The channels after each of the three things that happen to them.        *)
LEMMA ReceiveTyped ==
  ASSUME TypeInv, NEW n \in 1 .. Len(wire)
  PROVE  /\ buf \o SubSeq(wire, 1, n) \in Seq(CellType)
         /\ SubSeq(wire, n + 1, Len(wire)) \in Seq(CellType)
<1>1. \A i \in 1 .. Len(wire) : wire[i] \in CellType
  BY DEF TypeInv
<1>2. SubSeq(wire, 1, n) \in Seq(CellType) /\ SubSeq(wire, n + 1, Len(wire)) \in Seq(CellType)
  BY <1>1, SubSeqProperties DEF TypeInv
<1> QED BY <1>2, ConcatProperties DEF TypeInv

(* The CHOOSE of LineEnd yields the least newline of the buffer.           *)
LEMMA LineEndChosen ==
  ASSUME TypeInv, NEW p \in Ends, \A q \in Ends : p <= q
  PROVE  LineEnd = p /\ p \in 1 .. Len(buf)
<1>1. Ends \subseteq Int
  BY DEF Ends, TypeInv
<1> QED BY <1>1 DEF LineEnd, Ends, TypeInv

-----------------------------------------------------------------------------
(* Framing.                                                                *)

(* The cells on their way to the decoder, and the lines they make up.      *)
Stream == buf \o wire
Unread == sentLines - readLines

(* The j-th unread line is in its place, its newline after its text.       *)
InPlace(j) ==
  LET text == Stream[2 * j - 1]
      end  == Stream[2 * j]
  IN  /\ ~text.last /\ end.last
      /\ end.line = text.line
      /\ text.line.conn = sock
      /\ text.line.no = readLines + j

(* Framing is not inductive: it needs that the buffer and the wire hold    *)
(* together the unread lines of the open connection, whole and in order,   *)
(* and that nothing is there without a connection.                         *)
StreamInv ==
  /\ Len(Stream) = 2 * Unread
  /\ \A j \in 1 .. Unread : InPlace(j)
  /\ sock = 0 => sentLines = 0 /\ inbox = <<>>

(* The stream is the buffer followed by the wire, cell by cell.            *)
LEMMA StreamTyped ==
  ASSUME TypeInv
  PROVE  /\ Stream \in Seq(CellType)
         /\ Len(Stream) = Len(buf) + Len(wire)
         /\ \A p \in 1 .. Len(Stream) :
              Stream[p] = IF p <= Len(buf) THEN buf[p] ELSE wire[p - Len(buf)]
BY ConcatProperties DEF Stream, TypeInv

(* A newline in the buffer ends the first unread line, and that line is    *)
(* the first thing in the buffer.                                          *)
LEMMA FirstLineReady ==
  ASSUME TypeInv, StreamInv, HasLine
  PROVE  /\ LineEnd = 2 /\ Len(buf) >= 2 /\ Unread >= 1
         /\ buf[1] = Stream[1] /\ buf[2] = Stream[2]
         /\ buf[2].line = buf[1].line
         /\ buf[1].line.conn = sock /\ buf[1].line.no = readLines + 1
<1>1. Unread \in Int /\ Len(buf) \in Nat /\ Len(wire) \in Nat
  BY DEF Unread, TypeInv
<1>2. PICK p \in 1 .. Len(buf) : buf[p].last
  BY DEF HasLine, Ends, TypeInv
<1>3. Unread >= 1
  BY <1>1, <1>2, StreamTyped DEF StreamInv
<1>4. InPlace(1) /\ 2 * 1 - 1 = 1 /\ 2 * 1 = 2
  BY <1>1, <1>3 DEF StreamInv
<1>5. buf[1] = Stream[1]
  BY <1>1, <1>2, StreamTyped
<1>6. ~buf[1].last
  BY <1>4, <1>5 DEF InPlace
<1>7. Len(buf) >= 2
  BY <1>1, <1>2, <1>6
<1>8. buf[2] = Stream[2] /\ buf[2].last
  BY <1>1, <1>4, <1>7, StreamTyped DEF InPlace
<1>9. 2 \in Ends /\ \A q \in Ends : 2 <= q
  BY <1>1, <1>6, <1>7, <1>8 DEF Ends, TypeInv
<1>10. LineEnd = 2
  BY <1>9, LineEndChosen
<1> QED BY <1>3, <1>4, <1>5, <1>7, <1>8, <1>10 DEF InPlace

(* The invariant implies the property the run checks.                      *)
LEMMA FramingHolds == TypeInv /\ StreamInv => Framing
<1> SUFFICES ASSUME TypeInv, StreamInv PROVE Framing
  OBVIOUS
<1>1. TypeOK
  <2>1. asked \in BoundedSeq(Params, MaxBatch)
    BY AskedTyped DEF TypeInv
  <2>2. \A p \in DOMAIN outcome.value : outcome.value[p] \in Entries
    BY DEF TypeInv, OutcomeType
  <2>3. readLines \in 0 .. sentLines
    <3>1. Len(Stream) \in Nat /\ Len(Stream) = 2 * Unread
      BY StreamTyped DEF StreamInv
    <3> QED BY <3>1 DEF Unread, TypeInv
  <2>4. \A p \in DOMAIN inbox : inbox[p].op \in 1 .. opNo
    <3>1. \A p \in DOMAIN inbox : inbox[p] \in RequestType /\ inbox[p].op <= opNo
      BY DEF TypeInv
    <3>2. opNo \in Nat
      BY DEF TypeInv
    <3>3. \A r \in RequestType : r.op \in Nat /\ 1 <= r.op
      BY BoundsAssumption DEF RequestType
    <3> QED BY <3>1, <3>2, <3>3
  <2> QED BY <2>1, <2>2, <2>3, <2>4 DEF TypeOK, TypeInv, OutcomeType
<1>2. ASSUME HasLine
      PROVE  /\ LineEnd = 2 /\ WholeLine
             /\ buf[1].line.conn = sock /\ buf[1].line.no = readLines + 1
  <2>1. \A p \in 1 .. 2 : p = 1 \/ p = 2
    OBVIOUS
  <2> QED BY <1>2, <2>1, FirstLineReady DEF WholeLine
<1> QED BY <1>1, <1>2 DEF Framing

(* The three things that happen to the stream of a connection.             *)
LEMMA StreamReceives ==
  ASSUME TypeInv, NEW n \in 1 .. Len(wire), Receive(n)
  PROVE  Stream' = Stream
<1> DEFINE first == SubSeq(wire, 1, n)
           rest  == SubSeq(wire, n + 1, Len(wire))
<1>1. first \in Seq(CellType) /\ rest \in Seq(CellType)
  BY ReceiveTyped
<1>2. first \o rest = wire
  <2>1. wire \in Seq(CellType) /\ Len(wire) \in Nat /\ n \in Nat
    BY DEF TypeInv
  <2>2. SubSeq(wire, 1, n) \o SubSeq(wire, n + 1, Len(wire)) = SubSeq(wire, 1, Len(wire))
    BY <2>1, ConcatAdjacentSubSeq
  <2> QED BY <2>1, <2>2, SubSeqFull
<1>3. buf \in Seq(CellType)
  BY DEF TypeInv
<1>4. Stream' = (buf \o first) \o rest
  BY DEF Receive, Stream
<1> HIDE DEF first, rest
<1>5. (buf \o first) \o rest = buf \o (first \o rest)
  BY <1>1, <1>3, ConcatAssociative
<1> QED BY <1>2, <1>4, <1>5 DEF Stream

(* Sending a line appends its two cells.                                   *)
LEMMA StreamGrows ==
  ASSUME TypeInv, NEW body \in BodyType, SendLine(body)
  PROVE  /\ wire' \in Seq(CellType)
         /\ Len(Stream') = Len(Stream) + 2
         /\ \A p \in 1 .. Len(Stream) : Stream'[p] = Stream[p]
         /\ Stream'[Len(Stream) + 1] = [line |-> Line(body), last |-> FALSE]
         /\ Stream'[Len(Stream) + 2] = [line |-> Line(body), last |-> TRUE]
<1> DEFINE cells == Cells(Line(body))
<1>1. /\ cells \in Seq(CellType) /\ Len(cells) = 2
      /\ cells[1] = [line |-> Line(body), last |-> FALSE]
      /\ cells[2] = [line |-> Line(body), last |-> TRUE]
  BY CellsTyped DEF TypeInv
<1> HIDE DEF cells
<1>2. wire' = wire \o cells /\ buf' = buf
  BY DEF SendLine, clientVars, cells
<1>3. Stream' = Stream \o cells
  <2>1. buf \in Seq(CellType) /\ wire \in Seq(CellType)
    BY DEF TypeInv
  <2>2. (buf \o wire) \o cells = buf \o (wire \o cells)
    BY <1>1, <2>1, ConcatAssociative
  <2> QED BY <1>2, <2>2 DEF Stream
<1>4. wire' \in Seq(CellType)
  BY <1>1, <1>2, ConcatProperties DEF TypeInv
<1>5. Stream \in Seq(CellType) /\ Len(Stream) \in Nat
  BY StreamTyped
<1>6. /\ Len(Stream \o cells) = Len(Stream) + Len(cells)
      /\ \A i \in 1 .. Len(Stream) + Len(cells) :
           (Stream \o cells)[i] = IF i <= Len(Stream) THEN Stream[i]
                                  ELSE cells[i - Len(Stream)]
  BY <1>1, <1>5, ConcatProperties
<1>7. /\ Len(Stream) + 1 \in 1 .. Len(Stream) + 2 /\ ~(Len(Stream) + 1 <= Len(Stream))
      /\ Len(Stream) + 2 \in 1 .. Len(Stream) + 2 /\ ~(Len(Stream) + 2 <= Len(Stream))
      /\ (Len(Stream) + 1) - Len(Stream) = 1 /\ (Len(Stream) + 2) - Len(Stream) = 2
      /\ \A p \in 1 .. Len(Stream) : p \in 1 .. Len(Stream) + 2 /\ p <= Len(Stream)
  BY <1>5
<1> QED BY <1>1, <1>3, <1>4, <1>6, <1>7

(* Taking the first line from the buffer removes two cells in front.       *)
LEMMA StreamConsumed ==
  ASSUME TypeInv, StreamInv, HasLine, buf' = RestOfBuffer, wire' = wire
  PROVE  /\ buf' \in Seq(CellType)
         /\ Len(Stream') = Len(Stream) - 2
         /\ \A p \in 1 .. Len(Stream') : Stream'[p] = Stream[p + 2]
<1>1. LineEnd = 2 /\ Len(buf) >= 2 /\ Len(buf) \in Nat /\ Len(wire) \in Nat
  BY FirstLineReady DEF TypeInv
<1>2. /\ buf' \in Seq(CellType) /\ Len(buf') = Len(buf) - 2
      /\ \A p \in 1 .. Len(buf') : buf'[p] = buf[p + 2]
  <2>1. buf' = SubSeq(buf, 3, Len(buf))
    BY <1>1 DEF RestOfBuffer
  <2>2. \A i \in 3 .. Len(buf) : buf[i] \in CellType
    BY DEF TypeInv
  <2>3. /\ SubSeq(buf, 3, Len(buf)) \in Seq(CellType)
        /\ Len(SubSeq(buf, 3, Len(buf))) = IF 3 <= Len(buf) THEN Len(buf) - 3 + 1 ELSE 0
        /\ \A i \in 1 .. Len(buf) - 3 + 1 : SubSeq(buf, 3, Len(buf))[i] = buf[3 + i - 1]
    BY <1>1, <2>2, SubSeqProperties
  <2>4. Len(buf') = Len(buf) - 2
    <3>1. CASE 3 <= Len(buf)
      BY <1>1, <2>1, <2>3, <3>1
    <3>2. CASE Len(buf) = 2
      BY <2>1, <2>3, <3>2
    <3>3. \A n \in Nat : n >= 2 => 3 <= n \/ n = 2
      OBVIOUS
    <3>4. 3 <= Len(buf) \/ Len(buf) = 2
      BY <1>1, <3>3
    <3> QED BY <3>1, <3>2, <3>4
  <2>5. \A i \in 1 .. Len(buf') : i \in 1 .. Len(buf) - 3 + 1 /\ 3 + i - 1 = i + 2
    BY <1>1, <2>4
  <2> QED BY <2>1, <2>3, <2>4, <2>5
<1>3. /\ Len(Stream') = Len(buf') + Len(wire)
      /\ \A p \in 1 .. Len(buf') + Len(wire) :
           Stream'[p] = IF p <= Len(buf') THEN buf'[p] ELSE wire[p - Len(buf')]
  <2>1. wire \in Seq(CellType)
    BY DEF TypeInv
  <2> QED BY <1>2, <2>1, ConcatProperties DEF Stream
<1>4. /\ Len(Stream) = Len(buf) + Len(wire)
      /\ \A p \in 1 .. Len(Stream) :
           Stream[p] = IF p <= Len(buf) THEN buf[p] ELSE wire[p - Len(buf)]
  BY StreamTyped
<1>5. Len(Stream') = Len(Stream) - 2
  BY <1>1, <1>2, <1>3, <1>4
<1>6. ASSUME NEW p \in 1 .. Len(Stream') PROVE Stream'[p] = Stream[p + 2]
  <2>1. /\ p + 2 \in 1 .. Len(Stream) /\ p \in 1 .. Len(buf') + Len(wire)
        /\ p \in Nat
        /\ p <= Len(buf') <=> p + 2 <= Len(buf)
        /\ (p + 2) - Len(buf) = p - Len(buf')
        /\ p <= Len(buf') => p \in 1 .. Len(buf')
    BY <1>1, <1>2, <1>3, <1>4, <1>5
  <2> QED BY <1>2, <1>3, <1>4, <2>1
<1> QED BY <1>2, <1>5, <1>6

(* What the ends of an operation put into outcome.                         *)
LEMMA OutcomesTyped ==
  /\ Pending \in OutcomeType /\ Ok(<<>>) \in OutcomeType
  /\ \A e \in {"RpcError", "ConnectionError", "TypeError"} : Raised(e) \in OutcomeType
  /\ \A value \in Seq(Entries) : Ok(value) \in OutcomeType
<1>1. <<>> \in Seq(Entries)
  OBVIOUS
<1> QED BY <1>1 DEF Pending, Ok, Raised, OutcomeType

(* What an accepted line is turned into has the type of an outcome.        *)
LEMMA ResultsTyped ==
  ASSUME TypeInv, Accepted
  PROVE  Ok([k \in 1 .. Len(asked) |-> Answer(k - 1)]) \in OutcomeType
<1>1. Len(asked) \in Nat
  BY DEF TypeInv
<1>2. Parsed.entries \in Seq(Entries)
  BY ParsedTyped DEF Accepted, BodyType
<1>3. ASSUME NEW k \in 1 .. Len(asked) PROVE Answer(k - 1) \in Entries
  <2>1. k - 1 \in Sent
    BY <1>1 DEF Sent
  <2>2. PICK p \in DOMAIN Parts : Answer(k - 1) = Parts[p]
    BY <2>1, AnswerChosen
  <2> QED BY <1>2, <2>2 DEF Parts
<1>4. [k \in 1 .. Len(asked) |-> Answer(k - 1)] \in Seq(Entries)
  BY <1>1, <1>3
<1> QED BY <1>4, OutcomesTyped

(* Consuming a line, with whatever outcome of the right type.              *)
LEMMA ConsumeTyped ==
  ASSUME TypeInv, StreamInv, NEW o \in OutcomeType, Consume(o)
  PROVE  TypeInv'
<1>1. buf' \in Seq(CellType)
  BY StreamConsumed DEF Consume, connVars
<1>2. readLines' \in Nat /\ pc' = "idle" /\ outcome' = o
  BY DEF Consume, End, TypeInv
<1>3. UNCHANGED <<sock, opVars, connVars, strayed>>
  BY DEF Consume
<1> QED BY <1>1, <1>2, <1>3 DEF opVars, connVars, TypeInv

(* A line that is sent keeps every type.                                   *)
LEMMA SendLineTyped ==
  ASSUME TypeInv, NEW body \in BodyType, SendLine(body), strayed' \in BOOLEAN,
         inbox' \in Seq(RequestType), \A p \in DOMAIN inbox' : inbox'[p].op <= opNo,
         notes' \in 0 .. MaxNotes
  PROVE  TypeInv'
<1>1. wire' \in Seq(CellType)
  BY StreamGrows
<1>2. sentLines' \in Nat
      /\ UNCHANGED <<clientVars, opVars, conns, eof, torn, pc, outcome, readLines>>
  BY DEF SendLine, TypeInv
<1> QED BY <1>1, <1>2 DEF clientVars, opVars, TypeInv

(* A new connection keeps every type.                                      *)
LEMMA ConnectTyped ==
  ASSUME TypeInv, Connect
  PROVE  TypeInv'
<1>1. <<>> \in Seq(CellType) /\ <<>> \in Seq(RequestType)
  OBVIOUS
<1>2. inbox' = <<>> /\ DOMAIN inbox' = {}
  BY DEF Connect, NewStream
<1>3. conns' \in 0 .. MaxConns /\ sock' \in 0 .. conns'
  BY BoundsAssumption DEF Connect, TypeInv
<1>4. 0 \in 0 .. MaxNotes
  BY BoundsAssumption
<1> QED BY <1>1, <1>2, <1>3, <1>4 DEF Connect, NewStream, opVars, TypeInv

(* The start of an operation keeps every type.                             *)
LEMMA BeginTyped ==
  ASSUME TypeInv, NEW sh \in {"object", "array"},
         NEW ps \in Seq(Params), Len(ps) <= MaxBatch,
         NEW to \in {"idle", "send"}, NEW o \in OutcomeType,
         to = "send" => ps # <<>> /\ o = Pending, Begin(sh, ps, to, o)
  PROVE  TypeInv'
<1>1. opNo' \in 0 .. MaxOps /\ opNo' > 0 /\ opNo <= opNo'
  BY BoundsAssumption DEF Begin, TypeInv
<1>2. \A p \in DOMAIN inbox : inbox[p].op <= opNo'
  <2>1. \A p \in DOMAIN inbox : inbox[p] \in RequestType /\ inbox[p].op <= opNo
    BY DEF TypeInv
  <2>2. \A r \in RequestType : r.op \in Int
    BY DEF RequestType
  <2>3. opNo \in Int /\ opNo' \in Int
    BY <1>1 DEF TypeInv
  <2> QED BY <1>1, <2>1, <2>2, <2>3
<1> QED BY <1>1, <1>2 DEF Begin, clientVars, connVars, TypeInv

(* Every step keeps every type.                                            *)
LEMMA NextType == TypeInv /\ StreamInv /\ [Next]_vars => TypeInv'
<1> SUFFICES ASSUME TypeInv, StreamInv, [Next]_vars PROVE TypeInv'
  OBVIOUS
<1>1. CASE UserConnect \/ AutoConnect
  BY <1>1, ConnectTyped DEF UserConnect, AutoConnect
<1>2. CASE Close
  <2>1. <<>> \in Seq(CellType) /\ <<>> \in Seq(RequestType)
    OBVIOUS
  <2>2. inbox' = <<>> /\ DOMAIN inbox' = {}
    BY <1>2 DEF Close, NewStream
  <2>3. 0 \in 0 .. MaxNotes /\ 0 \in 0 .. conns
    BY BoundsAssumption DEF TypeInv
  <2> QED BY <1>2, <2>1, <2>2, <2>3 DEF Close, NewStream, EmptyBuffer, opVars, TypeInv
<1>3. CASE EmptyBatch
  <2>1. <<>> \in Seq(Params) /\ Len(<<>>) <= MaxBatch
    BY BoundsAssumption
  <2> QED BY <1>3, <2>1, BeginTyped, OutcomesTyped DEF EmptyBatch
<1>4. ASSUME NEW p \in Params, BeginCall(p) PROVE TypeInv'
  <2>1. <<p>> \in Seq(Params) /\ Len(<<p>>) <= MaxBatch /\ <<p>> # <<>>
    BY BoundsAssumption
  <2>2. Begin("object", <<p>>, "send", Pending)
    BY <1>4 DEF BeginCall
  <2> HIDE DEF Begin
  <2> QED BY <2>1, <2>2, BeginTyped, OutcomesTyped
<1>5. ASSUME NEW ps \in BoundedSeq(Params, MaxBatch), BeginBatch(ps) PROVE TypeInv'
  BY <1>5, AskedTyped, BeginTyped, OutcomesTyped DEF BeginBatch
<1>6. CASE CannotConnect \/ SendFails \/ ReceiveFails
  BY <1>6, OutcomesTyped
  DEF CannotConnect, SendFails, ReceiveFails, End, clientVars, opVars, connVars, TypeInv
<1>7. CASE Send
  <2> DEFINE r == [op |-> opNo, shape |-> shape, count |-> Len(asked)]
  <2>1. opNo \in 1 .. MaxOps /\ Len(asked) \in 1 .. MaxBatch
    <3>1. Len(asked) # 0
      BY <1>7, EmptySeq DEF Send, TypeInv
    <3> QED BY <1>7, <3>1, BoundsAssumption DEF Send, TypeInv
  <2>2. r \in RequestType /\ r.op <= opNo
    BY <2>1 DEF RequestType, TypeInv
  <2>3. inbox \in Seq(RequestType)
    BY DEF TypeInv
  <2> HIDE DEF r
  <2>4. /\ Append(inbox, r) \in Seq(RequestType)
        /\ \A p \in DOMAIN Append(inbox, r) : Append(inbox, r)[p] = r \/
             (p \in DOMAIN inbox /\ Append(inbox, r)[p] = inbox[p])
    BY <2>2, <2>3
  <2>5. inbox' = inbox \/ inbox' = Append(inbox, r)
    BY <1>7 DEF Send, r
  <2>6. /\ inbox' \in Seq(RequestType)
        /\ \A p \in DOMAIN inbox' : inbox'[p].op <= opNo
    <3>1. \A p \in DOMAIN inbox : inbox[p].op <= opNo
      BY DEF TypeInv
    <3>2. CASE inbox' = inbox
      BY <2>3, <3>1, <3>2
    <3>3. CASE inbox' = Append(inbox, r)
      BY <2>2, <2>4, <3>1, <3>3
    <3> QED BY <2>5, <3>2, <3>3
  <2> QED BY <1>7, <2>6 DEF Send, clientVars, opVars, TypeInv
<1>8. ASSUME NEW n \in 1 .. Len(wire), Receive(n) PROVE TypeInv'
  BY <1>8, ReceiveTyped DEF Receive, opVars, TypeInv
<1>9. CASE RaiseTypeError \/ Reject \/ RaiseServerError
  BY <1>9, ConsumeTyped, OutcomesTyped DEF RaiseTypeError, Reject, RaiseServerError
<1>10. CASE ReturnResults
  <2> DEFINE results == Ok([k \in 1 .. Len(asked) |-> Answer(k - 1)])
  <2>1. results \in OutcomeType /\ Consume(results)
    BY <1>10, ResultsTyped DEF ReturnResults
  <2> HIDE DEF results
  <2> QED BY <2>1, ConsumeTyped
<1>11. ASSUME inbox # <<>>,
              NEW body \in HonestBodies(Head(inbox)) \union BadBodies(Head(inbox)),
              ServerAnswers(body)
       PROVE  TypeInv'
  <2>1. inbox \in Seq(RequestType) /\ \A p \in DOMAIN inbox : inbox[p].op <= opNo
    BY DEF TypeInv
  <2>2. /\ Head(inbox) \in RequestType /\ Tail(inbox) \in Seq(RequestType)
        /\ \A p \in DOMAIN Tail(inbox) :
             p + 1 \in DOMAIN inbox /\ Tail(inbox)[p] = inbox[p + 1]
    BY <1>11, <2>1
  <2>3. body \in BodyType
    BY <2>2, BodiesTyped
  <2>4. inbox' = Tail(inbox) /\ SendLine(body) /\ notes' = notes /\ strayed' = strayed
    BY <1>11 DEF ServerAnswers
  <2>5. /\ inbox' \in Seq(RequestType)
        /\ \A p \in DOMAIN inbox' : inbox'[p].op <= opNo
    BY <2>1, <2>2, <2>4
  <2> QED BY <2>3, <2>4, <2>5, SendLineTyped DEF TypeInv
<1>12. CASE ServerNotifies
  <2>1. notes' \in 0 .. MaxNotes /\ strayed' \in BOOLEAN /\ inbox' = inbox
    BY <1>12, BoundsAssumption DEF ServerNotifies, TypeInv
  <2> QED BY <1>12, <2>1, ForeignTyped, SendLineTyped DEF ServerNotifies, TypeInv
<1>13. CASE ServerCloses
  <2>1. <<>> \in Seq(RequestType)
    OBVIOUS
  <2>2. inbox' = <<>> /\ DOMAIN inbox' = {}
    BY <1>13 DEF ServerCloses
  <2> QED BY <1>13, <2>1, <2>2 DEF ServerCloses, clientVars, opVars, TypeInv
<1>14. CASE UNCHANGED vars
  BY <1>14 DEF vars, clientVars, opVars, connVars, TypeInv
<1> QED
  BY <1>1, <1>2, <1>3, <1>4, <1>5, <1>6, <1>7, <1>8, <1>9, <1>10, <1>11, <1>12, <1>13,
     <1>14
  DEF Next, Use, ClientStep, ServerStep

(* StreamInv after the ways a step leaves the stream: empty, or as it was. *)
LEMMA StreamEmptied ==
  ASSUME buf' \in Seq(CellType), Len(buf') = 0, wire' = <<>>, inbox' = <<>>,
         sentLines' = 0, readLines' = 0
  PROVE  StreamInv' /\ Len(Stream') = 0 /\ Unread' = 0
<1>1. Unread' = 0
  BY DEF Unread
<1>2. <<>> \in Seq(CellType) /\ Len(<<>>) = 0
  OBVIOUS
<1>3. Len(Stream') = 0
  <2>1. Len(buf' \o <<>>) = Len(buf') + Len(<<>>)
    BY <1>2, ConcatProperties
  <2> QED BY <1>2, <2>1 DEF Stream
<1>4. 2 * 0 = 0 /\ \A j \in 1 .. 0 : FALSE
  OBVIOUS
<1> QED BY <1>1, <1>3, <1>4 DEF StreamInv

(* A step that leaves the stream and its counters alone keeps its form.    *)
LEMMA StreamKept ==
  ASSUME StreamInv, Stream' = Stream, sock' = sock,
         sentLines' = sentLines, readLines' = readLines, sock = 0 => inbox' = <<>>
  PROVE  StreamInv' /\ Unread' = Unread
<1>1. Unread' = Unread
  BY DEF Unread
<1>2. \A j \in 1 .. Unread : InPlace(j) <=> InPlace(j)'
  BY DEF InPlace
<1> QED BY <1>1, <1>2 DEF StreamInv

(* A new connection starts with an empty stream.                           *)
LEMMA Connects ==
  ASSUME TypeInv, StreamInv, Connect
  PROVE  StreamInv' /\ Len(Stream') = 0 /\ Unread' = 0
<1>1. Unread = 0 - readLines /\ readLines \in Nat /\ Len(Stream) = 2 * Unread
  BY DEF Connect, StreamInv, Unread, TypeInv
<1>2. Len(Stream) = Len(buf) + Len(wire) /\ Len(buf) \in Nat /\ Len(wire) \in Nat
  BY StreamTyped DEF TypeInv
<1>3. Len(buf) = 0
  <2>1. \A b, w, n \in Nat : b + w = 2 * (0 - n) => b = 0
    OBVIOUS
  <2> QED BY <1>1, <1>2, <2>1
<1>4. buf' = buf /\ buf \in Seq(CellType) /\ wire' = <<>> /\ inbox' = <<>>
      /\ sentLines' = 0 /\ readLines' = 0
  BY DEF Connect, NewStream, TypeInv
<1> QED BY <1>3, <1>4, StreamEmptied

(* A closed connection leaves an empty stream.                             *)
LEMMA Closes ==
  ASSUME TypeInv, Close
  PROVE  StreamInv' /\ Len(Stream') = 0 /\ Unread' = 0
<1>1. <<>> \in Seq(CellType) /\ Len(<<>>) = 0
  OBVIOUS
<1> QED BY <1>1, StreamEmptied DEF Close, NewStream, EmptyBuffer

(* A line that is sent goes to the end of the stream.                      *)
LEMMA Sends ==
  ASSUME TypeInv, StreamInv, NEW body \in BodyType, SendLine(body)
  PROVE  StreamInv' /\ Unread' = Unread + 1
<1>1. /\ Len(Stream) = 2 * Unread /\ Unread \in Int /\ Len(Stream) \in Nat
      /\ readLines \in Nat /\ sentLines = Unread + readLines
  BY StreamTyped DEF StreamInv, Unread, TypeInv
<1>2. Unread' = Unread + 1 /\ readLines' = readLines /\ sock' = sock /\ sock # 0
  BY DEF SendLine, Unread, clientVars, TypeInv
<1>3. Len(Stream') = 2 * Unread'
  <2>1. Len(Stream') = Len(Stream) + 2
    BY StreamGrows
  <2> QED BY <1>1, <1>2, <2>1
<1>4. /\ \A p \in 1 .. Len(Stream) : Stream'[p] = Stream[p]
      /\ Stream'[Len(Stream) + 1] = [line |-> Line(body), last |-> FALSE]
      /\ Stream'[Len(Stream) + 2] = [line |-> Line(body), last |-> TRUE]
  BY StreamGrows
<1>5. ASSUME NEW j \in 1 .. Unread PROVE InPlace(j)'
  <2>1. InPlace(j)
    BY DEF StreamInv
  <2>2. 2 * j - 1 \in 1 .. Len(Stream) /\ 2 * j \in 1 .. Len(Stream)
    BY <1>1
  <2>3. Stream'[2 * j - 1] = Stream[2 * j - 1] /\ Stream'[2 * j] = Stream[2 * j]
    BY <1>4, <2>2
  <2> QED BY <1>2, <2>1, <2>3 DEF InPlace
<1>6. ASSUME NEW j \in Int, j = Unread + 1 PROVE InPlace(j)'
  <2>1. 2 * j - 1 = Len(Stream) + 1 /\ 2 * j = Len(Stream) + 2
    BY <1>1, <1>6
  <2>2. Line(body).conn = sock /\ Line(body).no = readLines + j
    BY <1>1, <1>6 DEF Line
  <2>3. /\ Stream'[2 * j - 1] = [line |-> Line(body), last |-> FALSE]
        /\ Stream'[2 * j] = [line |-> Line(body), last |-> TRUE]
    BY <1>4, <2>1
  <2> QED BY <1>2, <2>2, <2>3 DEF InPlace
<1>7. \A j \in 1 .. Unread' : j \in Int /\ (j \in 1 .. Unread \/ j = Unread + 1)
  BY <1>1, <1>2
<1> QED BY <1>2, <1>3, <1>5, <1>6, <1>7 DEF StreamInv

(* The line that is consumed is the first of the stream.                   *)
LEMMA Consumes ==
  ASSUME TypeInv, StreamInv, NEW o, Consume(o)
  PROVE  StreamInv' /\ Unread' = Unread - 1 /\ Unread >= 1
<1>1. /\ Len(Stream) = 2 * Unread /\ Unread \in Int /\ readLines \in Nat
      /\ Unread >= 1
  BY FirstLineReady DEF Consume, StreamInv, Unread, TypeInv
<1>2. /\ Unread' = Unread - 1 /\ readLines' = readLines + 1
      /\ sock' = sock /\ sentLines' = sentLines /\ inbox' = inbox
  BY DEF Consume, Unread, connVars, TypeInv
<1>3. Len(Stream') = Len(Stream) - 2 /\ \A p \in 1 .. Len(Stream') : Stream'[p] = Stream[p + 2]
  BY StreamConsumed DEF Consume, connVars
<1>4. Len(Stream') = 2 * Unread'
  BY <1>1, <1>2, <1>3
<1>5. ASSUME NEW j \in 1 .. Unread' PROVE InPlace(j)'
  <2>1. j + 1 \in 1 .. Unread /\ j \in Nat
    BY <1>1, <1>2
  <2>2. InPlace(j + 1)
    BY <2>1 DEF StreamInv
  <2>3. 2 * j - 1 \in 1 .. Len(Stream') /\ 2 * j \in 1 .. Len(Stream')
    BY <1>1, <1>2, <1>4, <2>1
  <2>4. (2 * j - 1) + 2 = 2 * (j + 1) - 1 /\ 2 * j + 2 = 2 * (j + 1)
        /\ readLines' + j = readLines + (j + 1)
    BY <1>1, <1>2, <2>1
  <2>5. Stream'[2 * j - 1] = Stream[2 * (j + 1) - 1] /\ Stream'[2 * j] = Stream[2 * (j + 1)]
    BY <1>3, <2>3, <2>4
  <2> QED BY <1>2, <2>2, <2>4, <2>5 DEF InPlace
<1> QED BY <1>1, <1>2, <1>4, <1>5 DEF StreamInv

(* Before the first connection there is no stream.                         *)
LEMMA InitStream == Init => StreamInv
<1> SUFFICES ASSUME Init PROVE StreamInv
  OBVIOUS
<1>1. Unread = 0
  BY DEF Init, Unread
<1>2. <<>> \in Seq(CellType) /\ Len(<<>>) = 0
  OBVIOUS
<1>3. Len(Stream) = 0
  <2>1. Len(<<>> \o <<>>) = Len(<<>>) + Len(<<>>)
    BY <1>2, ConcatProperties
  <2> QED BY <1>2, <2>1 DEF Init, Stream
<1>4. 2 * 0 = 0 /\ \A j \in 1 .. 0 : FALSE
  OBVIOUS
<1> QED BY <1>1, <1>3, <1>4 DEF Init, StreamInv

(* Every step keeps the form of the stream.                                *)
LEMMA NextStream == TypeInv /\ StreamInv /\ [Next]_vars => StreamInv'
<1> SUFFICES ASSUME TypeInv, StreamInv, [Next]_vars PROVE StreamInv'
  OBVIOUS
<1>1. CASE UserConnect \/ AutoConnect
  BY <1>1, Connects DEF UserConnect, AutoConnect
<1>2. CASE Close
  BY <1>2, Closes
<1>3. ASSUME NEW sh, NEW ps, NEW to, NEW o, Begin(sh, ps, to, o) PROVE StreamInv'
  BY <1>3, StreamKept DEF Begin, clientVars, connVars, Stream, StreamInv
<1>4. CASE CannotConnect \/ Send \/ SendFails \/ ReceiveFails
  BY <1>4, StreamKept
  DEF CannotConnect, Send, SendFails, ReceiveFails, clientVars, connVars, Stream, StreamInv
<1>5. ASSUME NEW n \in 1 .. Len(wire), Receive(n) PROVE StreamInv'
  BY <1>5, StreamReceives, StreamKept DEF Receive, StreamInv
<1>6. CASE RaiseTypeError \/ Reject \/ RaiseServerError \/ ReturnResults
  BY <1>6, Consumes DEF RaiseTypeError, Reject, RaiseServerError, ReturnResults
<1>7. ASSUME inbox # <<>>,
             NEW body \in HonestBodies(Head(inbox)) \union BadBodies(Head(inbox)),
             ServerAnswers(body)
      PROVE  StreamInv'
  <2>1. Head(inbox) \in RequestType
    BY <1>7 DEF TypeInv
  <2>2. body \in BodyType
    BY <2>1, BodiesTyped
  <2> QED BY <1>7, <2>2, Sends DEF ServerAnswers
<1>8. CASE ServerNotifies
  BY <1>8, ForeignTyped, Sends DEF ServerNotifies
<1>9. CASE ServerCloses
  BY <1>9, StreamKept DEF ServerCloses, clientVars, Stream
<1>10. CASE UNCHANGED vars
  BY <1>10, StreamKept DEF vars, clientVars, connVars, Stream, StreamInv
<1> QED
  BY <1>1, <1>2, <1>3, <1>4, <1>5, <1>6, <1>7, <1>8, <1>9, <1>10
  DEF Next, Use, ClientStep, ServerStep, BeginCall, BeginBatch, EmptyBatch

(* However recv() cuts the stream, what call() and batch() decode is the   *)
(* next line the server sent on the open connection, whole.                *)
THEOREM LinesComeWhole == Spec => []Framing
<1>1. Init => TypeInv /\ StreamInv
  BY InitType, InitStream
<1>2. TypeInv /\ StreamInv /\ [Next]_vars => (TypeInv /\ StreamInv)'
  BY NextType, NextStream
<1> QED BY <1>1, <1>2, FramingHolds, PTL DEF Spec

-----------------------------------------------------------------------------
(* Correlation.                                                            *)

(* An entry whose id is that of a request of the running operation is the  *)
(* answer to it.                                                           *)
OwnEntry(e) == e.id \in Nat => e.of = <<opNo, e.id + 1>>
OwnBody(b)  == \A q \in DOMAIN b.entries : OwnEntry(b.entries[q])

(* What the server has been asked and what it has answered are about the   *)
(* latest operation.                                                       *)
OwnTraffic ==
  /\ \A p \in 1 .. Len(inbox) : inbox[p].op = opNo
  /\ \A p \in 1 .. Len(Stream) : OwnBody(Stream[p].line.body)

(* Correlated needs that on a connection nothing has strayed on, the       *)
(* server owes nothing between operations, and inside one at most one      *)
(* line, about this operation.                                             *)
OwesInv ==
  ~strayed =>
    /\ Len(inbox) + Unread <= IF pc = "recv" THEN 1 ELSE 0
    /\ OwnTraffic

(* On a stream that is empty and owes nothing there is nothing foreign.    *)
LEMMA NothingOwed ==
  ASSUME Len(inbox) = 0, Len(Stream) = 0
  PROVE  OwnTraffic
BY DEF OwnTraffic

(* Whatever the server answers to a request is about that request.         *)
LEMMA BodiesOwn ==
  ASSUME NEW r \in RequestType, r.op = opNo,
         NEW body \in HonestBodies(r) \union BadBodies(r)
  PROVE  OwnBody(body)
<1>1. ASSUME NEW k \in 1 .. r.count, NEW e \in Answers(r, k) PROVE OwnEntry(e)
  <2>1. PICK kind \in Kinds : e = [id |-> k - 1, kind |-> kind, of |-> <<opNo, k>>]
    BY DEF Answers, Entry
  <2>2. (k - 1) + 1 = k
    BY DEF RequestType
  <2> QED BY <2>1, <2>2 DEF OwnEntry
<1>2. OwnEntry(Foreign(Other)) /\ OwnEntry(Foreign(Unhashable))
  BY DEF OwnEntry, Foreign, Entry, Other, Unhashable
<1>3. CASE body \in HonestBodies(r)
  <2>1. PICK es \in [1 .. r.count -> UNION {Answers(r, k) : k \in 1 .. r.count}] :
          body = Body(r.shape, es)
    BY <1>3 DEF HonestBodies
  <2>2. \A q \in DOMAIN es : OwnEntry(es[q])
    BY <1>1, <2>1
  <2> QED BY <2>1, <2>2 DEF Body, OwnBody
<1>4. CASE body \in BadBodies(r)
  <2> DEFINE first == CHOOSE e \in Answers(r, 1) : TRUE
             rest  == [k \in 1 .. (r.count - 1) |-> first]
  <2>1. OwnEntry(first) /\ first \in Entries
    <3>1. 1 \in 1 .. r.count
      BY DEF RequestType
    <3> QED BY <1>1, <3>1, AnswersTyped
  <2> HIDE DEF first
  <2>2. rest \in Seq(Entries) /\ \A q \in DOMAIN rest : OwnEntry(rest[q])
    <3>1. r.count - 1 \in Nat
      BY DEF RequestType
    <3> QED BY <2>1, <3>1
  <2> HIDE DEF rest
  <2>3. ASSUME NEW e \in Entries, OwnEntry(e)
        PROVE  \A q \in DOMAIN Append(rest, e) : OwnEntry(Append(rest, e)[q])
    <3>1. \A q \in DOMAIN Append(rest, e) :
            Append(rest, e)[q] = e \/ (q \in DOMAIN rest /\ Append(rest, e)[q] = rest[q])
      BY <2>2
    <3> QED BY <2>2, <2>3, <3>1
  <2>4. \/ body \in {NotJson, Body("scalar", <<>>), Body(r.shape, rest),
                     Body("array", <<first>>), Body("object", <<first>>)}
        \/ \E e \in {Foreign(Other), Foreign(Unhashable), first} :
             body = Body(r.shape, Append(rest, e))
    BY <1>4 DEF BadBodies, first, rest
  <2>5. body.entries \in {<<>>, rest, <<first>>}
          \/ \E e \in {Foreign(Other), Foreign(Unhashable), first} :
               body.entries = Append(rest, e)
    BY <2>4 DEF Body, NotJson
  <2>6. CASE body.entries \in {<<>>, rest, <<first>>}
    <3>1. \A q \in DOMAIN <<first>> : <<first>>[q] = first
      OBVIOUS
    <3>2. DOMAIN <<>> = {}
      OBVIOUS
    <3> QED BY <2>1, <2>2, <2>6, <3>1, <3>2 DEF OwnBody
  <2>7. CASE \E e \in {Foreign(Other), Foreign(Unhashable), first} :
               body.entries = Append(rest, e)
    BY <1>2, <2>1, <2>3, <2>7, ForeignTyped DEF OwnBody
  <2> QED BY <2>5, <2>6, <2>7
<1> QED BY <1>3, <1>4

(* A line with nothing foreign in it, added to the traffic.                *)
LEMMA OwnLineSent ==
  ASSUME TypeInv, OwnTraffic, NEW body \in BodyType, SendLine(body), OwnBody(body),
         \A p \in 1 .. Len(inbox') : inbox'[p].op = opNo
  PROVE  OwnTraffic'
<1>1. opNo' = opNo /\ \A b : OwnBody(b) => OwnBody(b)'
  BY DEF SendLine, opVars, OwnBody, OwnEntry
<1>2. Len(Stream) \in Nat /\ Len(Stream') = Len(Stream) + 2
  <2>1. Len(Stream) \in Nat
    BY StreamTyped
  <2>2. Len(Stream') = Len(Stream) + 2
    BY StreamGrows
  <2> QED BY <2>1, <2>2
<1>3. ASSUME NEW p \in 1 .. Len(Stream') PROVE OwnBody(Stream[p].line.body)'
  <2>1. \/ p \in 1 .. Len(Stream)
        \/ p = Len(Stream) + 1
        \/ p = Len(Stream) + 2
    BY <1>2
  <2>2. CASE p \in 1 .. Len(Stream)
    <3>1. Stream'[p] = Stream[p]
      BY <2>2, StreamGrows
    <3> QED BY <1>1, <2>2, <3>1 DEF OwnTraffic
  <2>3. CASE p = Len(Stream) + 1 \/ p = Len(Stream) + 2
    <3>1. Stream'[p].line.body = body
      <4>1. /\ Stream'[Len(Stream) + 1] = [line |-> Line(body), last |-> FALSE]
            /\ Stream'[Len(Stream) + 2] = [line |-> Line(body), last |-> TRUE]
        BY StreamGrows
      <4> QED BY <2>3, <4>1 DEF Line
    <3> QED BY <1>1, <3>1
  <2> QED BY <2>1, <2>2, <2>3
<1> QED BY <1>1, <1>3 DEF OwnTraffic

(* Sending a request adds one about the running operation.                 *)
LEMMA RequestSent ==
  ASSUME TypeInv, Send, OwnTraffic
  PROVE  Len(inbox') <= Len(inbox) + 1 /\ OwnTraffic'
<1> DEFINE r == [op |-> opNo, shape |-> shape, count |-> Len(asked)]
<1>1. inbox \in Seq(RequestType) /\ \A p \in 1 .. Len(inbox) : inbox[p].op = opNo
  BY DEF OwnTraffic, TypeInv
<1>2. inbox' = inbox \/ inbox' = Append(inbox, r)
  BY DEF Send
<1>3. r.op = opNo /\ UNCHANGED <<opNo, Stream>>
  BY DEF Send, opVars, clientVars, Stream
<1> HIDE DEF r
<1>4. /\ Len(Append(inbox, r)) = Len(inbox) + 1 /\ Len(inbox) \in Nat
      /\ \A p \in 1 .. Len(inbox) + 1 :
           Append(inbox, r)[p] = IF p <= Len(inbox) THEN inbox[p] ELSE r
  BY <1>1
<1>5. Len(inbox') <= Len(inbox) + 1 /\ \A p \in 1 .. Len(inbox') : inbox'[p].op = opNo
  <2>1. CASE inbox' = inbox
    BY <1>1, <1>4, <2>1
  <2>2. CASE inbox' = Append(inbox, r)
    BY <1>1, <1>3, <1>4, <2>2
  <2> QED BY <1>2, <2>1, <2>2
<1> QED BY <1>3, <1>5 DEF OwnTraffic, OwnBody, OwnEntry

(* A step of the client or of the server inside an operation keeps the     *)
(* traffic of the connection about that operation.                         *)
LEMMA TrafficKept ==
  ASSUME TypeInv, StreamInv, OwnTraffic, ClientStep \/ ServerStep
  PROVE  OwnTraffic'
<1>1. CASE AutoConnect
  <2>1. Len(Stream') = 0
    BY <1>1, Connects DEF AutoConnect
  <2>2. Len(inbox') = 0
    BY <1>1 DEF AutoConnect, Connect, NewStream
  <2> QED BY <2>1, <2>2 DEF OwnTraffic
<1>2. CASE CannotConnect \/ SendFails \/ ReceiveFails
  <2>1. UNCHANGED <<inbox, opNo, buf, wire>>
    BY <1>2 DEF CannotConnect, SendFails, ReceiveFails, clientVars, opVars, connVars
  <2> QED BY <2>1 DEF OwnTraffic, OwnBody, OwnEntry, Stream
<1>3. ASSUME NEW n \in 1 .. Len(wire), Receive(n) PROVE OwnTraffic'
  <2>1. Stream' = Stream /\ UNCHANGED <<inbox, opNo>>
    BY <1>3, StreamReceives DEF Receive, opVars
  <2> QED BY <2>1 DEF OwnTraffic, OwnBody, OwnEntry
<1>4. CASE RaiseTypeError \/ Reject \/ RaiseServerError \/ ReturnResults
  <2>1. PICK o : Consume(o)
    BY <1>4 DEF RaiseTypeError, Reject, RaiseServerError, ReturnResults
  <2>2. UNCHANGED <<inbox, opNo>> /\ HasLine /\ buf' = RestOfBuffer /\ wire' = wire
    BY <2>1 DEF Consume, opVars, connVars
  <2>3. Len(Stream) \in Nat
    BY StreamTyped
  <2>4. /\ Len(Stream') = Len(Stream) - 2
        /\ \A p \in 1 .. Len(Stream') : Stream'[p] = Stream[p + 2]
    BY <2>2, StreamConsumed
  <2>5. \A p \in 1 .. Len(Stream') : p + 2 \in 1 .. Len(Stream)
    BY <2>3, <2>4
  <2> QED BY <2>2, <2>4, <2>5 DEF OwnTraffic, OwnBody, OwnEntry
<1>5. ASSUME inbox # <<>>,
             NEW body \in HonestBodies(Head(inbox)) \union BadBodies(Head(inbox)),
             ServerAnswers(body)
      PROVE  OwnTraffic'
  <2>1. inbox \in Seq(RequestType) /\ \A p \in 1 .. Len(inbox) : inbox[p].op = opNo
    BY DEF OwnTraffic, TypeInv
  <2>2. /\ Head(inbox) \in RequestType /\ Head(inbox).op = opNo
        /\ \A p \in 1 .. Len(Tail(inbox)) : Tail(inbox)[p].op = opNo
    BY <1>5, <2>1
  <2>3. body \in BodyType /\ OwnBody(body)
    BY <2>2, BodiesTyped, BodiesOwn
  <2> QED BY <1>5, <2>2, <2>3, OwnLineSent DEF ServerAnswers
<1>6. CASE ServerNotifies
  <2>1. OwnBody(Notification)
    BY DEF Notification, Body, OwnBody, OwnEntry, Foreign, Entry, Other
  <2>2. \A p \in 1 .. Len(inbox') : inbox'[p].op = opNo
    BY <1>6 DEF ServerNotifies, OwnTraffic
  <2> QED BY <1>6, <2>1, <2>2, ForeignTyped, OwnLineSent DEF ServerNotifies
<1>7. CASE ServerCloses
  <2>1. Stream' = Stream /\ opNo' = opNo /\ Len(inbox') = 0
    BY <1>7 DEF ServerCloses, clientVars, opVars, Stream
  <2> QED BY <2>1 DEF OwnTraffic, OwnBody, OwnEntry
<1> QED
  BY <1>1, <1>2, <1>3, <1>4, <1>5, <1>6, <1>7, RequestSent DEF ClientStep, ServerStep

(* Initially the server owes nothing.                                      *)
LEMMA InitOwes == Init => OwesInv
<1> SUFFICES ASSUME Init PROVE OwesInv
  OBVIOUS
<1>1. Unread = 0 /\ Len(inbox) = 0 /\ Len(Stream) = 2 * Unread
  BY InitStream DEF Init, Unread, StreamInv
<1>2. OwnTraffic
  BY <1>1, NothingOwed
<1> QED BY <1>1, <1>2 DEF Init, OwesInv

(* Every step keeps what an unstrayed connection may owe.                  *)
LEMMA NextOwes == TypeInv /\ StreamInv /\ OwesInv /\ [Next]_vars => OwesInv'
<1> SUFFICES ASSUME TypeInv, StreamInv, OwesInv, [Next]_vars PROVE OwesInv'
  OBVIOUS
<1>1. /\ Len(Stream) = 2 * Unread /\ Unread \in Nat /\ Len(inbox) \in Nat
  <2>1. Len(Stream) = 2 * Unread /\ Unread \in Int /\ Len(inbox) \in Nat
    BY DEF StreamInv, Unread, TypeInv
  <2>2. Len(Stream) \in Nat
    BY StreamTyped
  <2> QED BY <2>1, <2>2
<1>2. ASSUME ~strayed, pc # "recv"
      PROVE  Len(inbox) = 0 /\ Unread = 0 /\ Len(Stream) = 0
  BY <1>1, <1>2 DEF OwesInv
<1>3. ASSUME Len(inbox') = 0, Len(Stream') = 0, Unread' = 0 PROVE OwesInv'
  BY <1>3 DEF OwesInv, OwnTraffic
<1>4. CASE UserConnect \/ AutoConnect \/ Close
  <2>1. Len(Stream') = 0 /\ Unread' = 0
    BY <1>4, Connects, Closes DEF UserConnect, AutoConnect
  <2>2. Len(inbox') = 0
    BY <1>4 DEF UserConnect, AutoConnect, Connect, Close, NewStream
  <2> QED BY <1>3, <2>1, <2>2
<1>5. ASSUME NEW sh, NEW ps, NEW to \in {"idle", "send"}, NEW o, Begin(sh, ps, to, o)
      PROVE  OwesInv'
  <2>1. pc = "idle" /\ UNCHANGED <<inbox, Stream, Unread, strayed>>
    BY <1>5 DEF Begin, clientVars, connVars, Stream, Unread
  <2>2. CASE strayed
    BY <2>1, <2>2 DEF OwesInv
  <2> QED BY <1>2, <1>3, <2>1, <2>2
<1>6. CASE CannotConnect
  <2>1. pc = "send" /\ UNCHANGED <<inbox, Stream, Unread, strayed>>
    BY <1>6 DEF CannotConnect, clientVars, connVars, Stream, Unread
  <2>2. CASE strayed
    BY <2>1, <2>2 DEF OwesInv
  <2> QED BY <1>2, <1>3, <2>1, <2>2
<1>7. CASE SendFails \/ ReceiveFails \/ ServerNotifies
  BY <1>7 DEF SendFails, ReceiveFails, ServerNotifies, OwesInv
<1>8. CASE Send
  <2>1. pc = "send" /\ pc' = "recv" /\ UNCHANGED <<Unread, strayed>>
    BY <1>8 DEF Send, connVars, Unread
  <2>2. CASE strayed
    BY <2>1, <2>2 DEF OwesInv
  <2>3. CASE ~strayed
    <3>1. Len(inbox') <= 1 /\ OwnTraffic' /\ Unread' = 0
      BY <1>2, <1>8, <2>1, <2>3, RequestSent DEF OwesInv
    <3>2. Len(inbox') \in Nat
      BY <1>8, NextType DEF Next, ClientStep, TypeInv
    <3>3. Len(inbox') + Unread' <= 1
      BY <3>1, <3>2
    <3> QED BY <2>1, <3>1, <3>3 DEF OwesInv
  <2> QED BY <2>2, <2>3
<1>9. ASSUME NEW n \in 1 .. Len(wire), Receive(n) PROVE OwesInv'
  <2>1. Stream' = Stream /\ UNCHANGED <<inbox, opNo, Unread, strayed, pc>>
    BY <1>9, StreamReceives DEF Receive, opVars, Unread
  <2> QED BY <2>1 DEF OwesInv, OwnTraffic, OwnBody, OwnEntry
<1>10. CASE RaiseTypeError \/ Reject \/ RaiseServerError \/ ReturnResults
  <2>1. PICK o : Consume(o)
    BY <1>10 DEF RaiseTypeError, Reject, RaiseServerError, ReturnResults
  <2>2. pc = "recv" /\ inbox' = inbox /\ strayed' = strayed
    BY <2>1 DEF Consume, connVars
  <2>3. StreamInv' /\ Unread' = Unread - 1 /\ Unread >= 1
    BY <2>1, Consumes
  <2>4. CASE strayed
    BY <2>2, <2>4 DEF OwesInv
  <2>5. CASE ~strayed
    <3>1. Unread' = 0 /\ Len(inbox') = 0
      BY <1>1, <2>2, <2>3, <2>5 DEF OwesInv
    <3>2. Len(Stream') = 0
      BY <2>3, <3>1 DEF StreamInv
    <3> QED BY <1>3, <3>1, <3>2
  <2> QED BY <2>4, <2>5
<1>11. ASSUME inbox # <<>>,
              NEW body \in HonestBodies(Head(inbox)) \union BadBodies(Head(inbox)),
              ServerAnswers(body)
       PROVE  OwesInv'
  <2>1. inbox \in Seq(RequestType)
    BY DEF TypeInv
  <2>2. Head(inbox) \in RequestType /\ Len(Tail(inbox)) = Len(inbox) - 1
    BY <1>11, <2>1
  <2>3. body \in BodyType
    BY <2>2, BodiesTyped
  <2>4. Unread' = Unread + 1 /\ Len(inbox') = Len(inbox) - 1
    BY <1>11, <2>2, <2>3, Sends DEF ServerAnswers
  <2>5. pc' = pc /\ strayed' = strayed
    BY <1>11 DEF ServerAnswers, SendLine
  <2>6. ASSUME ~strayed PROVE OwnTraffic'
    BY <1>11, <2>6, TrafficKept DEF OwesInv, ServerStep
  <2>7. Len(inbox') + Unread' = Len(inbox) + Unread
    BY <1>1, <2>4
  <2> QED BY <2>5, <2>6, <2>7 DEF OwesInv
<1>12. CASE ServerCloses
  <2>1. Len(inbox') = 0 /\ UNCHANGED <<Unread, pc, strayed>>
    BY <1>12 DEF ServerCloses, Unread
  <2>2. ASSUME ~strayed PROVE OwnTraffic'
    BY <1>12, <2>2, TrafficKept DEF OwesInv, ServerStep
  <2>3. ASSUME ~strayed PROVE Len(inbox') + Unread' <= IF pc = "recv" THEN 1 ELSE 0
    BY <1>1, <2>1, <2>3 DEF OwesInv
  <2> QED BY <2>1, <2>2, <2>3 DEF OwesInv
<1>13. CASE UNCHANGED vars
  BY <1>13 DEF vars, clientVars, opVars, connVars, Stream, Unread, OwesInv, OwnTraffic,
     OwnBody, OwnEntry
<1> QED
  BY <1>4, <1>5, <1>6, <1>7, <1>8, <1>9, <1>10, <1>11, <1>12, <1>13
  DEF Next, Use, ClientStep, ServerStep, BeginCall, BeginBatch, EmptyBatch

(* What an operation accepts answers its own requests, when all of the     *)
(* traffic does.                                                           *)
LEMMA AcceptedOwn ==
  ASSUME TypeInv, StreamInv, OwnTraffic, Accepted, NEW k \in 1 .. Len(asked)
  PROVE  Answer(k - 1).of = Item(k)
<1>1. HasLine
  BY DEF Accepted
<1>2. Framing /\ buf[1] = Stream[1] /\ Unread >= 1
  BY <1>1, FramingHolds, FirstLineReady
<1>3. Parsed = Stream[1].line.body
  BY <1>1, <1>2 DEF Framing, Parsed
<1>4. 1 \in 1 .. Len(Stream)
  BY <1>2 DEF StreamInv, Unread, TypeInv
<1>5. OwnBody(Parsed)
  BY <1>3, <1>4 DEF OwnTraffic
<1>6. k - 1 \in Sent /\ k - 1 \in Nat /\ (k - 1) + 1 = k
  BY DEF Sent, TypeInv
<1>7. PICK p \in DOMAIN Parts : Answer(k - 1) = Parts[p] /\ Parts[p].id = k - 1
  BY <1>6, AnswerChosen
<1> QED BY <1>5, <1>6, <1>7 DEF OwnBody, OwnEntry, Parts, Item

(* The action property of the run, one step at a time.                     *)
LEMMA StepCorrelates ==
  TypeInv /\ StreamInv /\ OwesInv /\ [Next]_vars =>
    [pc = "recv" /\ ~strayed /\ outcome'.tag = "ok" =>
       [k \in DOMAIN outcome'.value |-> outcome'.value[k].of] = Own]_vars
<1> SUFFICES ASSUME TypeInv, StreamInv, OwesInv, Next,
                    pc = "recv", ~strayed, outcome'.tag = "ok"
             PROVE  [k \in DOMAIN outcome'.value |-> outcome'.value[k].of] = Own
  OBVIOUS
<1>1. outcome.tag = "pending"
  BY DEF TypeInv, Pending
<1>2. ASSUME outcome' = outcome \/ \E e \in {"RpcError", "ConnectionError", "TypeError"} :
                                       outcome' = Raised(e)
      PROVE  FALSE
  BY <1>1, <1>2 DEF Raised
<1>3. ReturnResults
  BY <1>2
  DEF Next, Use, ClientStep, ServerStep, UserConnect, Close, EmptyBatch, BeginCall,
      BeginBatch, Begin, AutoConnect, CannotConnect, Send, SendFails, Receive,
      ReceiveFails, RaiseTypeError, Reject, RaiseServerError, Consume, End, Connect,
      ServerAnswers, ServerNotifies, ServerCloses, SendLine
<1>4. outcome'.value = [k \in 1 .. Len(asked) |-> Answer(k - 1)]
  BY <1>3 DEF ReturnResults, Consume, End, Ok
<1>5. \A k \in 1 .. Len(asked) : Answer(k - 1).of = Item(k)
  BY <1>3, AcceptedOwn DEF OwesInv, ReturnResults
<1> QED BY <1>4, <1>5 DEF Own

(* On a connection where nothing has strayed, call() and batch() return    *)
(* the answers to their own requests, in request order.                    *)
THEOREM ResultsCorrelated == Spec => Correlated
<1>1. Init => TypeInv /\ StreamInv /\ OwesInv
  BY InitType, InitStream, InitOwes
<1>2. TypeInv /\ StreamInv /\ OwesInv /\ [Next]_vars => (TypeInv /\ StreamInv /\ OwesInv)'
  BY NextType, NextStream, NextOwes
<1> QED BY <1>1, <1>2, StepCorrelates, PTL DEF Spec, Correlated

-----------------------------------------------------------------------------
(* The inductive invariant.                                                *)

ResultTags == {"none", "ok", "AddressError", "RpcError", "ConnectionError",
               "TypeError", "FieldError"}

QueryType ==
  /\ qpc \in {"idle", "enter", "ask", "wait", "convert"}
  /\ addresses \in Seq(Addresses) /\ Len(addresses) <= MaxBatch
  /\ many \in BOOLEAN
  /\ result.tag \in ResultTags
  /\ qpc # "idle" => result = NoResult

(* A query that got past its first line asks about valid addresses, one of *)
(* them when it is not a batched one.                                      *)
Askable ==
  qpc # "idle" =>
    /\ addresses # <<>>
    /\ Range(addresses) \subseteq DOMAIN Scripthash
    /\ ~many => Len(addresses) = 1

(* The connection is open from the end of __enter__ to __exit__.           *)
OpenInside ==
  /\ sock = 0 <=> qpc \in {"idle", "enter", "convert"}
  /\ qpc # "wait" => pc = "idle"

(* Nothing has been asked on the connection, and what the server sent      *)
(* answers nothing.                                                        *)
Unasked ==
  /\ Len(inbox) = 0
  /\ \A p \in 1 .. Len(Stream) :
       LET es == Stream[p].line.body.entries
       IN  \A q \in DOMAIN es : es[q].id \notin Nat

(* The client's one operation asked for every address, and what it         *)
(* returned are the answers to it.                                         *)
Answered ==
  /\ DOMAIN outcome.value = 1 .. Len(addresses)
  /\ \A k \in 1 .. Len(addresses) : outcome.value[k].of = Item(k)

AskedOnce ==
  /\ qpc = "ask" => Unasked
  /\ qpc = "wait" =>
       /\ OwnTraffic
       /\ Len(asked) = Len(addresses)
       /\ pc = "idle" => outcome.tag # "pending"
       /\ outcome.tag = "ok" => Answered
  /\ qpc = "convert" => Answered

OwnResult ==
  result.tag = "ok" /\ addresses # <<>> =>
    /\ DOMAIN result.value = Range(addresses)
    /\ \A a \in DOMAIN result.value :
         \E k \in DOMAIN addresses : addresses[k] = a /\ result.value[a] = <<opNo, k>>

QInv ==
  /\ TypeInv /\ StreamInv
  /\ QueryType /\ Askable /\ OpenInside /\ AskedOnce /\ OwnResult

-----------------------------------------------------------------------------
(* The steps of a query are steps its client allows.                       *)

(* What a query asks for are scripthashes, one for each address.           *)
LEMMA RequestsTyped ==
  ASSUME QueryType, Askable, qpc # "idle"
  PROVE  LET ps == [k \in DOMAIN addresses |-> Scripthash[addresses[k]]]
         IN  /\ ps \in Seq(Params) /\ Len(ps) = Len(addresses) /\ Len(ps) <= MaxBatch
             /\ Scripthash[addresses[1]] \in Params
<1>1. Len(addresses) \in Nat /\ Len(addresses) # 0
      /\ DOMAIN addresses = 1 .. Len(addresses)
  BY EmptySeq DEF QueryType, Askable
<1>2. \A k \in 1 .. Len(addresses) : Scripthash[addresses[k]] \in Params
  BY <1>1, ScripthashAssumption DEF Askable, Range
<1>3. 1 \in 1 .. Len(addresses)
  BY <1>1
<1>4. [k \in DOMAIN addresses |-> Scripthash[addresses[k]]]
        \in [1 .. Len(addresses) -> Params]
  BY <1>1, <1>2
<1>5. /\ [k \in DOMAIN addresses |-> Scripthash[addresses[k]]] \in Seq(Params)
      /\ Len([k \in DOMAIN addresses |-> Scripthash[addresses[k]]]) = Len(addresses)
  BY <1>1, <1>4
<1> QED BY <1>2, <1>3, <1>5 DEF QueryType

(* A step of a query is a step of the client or leaves the client alone.   *)
LEMMA StepAllowed ==
  ASSUME QInv, [QNext]_allVars
  PROVE  [Next]_vars
<1>1. CASE Enter
  <2>1. qpc = "enter" /\ Connect
    BY <1>1 DEF Enter, QGoto
  <2>2. pc = "idle"
    BY <2>1 DEF QInv, OpenInside
  <2> QED BY <2>1, <2>2 DEF UserConnect, Use, Next
<1>2. CASE Ask
  <2>1. qpc = "ask"
    BY <1>2 DEF Ask, QGoto
  <2> DEFINE ps == [k \in DOMAIN addresses |-> Scripthash[addresses[k]]]
  <2>2. /\ ps \in Seq(Params) /\ Len(ps) <= MaxBatch
        /\ Scripthash[addresses[1]] \in Params
    BY <2>1, RequestsTyped DEF QInv
  <2>3. BeginBatch(ps) \/ BeginCall(Scripthash[addresses[1]])
    BY <1>2 DEF Ask
  <2> HIDE DEF ps
  <2>4. ps \in BoundedSeq(Params, MaxBatch)
    BY <2>2, AskedTyped
  <2> QED BY <2>2, <2>3, <2>4 DEF Use, Next
<1>3. CASE Leave
  BY <1>3 DEF Leave, CloseClient, Use, Next
<1>4. CASE Inside(ClientStep) \/ Inside(ServerStep)
  BY <1>4 DEF Inside, Next
<1>5. ASSUME NEW as, NEW b, Query(as, b) PROVE UNCHANGED vars
  BY <1>5 DEF Query
<1>6. CASE EnterFails \/ Convert \/ ConvertFails
  BY <1>6 DEF EnterFails, Convert, ConvertFails
<1>7. CASE UNCHANGED allVars
  BY <1>7 DEF allVars
<1> QED BY <1>1, <1>2, <1>3, <1>4, <1>5, <1>6, <1>7 DEF QNext, QueryStep

-----------------------------------------------------------------------------
(* Every finite sequence that holds a has a last place where it does.      *)
LEMMA LastPlace ==
  ASSUME addresses \in Seq(Addresses), NEW a \in Range(addresses)
  PROVE  LastAt(a) \in DOMAIN addresses /\ addresses[LastAt(a)] = a
<1> DEFINE n == Len(addresses)
           T == {d \in Nat : \E k \in 1 .. n : addresses[k] = a /\ d = n - k}
<1>1. n \in Nat /\ DOMAIN addresses = 1 .. n
  OBVIOUS
<1> HIDE DEF n
<1>2. PICK k \in 1 .. n : addresses[k] = a
  BY <1>1 DEF Range
<1>3. n - k \in T
  BY <1>1, <1>2
<1>4. PICK d \in T : \A e \in T : ~(<<e, d>> \in OpToRel(<, Nat))
  <2>1. T \subseteq Nat /\ T # {}
    BY <1>3
  <2> HIDE DEF T
  <2> QED BY <2>1, NatLessThanWellFounded, WFMin
<1>5. \A e \in T : ~(e < d)
  BY <1>4 DEF OpToRel
<1>6. PICK m \in 1 .. n : addresses[m] = a /\ d = n - m
  BY <1>4
<1>7. ASSUME NEW j \in DOMAIN addresses, addresses[j] = a PROVE j <= m
  <2>1. j \in 1 .. n /\ n - j \in Nat
    BY <1>1
  <2>2. n - j \in T
    BY <1>7, <2>1
  <2>3. ~(n - j < n - m)
    BY <1>5, <1>6, <2>2
  <2> QED BY <1>1, <2>1, <2>3
<1>8. \E l \in DOMAIN addresses :
        addresses[l] = a /\ \A j \in DOMAIN addresses : addresses[j] = a => j <= l
  BY <1>1, <1>6, <1>7
<1> QED BY <1>8 DEF LastAt

(* dict(zip(addresses, results)) gives each address the answer to a        *)
(* request for it, repeated addresses included.                            *)
LEMMA ZippedOwn ==
  ASSUME QueryType, Answered
  PROVE  /\ DOMAIN Zipped = Range(addresses)
         /\ \A a \in DOMAIN Zipped :
              \E k \in DOMAIN addresses : addresses[k] = a /\ Zipped[a] = <<opNo, k>>
<1>1. addresses \in Seq(Addresses) /\ DOMAIN addresses = 1 .. Len(addresses)
  BY DEF QueryType
<1>2. ASSUME NEW a \in Range(addresses)
      PROVE  \E k \in DOMAIN addresses : addresses[k] = a /\ Zipped[a] = <<opNo, k>>
  <2>1. LastAt(a) \in DOMAIN addresses /\ addresses[LastAt(a)] = a
    BY <1>1, LastPlace
  <2>2. Zipped[a] = outcome.value[LastAt(a)].of
    BY DEF Zipped
  <2>3. outcome.value[LastAt(a)].of = <<opNo, LastAt(a)>>
    BY <1>1, <2>1 DEF Answered, Item
  <2> QED BY <2>1, <2>2, <2>3
<1> QED BY <1>2 DEF Zipped

-----------------------------------------------------------------------------
(* The invariant is inductive.                                             *)

(* It holds before the first query.                                        *)
LEMMA InitQuery == QInit => QInv
<1> SUFFICES ASSUME QInit PROVE QInv
  OBVIOUS
<1>1. TypeInv /\ StreamInv
  BY InitType, InitStream DEF QInit
<1>2. <<>> \in Seq(Addresses) /\ Len(<<>>) <= MaxBatch
  BY BoundsAssumption
<1>3. QueryType /\ OpenInside /\ OwnResult
  BY <1>2 DEF QInit, Init, NoResult, QueryType, ResultTags, OpenInside, OwnResult
<1>4. Askable /\ AskedOnce
  BY DEF QInit, Askable, AskedOnce
<1> QED BY <1>1, <1>3, <1>4 DEF QInv

(* The client works only inside the block, between the request and the     *)
(* outcome of the query's one operation.                                   *)
LEMMA ClientInside ==
  ASSUME QInv, Inside(ClientStep)
  PROVE  (OpenInside /\ AskedOnce)'
<1>1. ClientStep /\ UNCHANGED <<qpc, queryVars>>
  BY DEF Inside
<1>2. pc # "idle" /\ TypeInv /\ StreamInv
  BY <1>1
  DEF QInv, ClientStep, AutoConnect, CannotConnect, Send, SendFails, Receive, ReceiveFails,
      RaiseTypeError, Reject, ReturnResults, RaiseServerError, Consume
<1>3. qpc = "wait" /\ sock # 0 /\ OwnTraffic /\ Len(asked) = Len(addresses)
  BY <1>2 DEF QInv, OpenInside, AskedOnce
<1>4. ~AutoConnect
  BY <1>3 DEF AutoConnect, Connect
<1>5. UNCHANGED <<sock, opNo, asked>>
  BY <1>1, <1>4
  DEF ClientStep, CannotConnect, Send, SendFails, Receive, ReceiveFails, RaiseTypeError,
      Reject, ReturnResults, RaiseServerError, Consume, clientVars, opVars
<1>6. OwnTraffic'
  BY <1>1, <1>2, <1>3, TrafficKept
<1>7. (pc = "idle" => outcome.tag # "pending")' /\ (outcome.tag = "ok" => Answered)'
  <2>1. outcome = Pending
    BY <1>2 DEF TypeInv
  <2>2. CASE Send \/ \E n \in 1 .. Len(wire) : Receive(n)
    <3>1. pc' = "recv" /\ outcome' = Pending
      BY <1>2, <2>1, <2>2 DEF Send, Receive
    <3> QED BY <3>1 DEF Pending
  <2>3. CASE CannotConnect \/ SendFails \/ ReceiveFails \/ RaiseTypeError \/ Reject
               \/ RaiseServerError
    <3>1. \E e \in {"RpcError", "ConnectionError", "TypeError"} : outcome' = Raised(e)
      BY <2>3
      DEF CannotConnect, SendFails, ReceiveFails, RaiseTypeError, Reject,
          RaiseServerError, Consume, End
    <3> QED BY <3>1 DEF Raised
  <2>4. CASE ReturnResults
    <3>1. outcome' = Ok([k \in 1 .. Len(asked) |-> Answer(k - 1)])
      BY <2>4 DEF ReturnResults, Consume, End
    <3>2. \A k \in 1 .. Len(asked) : Answer(k - 1).of = Item(k)
      BY <1>2, <1>3, <2>4, AcceptedOwn DEF ReturnResults
    <3>3. addresses' = addresses /\ \A k : Item(k)' = Item(k)
      BY <1>1, <1>5 DEF queryVars, Item
    <3>4. /\ outcome'.tag = "ok"
          /\ DOMAIN outcome'.value = 1 .. Len(addresses)
          /\ \A k \in 1 .. Len(addresses) : outcome'.value[k].of = Item(k)
      BY <1>3, <3>1, <3>2 DEF Ok
    <3> QED BY <3>3, <3>4 DEF Answered
  <2> QED BY <1>1, <1>4, <2>2, <2>3, <2>4 DEF ClientStep
<1>8. OpenInside'
  BY <1>1, <1>3, <1>5 DEF OpenInside
<1>9. AskedOnce'
  BY <1>1, <1>3, <1>5, <1>6, <1>7 DEF AskedOnce, queryVars
<1> QED BY <1>8, <1>9

(* The server speaks only while the connection is open, and says nothing   *)
(* that passes for an answer before it has been asked.                     *)
LEMMA ServerInside ==
  ASSUME QInv, Inside(ServerStep)
  PROVE  (OpenInside /\ AskedOnce)'
<1>1. ServerStep /\ UNCHANGED <<qpc, queryVars>> /\ TypeInv /\ StreamInv
  BY DEF Inside, QInv
<1>2. UNCHANGED <<sock, opNo, asked, pc, outcome>> /\ sock # 0
  BY <1>1
  DEF ServerStep, ServerAnswers, ServerNotifies, ServerCloses, SendLine, clientVars,
      opVars, StreamInv
<1>3. qpc \in {"ask", "wait"}
  BY <1>2 DEF QInv, OpenInside, QueryType
<1>4. OpenInside'
  BY <1>1, <1>2 DEF OpenInside, QInv
<1>5. CASE qpc = "wait"
  <2>1. OwnTraffic'
    BY <1>1, <1>5, TrafficKept DEF QInv, AskedOnce
  <2> QED BY <1>1, <1>2, <1>4, <1>5, <2>1
      DEF QInv, AskedOnce, Answered, Item, queryVars
<1>6. CASE qpc = "ask"
  <2>1. Unasked
    BY <1>6 DEF QInv, AskedOnce
  <2>2. CASE ServerNotifies
    <3>1. SendLine(Notification) /\ inbox' = inbox
      BY <2>2 DEF ServerNotifies
    <3>2. /\ Len(Stream') = Len(Stream) + 2
          /\ \A p \in 1 .. Len(Stream) : Stream'[p] = Stream[p]
          /\ Stream'[Len(Stream) + 1] = [line |-> Line(Notification), last |-> FALSE]
          /\ Stream'[Len(Stream) + 2] = [line |-> Line(Notification), last |-> TRUE]
      BY <1>1, <3>1, ForeignTyped, StreamGrows
    <3>3. \A q \in DOMAIN Notification.entries : Notification.entries[q].id \notin Nat
      BY DEF Notification, Body, Foreign, Entry, Other
    <3>4. Line(Notification).body = Notification
      BY DEF Line
    <3>5. \A p \in 1 .. Len(Stream) + 2 :
            p \in 1 .. Len(Stream) \/ p = Len(Stream) + 1 \/ p = Len(Stream) + 2
      <4>1. Len(Stream) \in Nat
        BY <1>1, StreamTyped
      <4> QED BY <4>1
    <3>6. \A p \in 1 .. Len(Stream') :
            LET es == Stream'[p].line.body.entries
            IN  \A q \in DOMAIN es : es[q].id \notin Nat
      BY <2>1, <3>2, <3>3, <3>4, <3>5 DEF Unasked
    <3> QED BY <1>1, <1>4, <1>6, <2>1, <3>1, <3>6 DEF AskedOnce, Unasked
  <2>3. CASE ServerCloses
    <3>1. Stream' = Stream /\ Len(inbox') = 0
      BY <2>3 DEF ServerCloses, clientVars, Stream
    <3> QED BY <1>1, <1>4, <1>6, <2>1, <3>1 DEF AskedOnce, Unasked
  <2>4. inbox = <<>>
    BY <1>1, <2>1, EmptySeq DEF Unasked, TypeInv
  <2> QED BY <1>1, <2>2, <2>3, <2>4 DEF ServerStep
<1> QED BY <1>3, <1>5, <1>6

(* Every step keeps the invariant of the queries.                          *)
LEMMA NextQuery == QInv /\ [QNext]_allVars => QInv'
<1> SUFFICES ASSUME QInv, [QNext]_allVars PROVE QInv'
  OBVIOUS
<1>1. (TypeInv /\ StreamInv)'
  BY StepAllowed, NextType, NextStream DEF QInv
<1>2. ASSUME NEW as \in Seq(Addresses), Len(as) <= MaxBatch, NEW b \in BOOLEAN,
             ~b => Len(as) = 1, Query(as, b)
      PROVE  (QueryType /\ Askable /\ OpenInside /\ AskedOnce /\ OwnResult)'
  <2>1. UNCHANGED vars /\ qpc = "idle" /\ addresses' = as /\ many' = b
    BY <1>2 DEF Query, QGoto
  <2>2. \/ qpc' = "idle" /\ as = <<>> /\ result'.tag = "ok"
        \/ qpc' = "idle" /\ result'.tag = "AddressError"
        \/ /\ qpc' = "enter" /\ result' = NoResult
           /\ as # <<>> /\ Range(as) \subseteq DOMAIN Scripthash
    <3>1. /\ Returns(<<>>).tag = "ok" /\ Raises("AddressError").tag = "AddressError"
      BY DEF Returns, Raises
    <3>2. CASE as = <<>>
      BY <1>2, <3>1, <3>2 DEF Query, QGoto
    <3>3. CASE as # <<>> /\ ~(Range(as) \subseteq DOMAIN Scripthash)
      <4>1. qpc' = "idle" /\ result' = Raises("AddressError")
        BY <1>2, <3>3 DEF Query, QGoto
      <4> QED BY <3>1, <4>1
    <3>4. CASE as # <<>> /\ Range(as) \subseteq DOMAIN Scripthash
      <4>1. qpc' = "enter" /\ result' = NoResult
        BY <1>2, <3>4 DEF Query, QGoto
      <4> QED BY <3>4, <4>1
    <3> QED BY <3>2, <3>3, <3>4
  <2>3. result'.tag \in ResultTags /\ NoResult.tag # "ok"
    <3>1. NoResult.tag = "none"
      BY DEF NoResult
    <3> QED BY <2>2, <3>1 DEF ResultTags
  <2>4. QueryType'
    BY <1>2, <2>1, <2>2, <2>3 DEF QueryType
  <2>5. Askable' /\ AskedOnce'
    BY <1>2, <2>1, <2>2 DEF Askable, AskedOnce
  <2>6. OpenInside'
    BY <2>1, <2>2 DEF QInv, OpenInside, vars, clientVars
  <2>7. OwnResult'
    BY <2>1, <2>2, <2>3 DEF OwnResult
  <2> QED BY <2>4, <2>5, <2>6, <2>7
<1>3. ASSUME NEW a \in Addresses, Query(<<a>>, FALSE) PROVE QInv'
  <2>1. <<a>> \in Seq(Addresses) /\ Len(<<a>>) <= MaxBatch /\ Len(<<a>>) = 1
    BY BoundsAssumption
  <2> QED BY <1>1, <1>2, <1>3, <2>1 DEF QInv
<1>4. ASSUME NEW as \in BoundedSeq(Addresses, MaxBatch), Query(as, TRUE) PROVE QInv'
  <2>1. as \in Seq(Addresses) /\ Len(as) <= MaxBatch
    BY AskedTyped
  <2> QED BY <1>1, <1>2, <1>4, <2>1 DEF QInv
<1>5. CASE Enter
  <2>1. Connect /\ qpc' = "ask" /\ qpc = "enter" /\ UNCHANGED queryVars
    BY <1>5 DEF Enter, QGoto
  <2>2. sock' # 0 /\ pc' = pc /\ opNo' = opNo /\ Len(inbox') = 0
    BY <2>1, BoundsAssumption DEF Connect, NewStream, opVars, QInv, TypeInv
  <2>3. Len(Stream') = 0
    BY <2>1, Connects DEF QInv
  <2>4. QueryType' /\ Askable' /\ OwnResult'
    BY <2>1, <2>2 DEF QInv, QueryType, Askable, OwnResult, queryVars
  <2>5. OpenInside'
    BY <2>1, <2>2 DEF QInv, OpenInside
  <2>6. AskedOnce'
    BY <2>1, <2>2, <2>3 DEF AskedOnce, Unasked
  <2> QED BY <1>1, <2>4, <2>5, <2>6 DEF QInv
<1>6. CASE EnterFails
  <2>1. /\ UNCHANGED <<vars, addresses, many>> /\ qpc = "enter" /\ qpc' = "idle"
        /\ result'.tag = "ConnectionError"
    BY <1>6 DEF EnterFails, QGoto, Raises
  <2>2. QueryType' /\ Askable' /\ AskedOnce' /\ OwnResult'
    BY <2>1 DEF QInv, QueryType, ResultTags, Askable, AskedOnce, OwnResult
  <2>3. OpenInside'
    BY <2>1 DEF QInv, OpenInside, vars, clientVars
  <2> QED BY <1>1, <2>2, <2>3 DEF QInv
<1>7. CASE Ask
  <2> DEFINE ps == [k \in DOMAIN addresses |-> Scripthash[addresses[k]]]
  <2>1. qpc = "ask" /\ qpc' = "wait" /\ UNCHANGED queryVars
    BY <1>7 DEF Ask, QGoto
  <2>2. Len(ps) = Len(addresses) /\ (~many => Len(addresses) = 1)
    BY <2>1, RequestsTyped DEF QInv, Askable
  <2>3. \E sh \in {"array", "object"} :
          Begin(sh, IF many THEN ps ELSE <<Scripthash[addresses[1]]>>, "send", Pending)
    BY <1>7 DEF Ask, BeginBatch, BeginCall
  <2>4. /\ UNCHANGED <<inbox, Stream, sock>> /\ pc' = "send" /\ outcome' = Pending
        /\ asked' = IF many THEN ps ELSE <<Scripthash[addresses[1]]>>
    BY <2>3 DEF Begin, clientVars, connVars, Stream
  <2> HIDE DEF ps
  <2>5. Len(asked') = Len(addresses)
    <3>1. Len(<<Scripthash[addresses[1]]>>) = 1
      OBVIOUS
    <3> QED BY <2>2, <2>4, <3>1
  <2>6. OwnTraffic'
    <3>1. Unasked
      BY <2>1 DEF QInv, AskedOnce
    <3>2. \A p \in 1 .. 0 : FALSE
      OBVIOUS
    <3> QED BY <2>4, <3>1, <3>2 DEF Unasked, OwnTraffic, OwnBody, OwnEntry
  <2>7. QueryType' /\ Askable'
    BY <2>1 DEF QInv, QueryType, Askable, queryVars
  <2>8. OwnResult'
    <3>1. result' = NoResult
      BY <2>1 DEF QInv, QueryType, queryVars
    <3> QED BY <3>1 DEF OwnResult, NoResult
  <2>9. OpenInside'
    BY <2>1, <2>4 DEF QInv, OpenInside
  <2>10. AskedOnce'
    BY <2>1, <2>4, <2>5, <2>6 DEF AskedOnce, Pending, queryVars
  <2> QED BY <1>1, <2>7, <2>8, <2>9, <2>10 DEF QInv
<1>8. CASE Leave
  <2>1. /\ Close /\ qpc = "wait" /\ UNCHANGED <<addresses, many>>
        /\ \/ outcome.tag = "ok" /\ qpc' = "convert" /\ result' = result
           \/ outcome.tag # "ok" /\ qpc' = "idle" /\ result'.tag = outcome.tag
    BY <1>8 DEF Leave, CloseClient, QGoto, Raises
  <2>2. pc = "idle" /\ pc' = "idle" /\ sock' = 0 /\ UNCHANGED <<outcome, opNo>>
    BY <2>1 DEF Close, opVars
  <2>3. outcome.tag \in {"ok", "RpcError", "ConnectionError", "TypeError"}
    BY <2>1, <2>2 DEF QInv, AskedOnce, TypeInv, OutcomeType
  <2>4. QueryType' /\ Askable'
    BY <2>1, <2>3 DEF QInv, QueryType, ResultTags, Askable
  <2>5. OwnResult'
    BY <2>1, <2>2 DEF QInv, OwnResult
  <2>6. OpenInside'
    BY <2>1, <2>2 DEF OpenInside
  <2>7. AskedOnce'
    BY <2>1, <2>2 DEF QInv, AskedOnce, Answered, Item
  <2> QED BY <1>1, <2>4, <2>5, <2>6, <2>7 DEF QInv
<1>9. CASE Convert
  <2>1. /\ UNCHANGED <<vars, addresses, many>> /\ qpc = "convert" /\ qpc' = "idle"
        /\ result' = [tag |-> "ok", value |-> Zipped]
    BY <1>9 DEF Convert, QGoto, Returns
  <2>2. QueryType' /\ Askable' /\ AskedOnce'
    BY <2>1 DEF QInv, QueryType, ResultTags, Askable, AskedOnce
  <2>3. OwnResult'
    <3>1. opNo' = opNo
      BY <2>1 DEF vars, opVars
    <3>2. /\ DOMAIN Zipped = Range(addresses)
          /\ \A a \in DOMAIN Zipped :
               \E k \in DOMAIN addresses : addresses[k] = a /\ Zipped[a] = <<opNo, k>>
      BY <2>1, ZippedOwn DEF QInv, AskedOnce
    <3>3. result'.value = Zipped
      BY <2>1
    <3> HIDE DEF Zipped
    <3> QED BY <2>1, <3>1, <3>2, <3>3 DEF OwnResult
  <2>4. OpenInside'
    BY <2>1 DEF QInv, OpenInside, vars, clientVars
  <2> QED BY <1>1, <2>2, <2>3, <2>4 DEF QInv
<1>10. CASE ConvertFails
  <2>1. /\ UNCHANGED <<vars, addresses, many>> /\ qpc = "convert" /\ qpc' = "idle"
        /\ result'.tag \in {"RpcError", "FieldError"}
    BY <1>10 DEF ConvertFails, QGoto, Raises
  <2>2. QueryType' /\ Askable' /\ AskedOnce' /\ OwnResult'
    BY <2>1 DEF QInv, QueryType, ResultTags, Askable, AskedOnce, OwnResult
  <2>3. OpenInside'
    BY <2>1 DEF QInv, OpenInside, vars, clientVars
  <2> QED BY <1>1, <2>2, <2>3 DEF QInv
<1>11. CASE Inside(ClientStep) \/ Inside(ServerStep)
  <2>1. UNCHANGED <<qpc, queryVars>>
    BY <1>11 DEF Inside
  <2>2. QueryType' /\ Askable'
    BY <2>1 DEF QInv, QueryType, Askable, queryVars
  <2>3. opNo' = opNo
    BY <1>11
    DEF Inside, ClientStep, ServerStep, AutoConnect, Connect, CannotConnect, Send,
        SendFails, Receive, ReceiveFails, RaiseTypeError, Reject, ReturnResults,
        RaiseServerError, Consume, ServerAnswers, ServerNotifies, ServerCloses, SendLine,
        opVars
  <2>4. OwnResult'
    BY <2>1, <2>3 DEF QInv, OwnResult, queryVars
  <2>5. (OpenInside /\ AskedOnce)'
    BY <1>11, ClientInside, ServerInside
  <2> QED BY <1>1, <2>2, <2>4, <2>5 DEF QInv
<1>12. CASE UNCHANGED allVars
  <2>1. UNCHANGED <<vars, qpc, addresses, many, result>>
    BY <1>12 DEF allVars, queryVars
  <2>2. QueryType' /\ Askable' /\ OpenInside' /\ OwnResult'
    BY <2>1 DEF QInv, QueryType, Askable, OpenInside, OwnResult, vars, clientVars, opVars
  <2>3. AskedOnce'
    BY <2>1
    DEF QInv, AskedOnce, Unasked, Answered, Item, OwnTraffic, OwnBody, OwnEntry, Stream,
        vars, clientVars, opVars, connVars
  <2> QED BY <1>1, <2>2, <2>3 DEF QInv
<1> QED
  BY <1>3, <1>4, <1>5, <1>6, <1>7, <1>8, <1>9, <1>10, <1>11, <1>12 DEF QNext, QueryStep

-----------------------------------------------------------------------------
(* The theorems.                                                           *)

(* The queries of chain.py use the client only in ways ElectrumClient      *)
(* allows: what is proved of every use of the client holds inside them.    *)
THEOREM QueriesUseClient == QSpec => Spec
<1>1. QInit => Init
  BY DEF QInit
<1> QED BY <1>1, InitQuery, NextQuery, StepAllowed, PTL DEF QSpec, Spec

(* However a query ends, it has closed its client and thrown its buffer    *)
(* away.                                                                   *)
THEOREM QueriesClose == QSpec => []NothingLeftOpen
<1>1. QInv => NothingLeftOpen
  <2> SUFFICES ASSUME QInv, qpc = "idle" PROVE sock = 0 /\ buf = <<>>
    BY DEF NothingLeftOpen
  <2>1. sock = 0 /\ TypeInv /\ StreamInv
    BY DEF QInv, OpenInside
  <2>2. Unread = 0 - readLines /\ readLines \in Nat /\ Len(Stream) = 2 * Unread
    BY <2>1 DEF StreamInv, Unread, TypeInv
  <2>3. Len(Stream) = Len(buf) + Len(wire) /\ Len(buf) \in Nat /\ Len(wire) \in Nat
    BY <2>1, StreamTyped DEF TypeInv
  <2>4. \A b, w, n \in Nat : b + w = 2 * (0 - n) => b = 0
    OBVIOUS
  <2>5. Len(buf) = 0
    BY <2>2, <2>3, <2>4
  <2> QED BY <2>1, <2>5, EmptySeq DEF TypeInv
<1> QED BY <1>1, InitQuery, NextQuery, PTL DEF QSpec

(* Each address of a query is given the server's answer to this query's    *)
(* request for it, whatever earlier queries met.                           *)
THEOREM AddressesGetOwn == QSpec => []OwnAddresses
<1>1. QInv => OwnAddresses
  <2> SUFFICES ASSUME QInv PROVE OwnAddresses
    OBVIOUS
  <2>1. TypeOK
    BY FramingHolds DEF QInv, Framing
  <2>2. addresses \in BoundedSeq(Addresses, MaxBatch)
    BY AskedTyped DEF QInv, QueryType
  <2>3. QTypeOK
    BY <2>1, <2>2 DEF QInv, QueryType, ResultTags, QTypeOK
  <2> QED BY <2>3 DEF QInv, OwnResult, OwnAddresses
<1> QED BY <1>1, InitQuery, NextQuery, PTL DEF QSpec
=============================================================================
