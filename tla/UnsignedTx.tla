----------------------------- MODULE UnsignedTx -----------------------------
(***************************************************************************)
(* The unsigned transaction in a PSBT read by parse_transaction(): the     *)
(* writer of psbt.py composed with the parser of transaction.py, which     *)
(* reads inputs from elsewhere as before.                                  *)
(***************************************************************************)
EXTENDS TxParser

CONSTANTS InCounts, OutLists     \* the requests: inputs, and output script lengths

(* Counts and lengths are those of lists and byte strings in memory: the   *)
(* widest CompactSize holds them.                                          *)
Lengths == 0 .. (Below(Width[3]) - 1)
ASSUME RequestAssumption ==
  /\ InCounts \subseteq Lengths
  /\ \A os \in OutLists : os \in Seq(Lengths) /\ Len(os) \in Lengths

VARIABLES request, written

W == INSTANCE PsbtBytes

NoRequest == [ins |-> 0, outs |-> <<>>]

(* Any input, or what create_psbt() writes.                                *)
UInit ==
  /\ written = <<>>
  /\ \/ request = NoRequest /\ Init
     \/ /\ request \in [ins : InCounts, outs : OutLists]
        /\ pc = "create" /\ length = 0 /\ raw = <<>> /\ hasWitness = FALSE
        /\ left = 0 /\ itemsLeft = 0
        /\ ins = <<>> /\ outs = <<>> /\ wits = <<>>
        /\ bodyStart = 0 /\ bodyEnd = 0

(* create_psbt()                                                           *)
Create ==
  /\ pc = "create"
  /\ W!Complete(request.ins, request.outs)
  /\ written' = W!TxBytes(request.ins, request.outs)
  /\ length' = Len(written')
  /\ pc' = "version"
  /\ UNCHANGED <<request, raw, hasWitness, loopVars, txVars, bodyVars>>

(* A step of the parser; what was written are the bytes it finds.         *)
Parse ==
  /\ Next
  /\ written # <<>> => IsPrefix(raw', written)
  /\ UNCHANGED <<request, written>>

(* create_psbt() refuses the request, or the parser is done.               *)
Finished ==
  /\ \/ pc \in {"accepted", "rejected"}
     \/ pc = "create" /\ ~W!Complete(request.ins, request.outs)
  /\ UNCHANGED <<vars, request, written>>

UNext == Create \/ Parse \/ Finished

USpec == UInit /\ [][UNext]_<<vars, request, written>>

-----------------------------------------------------------------------------
(* parse_transaction() reads the transaction that a PSBT holds, with the   *)
(* inputs and the output scripts that were asked for, and without a        *)
(* witness: never is an input count taken for a witness marker, nor a      *)
(* length for one of another form.                                         *)
PsbtTxParses ==
  written # <<>> =>
    /\ pc # "rejected"
    /\ pc = "accepted" =>
       /\ raw = written /\ ~hasWitness
       /\ ins = [k \in 1 .. request.ins |-> 0]
       /\ outs = request.outs
=============================================================================
