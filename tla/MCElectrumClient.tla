-------------------------- MODULE MCElectrumClient --------------------------
(* Small instances of ElectrumClient for TLC.                              *)
EXTENDS ElectrumClient

(* A client used for batches only, each asking something else than the one *)
(* before, and a server that answers every batch it receives, once and     *)
(* rightly, however late: nothing else is ever sent.                       *)
HonestServer ==
  /\ inbox # <<>>
  /\ \E body \in HonestBodies(Head(inbox)) : ServerAnswers(body)

BatchesNext ==
  \/ \E ps \in BoundedSeq(Params, MaxBatch) \ {asked} : BeginBatch(ps)
  \/ ClientStep
  \/ HonestServer

BatchesSpec == Init /\ [][BatchesNext]_vars
=============================================================================
