----------------------------- MODULE MCDelivery -----------------------------
(***************************************************************************)
(* What was taken in gets done: the feedback outbox and the upload of a    *)
(* publish request, two parts of the server that share no state, in one    *)
(* run of TLC.  A behaviour of the run is one of one part, chosen at the   *)
(* start: the interleavings of the two would add nothing that a part alone *)
(* does not show.                                                          *)
(***************************************************************************)
EXTENDS FeedbackOutbox, PublishUpload, TLC

VARIABLE part  \* the part that moves

DeliveryInit ==
  /\ part \in {"outbox", "upload"}
  /\ OutboxInit
  /\ UploadInit

DeliveryNext ==
  /\ UNCHANGED part
  /\ \/ part = "outbox" /\ OutboxNext /\ UNCHANGED uploadVars
     \/ part = "upload" /\ UploadNext /\ UNCHANGED outboxVars

DeliverySpec ==
  /\ DeliveryInit
  /\ [][DeliveryNext]_<<part, outboxVars, uploadVars>>
  /\ part = "outbox" => OutboxFairness
  /\ part = "upload" => UploadFairness

=============================================================================
