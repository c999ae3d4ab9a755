------------------------- MODULE MCWebhookEvidence -------------------------
(***************************************************************************)
(* Instances of WebhookEvidence for TLC.                                   *)
(***************************************************************************)
EXTENDS WebhookEvidence, TLC

CONSTANTS erp, crm, acme, globex

\* Each source belongs to one workspace.
MCOwner == (erp :> acme) @@ (crm :> globex)

\* Offsets of a caller's timestamp, scaled to the instance's few seconds.
MCOffsets == {-1, 0, 1}
MCDrifts == {-1, 0}

DeliverySymmetry == Permutations(Deliveries)
=============================================================================
