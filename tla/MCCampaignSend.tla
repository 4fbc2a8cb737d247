--------------------------- MODULE MCCampaignSend ---------------------------
(* Instances of CampaignSend for TLC. *)
EXTENDS CampaignSlots, TLC

\* The jobs are interchangeable.
JobSymmetry == Permutations(Jobs)

=============================================================================
