------------------------ MODULE MCEvaluationCampaigns ------------------------
(***************************************************************************)
(* TLC instances of EvaluationCampaigns.                                   *)
(***************************************************************************)
EXTENDS EvaluationCampaigns

=============================================================================
