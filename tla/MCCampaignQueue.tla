-------------------------- MODULE MCCampaignQueue --------------------------
(* The instance of CampaignQueue that TLC checks: its values are in        *)
(* Campaign.cfg.                                                           *)
EXTENDS CampaignQueue
=============================================================================
