---------------------------- MODULE MCCampaigns ----------------------------
(***************************************************************************)
(* Small instances of Campaigns for TLC.  Processes of one kind behave     *)
(* alike, so they may be permuted where only safety is checked.            *)
(***************************************************************************)
EXTENDS Campaigns, TLC

CONSTANTS c1, c2, w1, w2, s1

MCCampaign  == {c1}
MCCampaigns == {c1, c2}
MCWorker    == {w1}
MCWorkers   == {w1, w2}
MCSweeper   == {s1}
NoSweeper   == {}
NoPoison    == {}
FirstContact == {1}

MCSymmetry  == Permutations(MCWorkers)
MCCampaignSymmetry == Permutations(MCCampaigns)
=============================================================================
