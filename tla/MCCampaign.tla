----------------------------- MODULE MCCampaign -----------------------------
(***************************************************************************)
(* Instances of Campaign for TLC.                                          *)
(***************************************************************************)
EXTENDS Campaign, TLC
CONSTANTS c1, c2

AnyConsumer == Permutations(Consumers)
=============================================================================
