---------------------------- MODULE MCCampaignStore ----------------------------
(* A root comment, a reply to it and a reply to that reply. *)
EXTENDS CampaignStore, TLC

CONSTANTS p, c, g

MCParent == (p :> NoParent) @@ (c :> p) @@ (g :> c)
Accounts == Permutations(Account)
===============================================================================
