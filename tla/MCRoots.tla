-------------------------------- MODULE MCRoots --------------------------------
(* Two independent root comments, executed. *)
EXTENDS CampaignExecution, TLC

CONSTANTS p, q

MCParent == (p :> NoParent) @@ (q :> NoParent)
Accounts == Permutations(Account)
===============================================================================
