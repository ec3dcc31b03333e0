------------------------------ MODULE MCExecution ------------------------------
(* A root comment and one reply to it, executed. *)
EXTENDS CampaignExecution, TLC

CONSTANTS p, c

MCParent == (p :> NoParent) @@ (c :> p)
Accounts == Permutations(Account)
===============================================================================
