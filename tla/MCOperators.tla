------------------------------- MODULE MCOperators -------------------------------
(* What operators do: two comments are executed as they go along, or one alone, of which    *)
(* they tell whether its clicks published it; or they log in to the console and administer  *)
(* its accounts; or the processes of the console agree on the key that signs their          *)
(* sessions.  In a behaviour one of the parts is at work.                                   *)
EXTENDS MCRoots, ConsoleAccounts, SessionKey

VARIABLE part

operatorVars == <<part, execVars, accVars, keyVars>>

Answered == INSTANCE CampaignExecution WITH
  Assignment <- {p}, Parent <- (p :> NoParent), Events <- {"page", "resolve"}, MaxCalls <- 5

OperatorsInit ==
  /\ part \in {"campaign", "answers", "accounts", "key"}
  /\ IF part = "answers" THEN Answered!ExecutionInit ELSE ExecutionInit
  /\ AccInit /\ \A u \in User : user[u].role # "operator"
  /\ (part # "accounts" => \A u \in User : user[u].role = "administrator")
  /\ KeyInit /\ (part # "key" => ~exclusive)

\* The worker waits for a handler that is at work on the single comment.
Answering == /\ Answered!ExecutionNext
             /\ handoff \cup resuming # {} => work' = work

OperatorsNext ==
  /\ UNCHANGED part
  /\ \/ part = "campaign" /\ ExecutionNext /\ UNCHANGED <<accVars, keyVars>>
     \/ part = "answers" /\ Answering /\ UNCHANGED <<accVars, keyVars>>
     \/ part = "accounts" /\ AccNext /\ UNCHANGED <<execVars, keyVars>>
     \/ part = "key" /\ KeyNext /\ UNCHANGED <<execVars, accVars>>

OperatorsSpec == OperatorsInit /\ [][OperatorsNext]_operatorVars

Alike == Accounts \cup Permutations(Browser)
================================================================================
