------------------------------- MODULE MCWorkers -------------------------------
(* What works in the background, the collection of statistics, and the strategies of      *)
(* execution V2 that operators edit and publish. In a behaviour one of the parts is at     *)
(* work.                                                                                   *)
EXTENDS StatsCollection, StrategyStore, TLC

VARIABLE part

vars == <<part, statVars, stratVars>>

Init == part \in {"statistics", "editing", "publishing"} /\ StatInit /\ StratInit

\* While a strategy is published, by one request at a time, one request at a time changes it,
\* by saves, and elements change their status; a deleted strategy stays deleted.
Publishing ==
  /\ PublishNext \/ EditNext \/ \E e \in ActionElement : SetElementStatus(e)
  /\ Cardinality({c \in Client : request'[c].pc \in {"validate", "write", "insert", "delete"}}) <= 1
  /\ Cardinality({c \in Client : request'[c].pc \in {"record", "prepare"}}) <= 1
  /\ \A s \in Strategy : strategy'[s].rev # strategy[s].rev => request' # request
  /\ \A a, b \in ActionId : identity'[a].dead /\ identity'[b].used => a = b

Next ==
  /\ UNCHANGED part
  /\ \/ part = "statistics" /\ StatNext /\ UNCHANGED stratVars
     \/ part = "editing" /\ (ElementNext \/ EditNext) /\ UNCHANGED statVars
     \/ part = "publishing" /\ Publishing /\ UNCHANGED statVars

\* StatFairness, for its part
Fairness ==
  /\ \A w \in StatWorker : WF_statVars(part = "statistics" /\ StatStep(w))
  /\ \A j \in Job : WF_statVars(part = "statistics" /\ DeadLeaseExpires(j))

Spec == Init /\ [][Next]_vars /\ Fairness
===============================================================================
