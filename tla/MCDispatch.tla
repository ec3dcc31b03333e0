------------------------------- MODULE MCDispatch -------------------------------
(* Two subtasks, one of them a probe, of one account.                           *)
EXTENDS CentralDispatch, TLC

CONSTANTS s1, s2, k1, k2, a1, d1, d2, pA

TwoTasks   == (s1 :> k1) @@ (s2 :> k2)
OneAccount == (s1 :> a1) @@ (s2 :> a1)
Shared     == [a \in Account |-> pA]
Homes      == [a \in Account |-> d1]
NoEdges    == (s1 :> {}) @@ (s2 :> {})
Order      == (s1 :> 1) @@ (s2 :> 2)
DeviceIds  == (d1 :> 1) @@ (d2 :> 2)

\* What happens here: no success has a handle to send, no agent restarts, and operators leave
\* the dead letters alone (the run of MCQueue is about those).
SettleNext ==
  \/ \E k \in Task : CreateTask(k)
  \/ ScheduledTick \/ ProbeTick
  \/ \E t \in TickRequest : TickStep(t)
  \/ \E m \in wire : Deliver(m) \/ Lose(m)
  \/ \E d \in Device : Pull(d) \/ Report(d) \/ GoOn(d) \/ Renew(d) \/ Heartbeat(d) \/ GoSilent(d)
  \/ \E s \in SubTask : Expire(s)
  \/ \E a \in Account : MoveAccount(a) \/ CoolDown(a)

SettleSpec == Init /\ [][SettleNext]_vars /\ Fairness
===============================================================================
