-------------------------------- MODULE MCProbe --------------------------------
(* The selectors that probe runs publish, the effects of these runs, the delivery of their  *)
(* alerts, and the requests for runs: in a behaviour one of them is at work.                *)
EXTENDS SelectorPublication, ProbeEffects, WebhookDelivery, RunRequests, TLC

CONSTANTS a, b, st, c1, c2
MCDeps == {{<<a, st>>, <<b, st>>}, {<<a, st>>}}
MCCovers == {{a}, {a, b}}
MCKeys == {(c1 :> 1) @@ (c2 :> 1), (c1 :> 1) @@ (c2 :> 2)}

VARIABLE part

vars == <<part, pubVars, effVars, hookVars, reqVars>>

Init == /\ part \in {"publication", "effects", "hooks", "requests"}
        /\ PubInit /\ EffInit /\ HookInit /\ ReqInit
        /\ deps = {<<a, st>>, <<b, st>>}
        /\ part # "requests" => key[c1] = key[c2]

Next ==
  /\ UNCHANGED part
  /\ \/ part = "publication" /\ PubNext /\ UNCHANGED <<effVars, hookVars, reqVars>>
     \/ part = "effects" /\ EffNext /\ UNCHANGED <<pubVars, hookVars, reqVars>>
     \/ part = "hooks" /\ HookNext /\ UNCHANGED <<pubVars, effVars, reqVars>>
     \/ part = "requests" /\ ReqNext /\ UNCHANGED <<pubVars, effVars, hookVars>>

\* PubFairness, EffFairness, HookFairness and ReqFairness, each for its own part (a step of an attempt
\* changes worker, an expiry lease, a retry that falls due outbox)
Fairness ==
  /\ \A a1 \in Attempt : WF_worker(part = "publication" /\ Step(a1))
  /\ WF_worker(part = "publication" /\ \E a1 \in Attempt : Acquire(a1))
  /\ WF_lease(part = "publication" /\ LeaseExpires)
  /\ \A v \in Version : WF_outbox(part = "publication" /\ BecomesReady(v))
  /\ WF_tick(part = "effects" /\ \E t \in Tick : BeginTick(t))
  /\ \A t \in Tick : WF_tick(part = "effects" /\ (TickStep(t) \/ NotDue(t)))
  /\ \A t \in Tick : SF_tick(part = "effects" /\ Probe(t, Alias))
  /\ \A d \in Dispatcher : WF_hookVars(part = "hooks" /\ DispatchStep(d))
  /\ \A h \in Hook : WF_hookVars(part = "hooks" /\ HookDue(h))
  /\ \A c \in Call : WF_reqVars(part = "requests" /\ CallStep(c))
  /\ \A c \in Call : WF_reqVars(part = "requests" /\ ThreadStep(c))

Spec == Init /\ [][Next]_vars /\ Fairness
================================================================================
