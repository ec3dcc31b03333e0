------------------------------- MODULE MCConsole -------------------------------
(* What users of the console do: change the probe's settings, pick elements for it, and    *)
(* run strategies in browsers. In a behaviour one of the parts is at work.                *)
EXTENDS SettingsPublication, PickerSessions, ExecutionJobs, TLC

CONSTANTS s1, s2, h1, h2, j1, j2, p1, p2, v1, v2
MCHomes == {(s1 :> h1 @@ s2 :> h1), (s1 :> h1 @@ s2 :> h2)}

VARIABLE part

vars == <<part, pubVars, pickVars, jobVars>>

Init == /\ part \in {"settings", "picker", "jobs", "visits"} /\ SetInit /\ PickInit /\ JobsInit
        /\ part # "picker" => home[s1] = home[s2]

\* Jobs alone: one of both profiles in one or two batches, or two of a profile each.
JobsAlone ==
  /\ visit' = visit
  /\ job'[j1].status # "none" => job'[j1].profiles \in {Profile, {p2}}
  /\ job'[j2].status # "none" => /\ job'[j1].profiles = {p2} /\ job'[j2].profiles = {p1}
                                 /\ job'[j2].size = 1 /\ ~job'[j2].cancel

\* A job of one batch among visits to one of its profiles.
JobAmongVisits ==
  /\ work'[j2].pc = "none" /\ work'[j1].pc # "raised" /\ deaths' = 0
  /\ job'[j1].status # "none" => job'[j1].profiles # {p2} /\ job'[j1].size = 2 /\ ~job'[j1].cancel
  /\ \A v \in Visitor : visit'[v].profile # p2
  /\ job'[j1].profiles = Profile => visit'[v2].pc = "none"

Next ==
  /\ UNCHANGED part
  /\ \/ part = "settings" /\ SetNext /\ UNCHANGED <<pickVars, jobVars>>
     \/ part = "picker" /\ PickNext /\ UNCHANGED <<pubVars, jobVars>>
     \/ part = "jobs" /\ JobsNext /\ JobsAlone /\ UNCHANGED <<pubVars, pickVars>>
     \/ part = "visits" /\ JobsNext /\ JobAmongVisits /\ UNCHANGED <<pubVars, pickVars>>

\* SetFairness, PickFairness and JobsFairness, each for its own part (a step of a job
\* changes work, and a start of the service up)
Fairness ==
  /\ \A p \in Put : WF_pubVars(part = "settings" /\ PutStep(p))
  /\ \A g \in Get : WF_pubVars(part = "settings" /\ GetStep(g))
  /\ \A s \in Session : WF_pickVars(part = "picker" /\ OwnStep(s))
  /\ WF_pickVars(part = "picker" /\ lease # NoSession /\ page[lease] = "done" /\ LeaseExpires)
  /\ \A j \in ExJob : WF_work(part \in {"jobs", "visits"} /\ JobStep(j))
  /\ WF_up(part = "jobs" /\ ServiceStarts)

Spec == Init /\ [][Next]_vars /\ Fairness
================================================================================
