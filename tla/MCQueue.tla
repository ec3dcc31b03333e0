-------------------------------- MODULE MCQueue --------------------------------
(* Two subtasks of one task, of two accounts: the second depends on the first, or both      *)
(* share a profile, with one scheduler tick and one operator or with two of each that       *)
(* overlap.  Or the plan of a comment campaign, or the search that planning relies on.  In  *)
(* a behaviour one of the parts is at work.                                                 *)
EXTENDS CentralDispatch, ProfileSearch

CONSTANTS s1, s2, k1, a1, a2, d1, d2, t1, t2, o1, o2, pA, m1, m2, m3, tall, hi, yo

VARIABLE part

OneTask   == (s1 :> k1) @@ (s2 :> k1)
Accounts  == (s1 :> a1) @@ (s2 :> a2)
Homes     == (a1 :> d1) @@ (a2 :> NoDevice)
Shared    == (a1 :> pA) @@ (a2 :> pA)
NoEdges   == (s1 :> {}) @@ (s2 :> {})
Chain     == (s1 :> {}) @@ (s2 :> {s1})
Order     == (s1 :> 1) @@ (s2 :> 2)
DeviceIds == (d1 :> 1) @@ (d2 :> 2)

Dependents == INSTANCE CentralDispatch WITH
  ParentsOf <- Chain, Evidence <- {"VERIFIED", "UNVERIFIED", "none"},
  Events <- {"expiry", "timeout", "crash", "lost result", "lost handle", "duplicate",
             "requeue", "terminate"}

\* Whoever comes second starts while the first is at work.
Alone == UNCHANGED <<tick[t2], review[o2]>>
InTurn == /\ tick[t1].pc = "idle" /\ tick[t2].pc = "idle" => UNCHANGED tick[t2]
          /\ review[o1] = {} /\ review[o2] = {} => UNCHANGED review[o2]

Overlapping == INSTANCE CentralDispatch WITH
  Events <- {"expiry", "requeue"}, Outcomes <- {"fatal"}

\* Two comments each: a reply to the first by somebody with a tag, or two comments of their
\* own, or a cycle.
Wants(tags) == [required |-> tags, excluded |-> {}]
Reply == [steps |-> {1, 2}, parent |-> <<0, 1>>, modes |-> {"threaded"},
          needs |-> <<Wants({}), Wants({tall})>>, says |-> <<hi, yo>>]
Apart   == [steps |-> {1, 2}, parent |-> <<0, 0>>, modes |-> {"independent"},
          needs |-> <<Wants({}), Wants({})>>, says |-> <<Library, hi>>]
Cycle == [Reply EXCEPT !.parent = <<2, 1>>]
Trees == {Reply, Apart, Cycle}

\* Two of three profiles can reply, one of them later.
Cast == (m1 :> Default) @@ (m2 :> [fit |-> TRUE, tags |-> {tall}])
        @@ (m3 :> [fit |-> FALSE, tags |-> {}])

\* A template is created when the profiles are cast, and a campaign of all of them from one of
\* its first two revisions; then the template or a profile changes once, while a request is at
\* work.
Planning ==
  /\ PlanNext
  /\ template.status = "none" =>
       /\ UNCHANGED planner /\ \A m \in DOMAIN profile' : profile'[m] \in {Default, Cast[m]}
       /\ template' # template => profile = Cast
  /\ plan.status = "none" /\ template.status # "none" => profile' = profile
  /\ plan'.revision = 1 => plan'.refs = Profile /\ Len(template'.revisions) <= 2
  /\ plan.status # "none" /\ <<template, moves>>' # <<template, moves>> =>
       /\ Len(template'.revisions) + moves' <= 4
       /\ \E r \in Planner : planner[r].pc \in {"plan", "replace", "lock"}

queueVars == <<part, vars, planVars, suited>>

QueueInit ==
  /\ part \in {"leases", "overlap", "dependents", "planning", "search"}
  /\ Init /\ PlanInit /\ SearchInit
  /\ part # "search" => suited = [c \in Comment |-> {}]

QueueNext ==
  /\ UNCHANGED <<part, suited>>
  /\ \/ part = "leases" /\ Next /\ Alone /\ UNCHANGED planVars
     \/ part = "overlap" /\ Overlapping!Next /\ InTurn /\ UNCHANGED planVars
     \/ part = "dependents" /\ Dependents!Next /\ Alone /\ UNCHANGED planVars
     \/ part = "planning" /\ Planning /\ UNCHANGED vars

QueueSpec == QueueInit /\ [][QueueNext]_queueVars

\* A subtask that was queued has its parents' verified handles: the one that has a parent.
ChildrenWait == part = "dependents" => Dependents!DependentsWait

\* And, in a part of its own, the search by which a plan is chosen.
QueueSafe == ChildrenWait /\ (part = "search" => SearchIsComplete)
================================================================================
