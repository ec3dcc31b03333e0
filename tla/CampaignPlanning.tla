---------------------------- MODULE CampaignPlanning ----------------------------
(***************************************************************************)
(* A comment campaign before its plan is locked: the templates of comment  *)
(* trees (comment_campaign/store.py 220-407), the profiles that may        *)
(* publish, and one campaign that is created from a revision of a          *)
(* template, planned, replanned, corrected by hand, locked or deleted      *)
(* (store.py 465-589 and 1366-1678; service.py 471-541 and 847-953).       *)
(*                                                                         *)
(* A request reads outside any transaction: with pysqlite a session's      *)
(* SELECTs see each the database of their moment, and only its first       *)
(* writing statement begins a transaction, which then goes through or is   *)
(* rolled back as a whole.  So a request has a read step and a write step, *)
(* and what it read may be stale when it writes.  The operations on a      *)
(* template are one step each: their UPDATE compares everything they read, *)
(* but for revisions, which never change.                                  *)
(*                                                                         *)
(* A tree of comments is what a template revision holds: its steps,        *)
(* numbered in their order, the parent of each, whom it wants and what it  *)
(* says.  A language is a tag among others; "fit" is enabled, healthy and  *)
(* not cooling down.  Which permutation of the candidates the seed gives   *)
(* only decides which of the possible choices is found (ProfileSearch), so *)
(* a plan is any of them.  A refused request changes nothing and has no   *)
(* step of its own.                                                        *)
(***************************************************************************)
EXTENDS Naturals, Sequences, FiniteSets, Functions

CONSTANTS
  Planner,             \* requests at work
  Profile,             \* profile_refs
  Tag,                 \* what distinguishes profiles
  Tree,                \* trees that operators try to save
  Text,                \* texts, up to normalisation
  MaxTemplateRevision, \* bound on the revisions of the template
  MaxPlanRevision,     \* bound on the revisions of the campaign
  MaxProfileChanges    \* bound on the changes of profiles

VARIABLES
  template,  \* comment_templates and its revisions: one template
  profile,   \* comment_profile_metadata, of the profiles that have some
  plan,      \* comment_campaigns and its comment_assignments: one campaign
  planner,   \* what each request has read and computed
  moves      \* how often a profile changed

planVars == <<template, profile, plan, planner, moves>>

None == 0
Library == "library"

\* What operators send is parsed before it is validated (schemas.py): steps are numbered, as far
\* as a list goes, and each has a text of its own or one of the library's.
ASSUME TreeAssumption ==
  /\ \A t \in Tree : /\ IsFiniteSet(t.steps) /\ t.steps \subseteq Nat \ {0}
                      /\ t.modes \subseteq {"independent", "threaded"}
                      /\ \A s \in t.steps : t.says[s] \in Text \cup {Library}
  /\ MaxTemplateRevision \in Nat /\ MaxPlanRevision \in Nat /\ MaxProfileChanges \in Nat

-----------------------------------------------------------------------------
(* Trees, profiles and plans (allocation.py).                              *)

\* validate_template_tree, for one mode.  No cycle: no set of steps has all its parents inside.
ValidTree(mode, t) ==
  /\ t.steps # {}
  /\ \A s \in t.steps : t.parent[s] \in (t.steps \ {s}) \cup {None}
  /\ IF mode = "independent"
     THEN \A s \in t.steps : t.parent[s] = None
     ELSE /\ Cardinality({s \in t.steps : t.parent[s] = None}) = 1
          /\ \A c \in (SUBSET t.steps) \ {{}} : \E s \in c : t.parent[s] \notin c

ValidTemplate(t) == t.modes # {} /\ \A m \in t.modes : ValidTree(m, t)

\* profile_matches
Suits(need, p) == p.fit /\ need.required \subseteq p.tags /\ need.excluded \cap p.tags = {}

\* Of each step of t, who of those in live suits it.
Suited(t, live) == [s \in t.steps |-> {p \in DOMAIN live : Suits(t.needs[s], live[p])}]

\* Of each step of t, the texts it may have when the library holds those in stock.
Texts(t, stock) == [s \in t.steps |-> IF t.says[s] = Library THEN stock ELSE {t.says[s]}]

\* The injective choices of one of the candidates e gives for each.
Matchings(e) ==
  {f \in [DOMAIN e -> UNION {e[n] : n \in DOMAIN e}] :
     IsInjective(f) /\ \A n \in DOMAIN e : f[n] \in e[n]}

\* Step s, the step it answers, the one that answers, and so on.
Thread(t, s) ==
  {n \in t.steps : \A c \in SUBSET t.steps :
     s \in c /\ (\A m \in c : t.parent[m] # None => t.parent[m] \in c) => n \in c}

Depth(t, s) == Cardinality(Thread(t, s))

\* allocate: steps are placed in rounds, those whose parent has been placed by their number, so
\* by their depth first.
Position(t, s) ==
  Cardinality({n \in t.steps : \/ Depth(t, n) < Depth(t, s)
                               \/ Depth(t, n) = Depth(t, s) /\ n <= s})

Assignments(t, who, what) ==
  [s \in t.steps |-> [profile |-> who[s], text |-> what[s], parent |-> t.parent[s],
                      position |-> Position(t, s), revision |-> 1, locked |-> FALSE]]

-----------------------------------------------------------------------------
Metadata == [fit : BOOLEAN, tags : SUBSET Tag]

\* store.py DEFAULT_PROFILE_METADATA
Default == [fit |-> TRUE, tags |-> {}]

NoPlan == [tree |-> None, stock |-> {}, live |-> <<>>]

NoCampaign == [status |-> "none", mode |-> "threaded", revision |-> 0, pinned |-> 0,
               refs |-> {}, locked |-> FALSE, frozen |-> NoPlan, assignments |-> <<>>]

Unasked == [pc |-> "idle"]

PlanInit ==
  /\ template = [status |-> "none", revisions |-> <<>>]
  /\ profile = <<>>
  /\ plan = NoCampaign
  /\ planner = [r \in Planner |-> Unasked]
  /\ moves = 0

-----------------------------------------------------------------------------
(* Templates.  The transactions compare the revision and the lifecycle.    *)

Latest == template.revisions[Len(template.revisions)]

\* A mutant: a change of the template rewrites its revision.
RevisedInPlace(status, t) ==
  LET kept == Len(template.revisions) - 1
      old == SubSeq(template.revisions, 1, IF kept > 0 THEN kept ELSE 0)
  IN /\ template' = [status |-> status, revisions |-> Append(old, t)]
     /\ UNCHANGED <<profile, plan, planner, moves>>

Revised(status, t) ==
  /\ Len(template.revisions) < MaxTemplateRevision
  /\ template' = [status |-> status, revisions |-> Append(template.revisions, t)]
  /\ UNCHANGED <<profile, plan, planner, moves>>

CreateTemplate  == /\ template.status = "none"
                   /\ \E t \in Tree : ValidTemplate(t) /\ Revised("enabled", t)
UpdateTemplate  == /\ template.status = "enabled"
                   /\ \E t \in Tree \ {Latest} : ValidTemplate(t) /\ Revised("enabled", t)
DisableTemplate == template.status = "enabled" /\ Revised("disabled", Latest)
EnableTemplate  == template.status = "disabled" /\ Revised("enabled", Latest)
DeleteTemplate  == template.status = "disabled" /\ Revised("deleted", Latest)

-----------------------------------------------------------------------------
(* Profiles.                                                               *)

\* sync_profile_identities: AdsPower lists a profile that is new here.
SyncProfile(p) ==
  /\ p \notin DOMAIN profile
  /\ profile' = [q \in DOMAIN profile \cup {p} |-> IF q = p THEN Default ELSE profile[q]]
  /\ UNCHANGED <<template, plan, planner, moves>>

\* upsert_profile_metadata; or a cooldown that runs out.
SetProfile(p) ==
  /\ p \in DOMAIN profile /\ moves < MaxProfileChanges
  /\ \E m \in Metadata \ {profile[p]} : profile' = [profile EXCEPT ![p] = m]
  /\ moves' = moves + 1
  /\ UNCHANGED <<template, plan, planner>>

-----------------------------------------------------------------------------
(* The campaign.                                                           *)

Proceeds(r, to) == planner' = [planner EXCEPT ![r] = to] /\ UNCHANGED <<template, profile, moves>>
Reads(r, to) == planner[r].pc = "idle" /\ Proceeds(r, to) /\ UNCHANGED plan
Closes(r) == Proceeds(r, Unasked)

\* service.create_campaign: the template is enabled, the revision asked for supports the mode
\* and the profiles are known.
CheckCreate(r) ==
  /\ plan.status = "none" /\ template.status = "enabled"
  /\ \E v \in DOMAIN template.revisions, refs \in (SUBSET DOMAIN profile) \ {{}} :
       \E m \in template.revisions[v].modes :
         Reads(r, [pc |-> "create", mode |-> m, pinned |-> v, refs |-> refs])

\* store.create_campaign: the template's lifecycle is not looked at again.
CreateCampaign(r) ==
  /\ planner[r].pc = "create" /\ plan.status = "none"
  /\ plan' = [NoCampaign EXCEPT !.status = "draft", !.revision = 1,
                    !.mode = planner[r].mode, !.pinned = planner[r].pinned,
                    !.refs = planner[r].refs]
  /\ Closes(r)

\* store.delete_campaign, under the write lock from its start
DeleteCampaign ==
  /\ plan.status = "draft"
  /\ plan' = [plan EXCEPT !.status = "deleted"]
  /\ UNCHANGED <<template, profile, planner, moves>>

\* The bound: no more plans, corrections and locks begin at that revision.
More == plan.revision < MaxPlanRevision

Plannable == plan.status \in {"draft", "planned"} /\ template.status = "enabled"

\* service.plan_campaign reads the campaign and resolves its target, which may take long.
BeginPlan(r) == Plannable /\ More /\ Reads(r, [pc |-> "plan", revision |-> plan.revision])

\* It then reads the template, the profiles and the text library and chooses.
Allocate(r) ==
  /\ planner[r].pc = "plan" /\ template.status = "enabled"
  /\ LET t == template.revisions[plan.pinned]
         live == Restrict(profile, plan.refs)
     IN \E stock \in (SUBSET Text) \ {{}} :
          \E who \in Matchings(Suited(t, live)), what \in Matchings(Texts(t, stock)) :
            Proceeds(r, [pc |-> "check", revision |-> planner[r].revision,
                     frozen |-> [tree |-> t, stock |-> stock, live |-> live],
                     assignments |-> Assignments(t, who, what)])
  /\ UNCHANGED plan

\* store.replace_campaign_plan: what it looks at before it writes
CheckReplace(r) ==
  /\ planner[r].pc = "check" /\ Plannable /\ plan.revision = planner[r].revision
  /\ Proceeds(r, [planner[r] EXCEPT !.pc = "replace"])
  /\ UNCHANGED plan

AnyRevision(r) == plan.status # "deleted"   \* a mutant

\* All assignments are deleted and inserted anew; if the campaign's revision has moved its
\* UPDATE matches no row and all is rolled back.
ReplaceMatches(r) == plan.revision = planner[r].revision /\ plan.status # "deleted"
ReplacePlan(r) ==
  /\ planner[r].pc = "replace" /\ ReplaceMatches(r)
  /\ plan' = [plan EXCEPT !.status = "planned", !.revision = @ + 1,
                    !.frozen = planner[r].frozen, !.assignments = planner[r].assignments]
  /\ Closes(r)

\* store.override_assignment_profile: an operator gives step s to profile p, which is one of
\* the campaign's, suits it now, and has no other step.
CheckOverride(r) ==
  /\ plan.status = "planned" /\ More
  /\ \E s \in DOMAIN plan.assignments, p \in plan.refs :
       /\ \A o \in DOMAIN plan.assignments \ {s} : plan.assignments[o].profile # p
       /\ Suits(plan.frozen.tree.needs[s], profile[p])
       /\ Reads(r, [pc |-> "override", step |-> s, profile |-> p,
                    revision |-> plan.revision, was |-> plan.assignments[s].revision])

\* A mutant: the campaign's revision is not compared.
AnyCampaignRevision(r) ==
  /\ plan.status = "planned" /\ planner[r].step \in DOMAIN plan.assignments
  /\ plan.assignments[planner[r].step].revision = planner[r].was

\* It compares the assignment's revision, and then the campaign's.
OverrideMatches(r) ==
  /\ plan.status = "planned" /\ planner[r].step \in DOMAIN plan.assignments
  /\ plan.assignments[planner[r].step].revision = planner[r].was
  /\ plan.revision = planner[r].revision
Given(of, p) == [of EXCEPT !.profile = p, !.revision = @ + 1]
OverrideProfile(r) ==
  /\ planner[r].pc = "override" /\ OverrideMatches(r)
  /\ LET of == plan.assignments
         s == planner[r].step
     IN plan' = [plan EXCEPT !.revision = @ + 1,
                   !.assignments = [of EXCEPT ![s] = Given(of[s], planner[r].profile)]]
  /\ Closes(r)

-----------------------------------------------------------------------------
\* _validate_locked_plan_shape: the plan against the snapshots frozen with it.
ShapeHolds ==
  LET t == plan.frozen.tree
      of == plan.assignments
  IN /\ DOMAIN of = t.steps
     /\ IsInjective([s \in t.steps |-> of[s].profile])
     /\ \A s \in t.steps :
          /\ of[s].profile \in DOMAIN plan.frozen.live
          /\ of[s].parent = t.parent[s] /\ of[s].position = Position(t, s)
          /\ of[s].text \in Texts(t, plan.frozen.stock)[s]

\* _validate_locked_profiles: everybody still suits, by the metadata of now.
ProfilesSuit ==
  \A s \in DOMAIN plan.assignments :
    Suits(plan.frozen.tree.needs[s], profile[plan.assignments[s].profile])

\* store.lock_campaign_plan reads and validates everything first ...
CheckLock(r) ==
  /\ plan.status = "planned" /\ More /\ template.status = "enabled"
  /\ ShapeHolds /\ ProfilesSuit
  /\ Reads(r, [pc |-> "lock", revision |-> plan.revision, seen |-> plan.assignments])

\* A mutant: the campaign's revision is not compared.
AssignmentsMatch(r) ==
  \A s \in DOMAIN planner[r].seen :
    /\ s \in DOMAIN plan.assignments
    /\ plan.assignments[s].revision = planner[r].seen[s].revision

\* ... and compares nothing but revisions when it writes: the campaign's, then each assignment's.
LockMatches(r) ==
  /\ plan.revision = planner[r].revision
  /\ \A s \in DOMAIN planner[r].seen :
       /\ s \in DOMAIN plan.assignments
       /\ plan.assignments[s].revision = planner[r].seen[s].revision
Sealed(of) == [of EXCEPT !.locked = TRUE, !.revision = @ + 1]
LockPlan(r) ==
  /\ planner[r].pc = "lock" /\ LockMatches(r)
  /\ LET of == plan.assignments
     IN plan' = [plan EXCEPT
          !.status = "awaiting_campaign_approval", !.locked = TRUE, !.revision = @ + 1,
          !.assignments = [s \in DOMAIN of |-> Sealed(of[s])]]
  /\ Closes(r)

\* A request that finds its revision gone, its template unavailable or no choice is refused.
Refused(r) ==
  /\ \/ planner[r].pc = "plan" /\ template.status # "enabled"
     \/ planner[r].pc = "plan" /\ template.status = "enabled"
        /\ LET t == template.revisions[plan.pinned]
           IN Matchings(Suited(t, Restrict(profile, plan.refs))) = {}
              \/ \E stock \in (SUBSET Text) \ {{}} : Matchings(Texts(t, stock)) = {}
     \/ planner[r].pc = "check" /\ ~(Plannable /\ plan.revision = planner[r].revision)
     \/ planner[r].pc = "replace" /\ ~ReplaceMatches(r)
     \/ planner[r].pc = "override" /\ ~OverrideMatches(r)
     \/ planner[r].pc = "lock" /\ ~LockMatches(r)
     \/ planner[r].pc = "create" /\ plan.status # "none"
  /\ Closes(r) /\ UNCHANGED plan

PlanNext ==
  \/ CreateTemplate \/ UpdateTemplate \/ DisableTemplate \/ EnableTemplate \/ DeleteTemplate
  \/ \E p \in Profile : SyncProfile(p) \/ SetProfile(p)
  \/ DeleteCampaign
  \/ \E r \in Planner :
       \/ CheckCreate(r) \/ CreateCampaign(r)
       \/ BeginPlan(r) \/ Allocate(r) \/ CheckReplace(r) \/ ReplacePlan(r)
       \/ CheckOverride(r) \/ OverrideProfile(r) \/ CheckLock(r) \/ LockPlan(r)
       \/ Refused(r)

PlanSpec == PlanInit /\ [][PlanNext]_planVars
-----------------------------------------------------------------------------
(* Properties.                                                             *)

PlanTypeOK ==
  /\ template.status \in {"none", "enabled", "disabled", "deleted"}
  /\ template.revisions \in Seq(Tree)
  /\ DOMAIN profile \subseteq Profile /\ \A p \in DOMAIN profile : profile[p] \in Metadata
  /\ plan.status \in {"none", "draft", "planned", "awaiting_campaign_approval", "deleted"}
  /\ plan.refs \subseteq DOMAIN profile
  /\ plan.pinned \in DOMAIN template.revisions \cup {0}

\* A plan on record, however it was made, replaced and corrected by hand while other requests
\* did the same, passes the validation of a lock: its comments are the steps of the template
\* revision the campaign was created from, no two have one publisher or one text, all publishers
\* are the campaign's, a reply comes after the comment it answers, and whoever the operators did
\* not change suits its comment by the snapshot kept with the plan.
PlanHolds ==
  plan.status \in {"planned", "awaiting_campaign_approval"} =>
    LET of == plan.assignments
        t == plan.frozen.tree
    IN /\ t = template.revisions[plan.pinned] /\ ValidTree(plan.mode, t)
       /\ ShapeHolds
       /\ IsInjective([s \in DOMAIN of |-> of[s].text])
       /\ \A s \in DOMAIN of :
            /\ of[s].profile \in plan.refs
            /\ of[s].parent # None => of[of[s].parent].position < of[s].position
            /\ of[s].locked <=> plan.locked
            /\ of[s].revision = 1 =>
                 Suits(t.needs[s], plan.frozen.live[of[s].profile])

\* A campaign and its plan: types, and PlanHolds.
PlanningSafe == PlanTypeOK /\ PlanHolds

Plan == <<plan.pinned, plan.refs, plan.frozen,
          [s \in DOMAIN plan.assignments |->
             [plan.assignments[s] EXCEPT !.locked = FALSE, !.revision = 0]]>>

\* What an operator approves is what was validated: a plan that changes has a new revision, a
\* lock seals exactly the assignments it looked at, and no request that began before the lock
\* changes a locked plan.
SealedPlanStands ==
  [][/\ plan.locked => Plan' = Plan /\ plan'.locked
     /\ Plan' # Plan => plan'.revision > plan.revision
     /\ plan'.locked /\ ~plan.locked =>
          \E r \in Planner : /\ planner[r].pc = "lock" /\ planner'[r].pc = "idle"
                             /\ plan.assignments = planner[r].seen]_planVars
=============================================================================
