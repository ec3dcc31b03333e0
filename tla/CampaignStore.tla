---------------------------- MODULE CampaignStore ----------------------------
(***************************************************************************)
(* The durable state of one Comment Campaign (comment_campaign/store.py)   *)
(* and every transaction that changes it after its plan was locked.        *)
(*                                                                         *)
(* Each transaction operator is one `session_factory.begin()` block: its   *)
(* conjuncts on unprimed state are the block's checks, expected revisions  *)
(* and generations included, and a failed check rolls the block back, so   *)
(* the operator is simply not enabled.  `Next` is the contract callers     *)
(* keep: which transaction is called in which circumstances.  The module   *)
(* CampaignExecution models those callers step by step and is checked to   *)
(* implement this one.                                                     *)
(***************************************************************************)
EXTENDS CampaignDomain, Integers, FiniteSets

CONSTANTS
  Assignment,           \* the planned comments of the campaign
  Account,              \* normalised TikTok account keys
  NoAccount,            \* expected_username before the first freeze
  Parent,               \* [Assignment -> Assignment \cup {NoParent}]
  NoParent,             \* parent_assignment_id IS NULL
  MaxCampaignRevision,  \* bound on campaign.revision
  MaxRevision,          \* bound on every assignment's revision
  MaxPrepare            \* bound on campaign.prepare_generation

ASSUME PlanAssumption ==
  /\ Parent \in [Assignment -> Assignment \cup {NoParent}]
  /\ NoParent \notin Assignment
  /\ NoAccount \notin Account

VARIABLES
  campaign,   \* the comment_campaigns row
  row,        \* the comment_assignments rows
  approval,   \* the newest comment_approvals row of each assignment
  receipt,    \* the comment_receipts row of each assignment
  reserved    \* history: the revision begin_comment_input last returned

vars == <<campaign, row, approval, receipt, reserved>>

-------------------------------------------------------------------------------
NoReceipt  == [status |-> "none", account |-> NoAccount]
NoApproval == [revision |-> 0, consumed |-> TRUE]

\* What a transaction may write to `comment_assignments`.
Row == [status    : AssignmentStatus,
        revision  : Nat \ {0},
        identity  : Nat,              \* identity_generation
        preflight : Nat,              \* evidence.account_preflight.identity_generation
        account   : Account \cup {NoAccount}]   \* expected_username

Receipt == [status  : {"none", "published_verified", "published_unverified"},
            account : Account \cup {NoAccount}]

Campaign == [status   : CampaignStatus,
             revision : Nat \ {0},
             identity : Nat,              \* identity_generation
             prepare  : Nat,              \* prepare_generation
             marked   : Nat]              \* reconcile_generation

TypeOK ==
  /\ campaign \in Campaign
  /\ row \in [Assignment -> Row]
  /\ approval \in [Assignment -> [revision : Nat, consumed : BOOLEAN]]
  /\ receipt \in [Assignment -> Receipt]
  /\ reserved \in [Assignment -> Nat]

Children(p) == {c \in Assignment : Parent[c] = p}

\* pause_descendant_ids: everything reachable through parent_assignment_id.
Descendants(p) ==
  {d \in Assignment \ {p} : \A S \in SUBSET Assignment :
     Children(p) \subseteq S /\ (\A x \in S : Children(x) \subseteq S) => d \in S}

\* Faults: a class of rows the identity changes forget to spare.
TerminalExceptVerified   == {"published_unverified", "failed", "cancelled"}
TerminalExceptUncertain == {"published_verified", "failed", "cancelled"}

\* _identity_terminal: the rows no change of identity generation touches.
IdentityTerminal == {"published_verified", "published_unverified", "failed", "cancelled"}
Active == {a \in Assignment : row[a].status \notin IdentityTerminal}

PreparingStatus == {"opening_profile", "locating_video", "locating_parent", "preparing_comment"}

PausableStatus == {"planned", "waiting_dependency", "awaiting_step_approval"} \cup PreparingStatus

\* verified_parent_receipt: the parent and its durable receipt are verified.
VerifiedParent(a) ==
  /\ Parent[a] \in Assignment
  /\ row[Parent[a]].status = "published_verified"
  /\ receipt[Parent[a]].status = "published_verified"

\* Fault: a reply does not wait for its parent comment.
EligibleAtOnce(a) == row[a].status \in {"planned", "waiting_dependency"}

\* eligible_assignment_ids
Eligible(a) == /\ row[a].status \in {"planned", "waiting_dependency"}
               /\ Parent[a] = NoParent \/ VerifiedParent(a)

\* The row carries the identity generation its campaign is at, and the account
\* it was frozen with was observed in that very generation.
Bound(a) == /\ campaign.identity >= 1
            /\ row[a].identity  = campaign.identity
            /\ row[a].preflight = campaign.identity

\* account_preflight_required
PreflightRequired == \/ campaign.identity < 1
                     \/ \E a \in Active : ~Bound(a)

\* Every compare-and-set write, of a campaign or of an assignment, advances the
\* revision it was conditioned on.
Bumped(r)   == [r EXCEPT !.revision = @ + 1]
Moved(r, s) == [Bumped(r) EXCEPT !.status = s]

\* Fault: the cascade reaches the direct replies only.
ChildrenPaused(rows, P) ==
  [d \in Assignment |->
     IF (\E p \in P : d \in Children(p)) /\ rows[d].status \in PausableStatus
     THEN Moved(rows[d], "paused_dependency") ELSE rows[d]]

\* _pause_descendants_in_session, on the rows `rows` the transaction holds.
BranchPaused(rows, P) ==
  [d \in Assignment |->
     IF (\E p \in P : d \in Descendants(p)) /\ rows[d].status \in PausableStatus
     THEN Moved(rows[d], "paused_dependency") ELSE rows[d]]

-------------------------------------------------------------------------------
(* A locked plan waiting for the campaign-level approval: lock_campaign_plan  *)
(* has sealed assignments that are all `planned`, and nothing has run.        *)
Init ==
  /\ campaign = [status |-> "awaiting_campaign_approval", revision |-> 1,
                 identity |-> 0, prepare |-> 0, marked |-> 0]
  /\ row = [a \in Assignment |-> [status |-> "planned", revision |-> 1, identity |-> 0,
                                  preflight |-> 0, account |-> NoAccount]]
  /\ approval = [a \in Assignment |-> NoApproval]
  /\ receipt = [a \in Assignment |-> NoReceipt]
  /\ reserved = [a \in Assignment |-> 0]

-------------------------------------------------------------------------------
(* Campaign transactions *)

\* transition_campaign_status, and approve_campaign_for_queue for "queued".
TransitionCampaign(rev, target) ==
  /\ campaign.revision = rev
  /\ CampaignMove(campaign.status, target)
  /\ campaign' = Moved(campaign, target)
  /\ UNCHANGED <<row, approval, receipt, reserved>>

NextPrepareGeneration ==
  /\ campaign' = [campaign EXCEPT !.prepare = @ + 1]
  /\ UNCHANGED <<row, approval, receipt, reserved>>

MarkReconcilePrepareGeneration(g) ==
  /\ g >= 1 /\ campaign.prepare >= g /\ campaign.marked < g
  /\ campaign' = [campaign EXCEPT !.marked = g]
  /\ UNCHANGED <<row, approval, receipt, reserved>>

-------------------------------------------------------------------------------
(* Identity generations *)

\* The accounts a freeze must not reuse: those of published comments.
PublishedAccounts == {receipt[a].account : a \in {b \in Assignment : receipt[b].status # "none"}}

ReceiptAccountsDistinct ==
  \A a, b \in Assignment :
    /\ receipt[a].status # "none" /\ receipt[b].status # "none"
    /\ receipt[a].account = receipt[b].account
    => a = b

\* Fault: only the comments still to be published are compared.
FreezeAcceptsRepublisher(obs) == \A a, b \in Active : obs[a] = obs[b] => a = b

\* _validate_identity_observations and the duplicate scan over the receipts.
FreezeAccepts(obs) ==
  /\ ReceiptAccountsDistinct
  /\ \A a, b \in Active : obs[a] = obs[b] => a = b
  /\ \A a \in Active : obs[a] \notin PublishedAccounts

IdentityCAS(rev, gen) == /\ campaign.status = "running"
                         /\ campaign.revision = rev
                         /\ campaign.identity = gen

FreezeCampaignIdentities(rev, gen, obs) ==
  /\ IdentityCAS(rev, gen)
  /\ FreezeAccepts(obs)
  /\ campaign' = [Bumped(campaign) EXCEPT !.identity = gen + 1]
  /\ row' = [a \in Assignment |->
       IF a \in Active
       THEN [status    |-> IF Parent[a] = NoParent THEN "planned" ELSE "waiting_dependency",
             revision  |-> row[a].revision + 1,
             identity  |-> gen + 1,
             preflight |-> gen + 1,
             account   |-> obs[a]]
       ELSE row[a]]
  /\ UNCHANGED <<approval, receipt, reserved>>

\* Fault: only the rows that failed are moved to the new generation's pause.
InvalidateAffectedOnly(rev, gen, affected) ==
  /\ gen >= 1
  /\ IdentityCAS(rev, gen)
  /\ affected \cap Active # {}
  /\ campaign' = [Moved(campaign, "paused") EXCEPT !.identity = gen + 1]
  /\ row' = [a \in Assignment |->
       IF a \in affected THEN [Moved(row[a], "paused") EXCEPT !.identity = gen + 1] ELSE row[a]]
  /\ UNCHANGED <<approval, receipt, reserved>>

\* A generation of zero is refused, so before the first freeze this never runs.
InvalidateCampaignIdentity(rev, gen, affected) ==
  /\ gen >= 1
  /\ IdentityCAS(rev, gen)
  /\ affected \cap Active # {}
  /\ campaign' = [Moved(campaign, "paused") EXCEPT !.identity = gen + 1]
  /\ approval' = [a \in Assignment |-> [approval[a] EXCEPT !.consumed = TRUE]]
  /\ row' = [a \in Assignment |->
       IF a \in Active
       THEN [Moved(row[a], IF a \in affected THEN "paused" ELSE "paused_dependency")
               EXCEPT !.identity = gen + 1]
       ELSE row[a]]
  /\ UNCHANGED <<receipt, reserved>>

-------------------------------------------------------------------------------
(* Preparation *)

\* update_assignment_status
UpdateAssignmentStatus(a, rev, target) ==
  /\ row[a].revision = rev
  /\ AssignmentMove(row[a].status, target)
  /\ row' = [row EXCEPT ![a] = Moved(@, target)]
  /\ UNCHANGED <<campaign, approval, receipt, reserved>>

\* The frozen identity begin_comment_input and begin_submitting insist on.
IdentityCurrent(a, gen) == /\ campaign.status = "running"
                           /\ campaign.identity = gen
                           /\ Bound(a)

\* begin_comment_input on a row being prepared reserves a new revision; on a
\* row that awaits approval it only reads.
BeginCommentInput(a, rev, gen) ==
  /\ IdentityCurrent(a, gen)
  /\ row[a].revision = rev
  /\ row[a].status = "preparing_comment"
  /\ row' = [row EXCEPT ![a] = Bumped(@)]
  /\ reserved' = [reserved EXCEPT ![a] = rev + 1]
  /\ UNCHANGED <<campaign, approval, receipt>>

\* fail_assignment_and_pause_descendants
FailAssignmentAndPauseDescendants(a, rev, target) ==
  /\ row[a].revision = rev
  /\ AssignmentMove(row[a].status, target)
  /\ row' = BranchPaused([row EXCEPT ![a] = Moved(@, target)], {a})
  /\ UNCHANGED <<campaign, approval, receipt, reserved>>

\* resume_verified_children: direct children only.
ResumableChildren(p) == {c \in Children(p) : row[c].status = "paused_dependency"}

ResumeVerifiedChildren(p) ==
  /\ row[p].status = "published_verified"
  /\ receipt[p].status = "published_verified"
  /\ row' = [c \in Assignment |-> IF c \in ResumableChildren(p)
                                  THEN Moved(row[c], "waiting_dependency") ELSE row[c]]
  /\ UNCHANGED <<campaign, approval, receipt, reserved>>

-------------------------------------------------------------------------------
(* Approval and submission *)

\* The approval get_approval and the approval CAS find at this row revision.
ApprovalUsable(a) == /\ approval[a].revision = row[a].revision
                     /\ ~approval[a].consumed

\* create_submit_approval: idempotent per revision, refused once consumed.
CreateSubmitApproval(a, rev) ==
  /\ row[a].revision = rev
  /\ row[a].status = "awaiting_step_approval"
  /\ campaign.status = "running"
  /\ Bound(a)
  /\ approval[a].revision = rev => ~approval[a].consumed
  /\ approval' = [approval EXCEPT ![a] = [revision |-> rev, consumed |-> FALSE]]
  /\ UNCHANGED <<campaign, row, receipt, reserved>>

\* Fault: the status of the row is not compared with the transition table.
RejectAnyStatus(a, rev) ==
  /\ row[a].revision = rev
  /\ row' = BranchPaused([row EXCEPT ![a] = Moved(@, "paused")], {a})
  /\ UNCHANGED <<campaign, approval, receipt, reserved>>

\* reject_submit_and_pause_descendants
RejectSubmitAndPauseDescendants(a, rev) ==
  FailAssignmentAndPauseDescendants(a, rev, "paused")

\* Fault: the approval is spent but its row keeps the approved revision.
SpendApprovalOnly(a, rev) ==
  /\ row[a].revision = rev
  /\ row[a].status = "awaiting_step_approval"
  /\ approval' = [approval EXCEPT ![a] =
       IF @.revision = rev THEN [@ EXCEPT !.consumed = TRUE] ELSE @]
  /\ UNCHANGED <<campaign, row, receipt, reserved>>

\* invalidate_submit_approval: the approval dies with its revision.
InvalidateSubmitApproval(a, rev) ==
  /\ row[a].revision = rev
  /\ row[a].status = "awaiting_step_approval"
  /\ approval' = [approval EXCEPT ![a] =
       IF @.revision = rev THEN [@ EXCEPT !.consumed = TRUE] ELSE @]
  /\ row' = [row EXCEPT ![a] = Bumped(@)]
  /\ UNCHANGED <<campaign, receipt, reserved>>

\* begin_submitting: consume the approval and enter the no-replay state at once.
BeginSubmitting(a, rev, gen) ==
  /\ IdentityCurrent(a, gen)
  /\ row[a].revision = rev
  /\ row[a].status = "awaiting_step_approval"
  /\ ApprovalUsable(a)
  /\ approval' = [approval EXCEPT ![a].consumed = TRUE]
  /\ row' = [row EXCEPT ![a] = Moved(@, "submitting")]
  /\ UNCHANGED <<campaign, receipt, reserved>>

\* save_receipt_and_transition; an unverified outcome also pauses the branch.
SaveReceiptAndTransition(a, rev, target, account) ==
  /\ row[a].revision = rev
  /\ AssignmentMove(row[a].status, target)
  /\ target \in {"published_verified", "published_unverified"}
  /\ receipt' = [receipt EXCEPT ![a] = [status |-> target, account |-> account]]
  /\ LET moved == [row EXCEPT ![a] = Moved(@, target)]
     IN  row' = BranchPaused(moved, IF target = "published_unverified" THEN {a} ELSE {})
  /\ UNCHANGED <<campaign, approval, reserved>>

\* Faults: the verdict does not reach the receipt, or not with a receipt's word.
ResolveRowOnly(a, rev) ==
  /\ row[a].revision = rev
  /\ AssignmentMove(row[a].status, "published_verified")
  /\ receipt[a].status # "none"
  /\ row' = [row EXCEPT ![a] = Moved(@, "published_verified")]
  /\ UNCHANGED <<campaign, approval, receipt, reserved>>

ResolveWithVerdict(a, rev) ==
  /\ row[a].revision = rev
  /\ AssignmentMove(row[a].status, "published_verified")
  /\ receipt[a].status # "none"
  /\ row' = [row EXCEPT ![a] = Moved(@, "published_verified")]
  /\ receipt' = [receipt EXCEPT ![a].status = "published"]
  /\ UNCHANGED <<campaign, approval, reserved>>

\* resolve_unverified_assignment: the operator's verdict on an uncertain click.
ResolvePublished(a, rev) ==
  /\ row[a].revision = rev
  /\ AssignmentMove(row[a].status, "published_verified")
  /\ receipt[a].status # "none"
  /\ row' = [row EXCEPT ![a] = Moved(@, "published_verified")]
  /\ receipt' = [receipt EXCEPT ![a].status = "published_verified"]
  /\ UNCHANGED <<campaign, approval, reserved>>

ResolveNotPublished(a, rev) ==
  /\ row[a].revision = rev
  /\ AssignmentMove(row[a].status, "paused")
  /\ receipt[a].status # "none"
  /\ row' = [row EXCEPT ![a] = Moved(@, "waiting_dependency")]
  /\ receipt' = [receipt EXCEPT ![a].status = "published_unverified"]
  /\ UNCHANGED <<campaign, approval, reserved>>

-------------------------------------------------------------------------------
(* reconcile_campaign_state: one transaction a restarted worker runs for a    *)
(* campaign with interrupted rows.  Uncertain clicks become receipts; rows    *)
(* that await approval but whose approval is spent go back to preparation,    *)
(* and only those are given a new prepare generation.                         *)
Interrupted == {a \in Assignment : row[a].status \in {"submitting", "verifying_receipt"}}

\* Fault: an interrupted submission is simply prepared again.
ClosedForRetry == [a \in Assignment |->
  IF a \in Interrupted THEN Moved(row[a], "waiting_dependency") ELSE row[a]]

\* The rows once every interrupted submission is closed as uncertain.
Closed ==
  BranchPaused([a \in Assignment |->
    IF a \in Interrupted THEN Moved(row[a], "published_unverified") ELSE row[a]], Interrupted)

SpentApprovals ==
  {a \in Assignment : /\ Closed[a].status = "awaiting_step_approval"
                      /\ approval[a].revision = Closed[a].revision
                      /\ approval[a].consumed}

Recovered == [a \in Assignment |->
  IF a \in SpentApprovals
  THEN [Moved(Closed[a], "waiting_dependency") EXCEPT !.preflight = 0] ELSE Closed[a]]

RecoveryNeedsPrepare ==
  /\ SpentApprovals # {}
  /\ campaign.status \in {"queued", "running"}
  /\ \E a \in Assignment : /\ Recovered[a].status \in {"planned", "waiting_dependency"}
                           /\ Parent[a] = NoParent \/ VerifiedParent(a)

ReconcileCampaignState ==
  /\ row' = Recovered
  /\ receipt' = [a \in Assignment |->
       IF a \in Interrupted
       THEN [status |-> "published_unverified", account |-> row[a].account] ELSE receipt[a]]
  /\ campaign' = [campaign EXCEPT !.prepare = IF RecoveryNeedsPrepare THEN @ + 1 ELSE @]
  /\ UNCHANGED <<approval, reserved>>

-------------------------------------------------------------------------------
(* The contract of the callers.                                               *)

\* approve_campaign, pause_campaign, resume_campaign, cancel_campaign and the
\* worker's queued -> running.
ChangeCampaign ==
  \E target \in {"queued", "running", "paused", "cancelled"} :
    TransitionCampaign(campaign.revision, target)

FreezeIdentities ==
  \E obs \in [Active -> Account] :
    Active # {} /\ FreezeCampaignIdentities(campaign.revision, campaign.identity, obs)

InvalidateIdentity ==
  \E affected \in SUBSET Active :
    InvalidateCampaignIdentity(campaign.revision, campaign.identity, affected)

\* Only an eligible comment is opened ...
OpenProfile(a) ==
  /\ Eligible(a)
  /\ UpdateAssignmentStatus(a, row[a].revision, "opening_profile")

LocateVideo(a) ==
  UpdateAssignmentStatus(a, row[a].revision, "locating_video")

LocateParent(a) ==
  /\ Parent[a] # NoParent
  /\ UpdateAssignmentStatus(a, row[a].revision, "locating_parent")

\* ... and a reply reaches its input only through its located parent.
PrepareComment(a) ==
  /\ Parent[a] # NoParent => row[a].status = "locating_parent" /\ VerifiedParent(a)
  /\ UpdateAssignmentStatus(a, row[a].revision, "preparing_comment")

ReserveInput(a) == BeginCommentInput(a, row[a].revision, campaign.identity)

\* The screen is offered for approval at the very revision its input reserved.
AwaitStepApproval(a) ==
  /\ reserved[a] = row[a].revision
  /\ UpdateAssignmentStatus(a, row[a].revision, "awaiting_step_approval")

FailPreparation(a) ==
  /\ row[a].status \in PreparingStatus
  /\ \E target \in {"failed", "paused"} :
       FailAssignmentAndPauseDescendants(a, row[a].revision, target)

Approve(a)    == CreateSubmitApproval(a, row[a].revision)
Reject(a)     == RejectSubmitAndPauseDescendants(a, row[a].revision)
Disapprove(a) == InvalidateSubmitApproval(a, row[a].revision)
Submit(a)     == BeginSubmitting(a, row[a].revision, campaign.identity)
Verify(a)     == UpdateAssignmentStatus(a, row[a].revision, "verifying_receipt")

SaveReceipt(a) ==
  /\ a \in Interrupted
  /\ \E target \in {"published_verified", "published_unverified"} :
       SaveReceiptAndTransition(a, row[a].revision, target, row[a].account)

Resolve(a) == \/ ResolvePublished(a, row[a].revision)
              \/ ResolveNotPublished(a, row[a].revision)

\* MaxCampaignRevision, MaxRevision and MaxPrepare bound the counters.
WithinBounds == /\ campaign.revision <= MaxCampaignRevision
                /\ campaign.prepare <= MaxPrepare
                /\ \A a \in Assignment : row[a].revision <= MaxRevision

Step ==
  \/ ChangeCampaign
  \/ NextPrepareGeneration
  \/ \E g \in 1..campaign.prepare : MarkReconcilePrepareGeneration(g)
  \/ FreezeIdentities
  \/ InvalidateIdentity
  \/ ReconcileCampaignState
  \/ \E a \in Assignment :
       \/ OpenProfile(a) \/ LocateVideo(a) \/ LocateParent(a) \/ PrepareComment(a)
       \/ ReserveInput(a) \/ AwaitStepApproval(a) \/ FailPreparation(a)
       \/ Approve(a) \/ Reject(a) \/ Disapprove(a)
       \/ Submit(a) \/ Verify(a) \/ SaveReceipt(a)
       \/ Resolve(a) \/ ResumeVerifiedChildren(a)

Spec == Init /\ [][Step]_vars

\* What a run explores of it.
Next == Step /\ WithinBounds'

BoundedSpec == Init /\ [][Next]_vars

-------------------------------------------------------------------------------
(* What the store promises, whatever its callers interleave.                  *)

\* Statuses a comment can only have once its browser profile was opened for it.
Engaged == PreparingStatus \cup
           {"awaiting_step_approval", "submitting", "verifying_receipt",
            "published_verified", "published_unverified"}

\* A reply is worked on, and certainly clicked, only under a parent comment that
\* is verified together with its receipt (verified_parent_receipt): no pause,
\* recovery, identity change or operator verdict ever leaves an engaged reply
\* under a parent that is not.
ReplyOnlyUnderVerifiedParent ==
  \A a \in Assignment :
    /\ Parent[a] # NoParent
    /\ row[a].status \in Engaged \/ receipt[a].status # "none"
    => VerifiedParent(a)

\* A published status and the durable receipt never disagree: verified iff the
\* receipt is, and an uncertain click always has a receipt (receipt and status
\* are saved by different transactions that may fail separately).
ReceiptMatchesStatus ==
  \A a \in Assignment :
    /\ row[a].status = "published_verified" <=> receipt[a].status = "published_verified"
    /\ row[a].status = "published_unverified" => receipt[a].status = "published_unverified"

\* What awaits approval or is being clicked carries the account observed in the
\* campaign's current identity generation: no freeze or invalidation can slip
\* between the operator's look at the screen and the click.
SubmitUsesFrozenIdentity ==
  \A a \in Assignment :
    row[a].status \in {"awaiting_step_approval", "submitting", "verifying_receipt"} => Bound(a)

\* An approval that could still be spent belongs to a row that still awaits it
\* (anything that moves the row leaves the approval behind), and a row never
\* awaits an approval that is spent: the second branch of
\* reconcile_campaign_state has nothing to recover.
ApprovalsFollowTheirRow ==
  \A a \in Assignment :
    approval[a].revision = row[a].revision =>
      (row[a].status = "awaiting_step_approval" /\ ~approval[a].consumed)

\* No two comments of a campaign are published by one TikTok account, although
\* accounts are re-observed at every identity generation and receipts of older
\* generations remain.
DistinctPublishers == ReceiptAccountsDistinct

\* A verified publication is final: neither identity changes, recovery, pauses
\* nor operators touch the row or its receipt again.
VerifiedIsFinal ==
  [][\A a \in Assignment :
       row[a].status = "published_verified" =>
         row'[a] = row[a] /\ receipt'[a] = receipt[a]]_vars

\* An uncertain publication survives every change of identity generation: only
\* an operator's verdict on that very row changes it, never a campaign-wide step.
UncertainSurvivesIdentityChange ==
  [][campaign'.identity # campaign.identity =>
       \A a \in Assignment :
         row[a].status = "published_unverified" =>
           row'[a] = row[a] /\ receipt'[a] = receipt[a]]_vars

\* d hangs below p, directly or through other replies.
Below(d, p) ==
  d # p /\ \A S \in SUBSET Assignment :
             (d \in S /\ \A x \in S : Parent[x] \in Assignment => Parent[x] \in S) => p \in S

\* A branch stops together with the comment it hangs from: when a comment fails,
\* is paused, or is left uncertain by a click or a recovery, no reply below it, at
\* any depth and in the same transaction, stays in a status work could go on from.
BranchStopsWithItsRoot ==
  [][\A p, d \in Assignment :
       /\ Below(d, p)
       /\ row'[p].status # row[p].status
       /\ row'[p].status \in {"failed", "published_unverified", "paused"}
       => row'[d].status \notin PausableStatus]_vars

\* A pause reaches what it should and nothing else: the whole branch below a stopped root,
\* and no published or uncertain comment when identities change.
PausesAreExact == BranchStopsWithItsRoot /\ UncertainSurvivesIdentityChange
===============================================================================
