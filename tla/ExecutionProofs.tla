--------------------------- MODULE ExecutionProofs ---------------------------
(***************************************************************************)
(* Proofs about the processes of CampaignExecution, for every plan, every  *)
(* set of accounts and every set of failures: their own safety, and that   *)
(* whatever they interleave is a behaviour of the store's contract, so     *)
(* that the theorems of CampaignStoreProofs are theorems about them.       *)
(*                                                                         *)
(* `Holds` is the inductive invariant: the types, what the job must be at  *)
(* each of its points, what each page of a batch says about its row, and   *)
(* what the row is while it is clicked.                                    *)
(***************************************************************************)
EXTENDS CampaignExecution, CampaignStoreProofs, SequenceTheorems, FiniteSetTheorems

LEMMA Bounds == BatchSize \in Nat /\ BatchSize > 0 /\ Retries \in Nat /\ Retries > 0
BY ExecutionAssumption

-------------------------------------------------------------------------------
PrepareJobs == [kind : {"prepare"}, generation : Nat \ {0}, identity : Nat]
SubmitJobs  == [kind : {"submit"}, target : Assignment, revision : Nat \ {0}]
Jobs        == PrepareJobs \cup SubmitJobs

SubmitPoint == {"profile", "screen", "commit", "click", "clicked", "receipt",
                "children", "release"}

WorkSet == [pc : JobPoint, job : Jobs \cup {NoJob}, ident : Nat, snap : Nat,
            scan : SUBSET Assignment, batch : SUBSET Assignment,
            fault : SUBSET Assignment, next : Nat]

PagePoint == Outcome \cup {"away", "open", "enter", "panel", "parent", "input", "typed"}
PageSet   == [pc : PagePoint, seen : Nat, pass : 0..Retries]

HandlersFit ==
  /\ queue \in Seq(Jobs)
  /\ handoff \subseteq 0..campaign.prepare /\ resuming \subseteq Assignment
  /\ orphaned \in BOOLEAN

\* The job is what its point needs.
JobFits ==
  /\ work \in WorkSet
  /\ Cardinality(work.batch) <= BatchSize
  /\ At("enqueue") => work.next \in 1..campaign.prepare
  /\ At("observe") => work.scan # {}
  /\ work.pc \in {"open", "verify", "page", "fail"} => work.batch # {}
  /\ work.pc \in SubmitPoint => work.job \in SubmitJobs
  /\ work.pc \in SubmitPoint \cup {"rescan"} => work.batch = {}

Clicked == {"submitting", "verifying_receipt"} \cup Published
Settled == {"open", "prepared", "reported"}

\* What the page of a comment in the batch says about its row.
PageFits(a) ==
  /\ row[a].status \notin Clicked
  /\ page[a].pc = "open" =>
       /\ page[a].seen <= row[a].revision
       /\ row[a].revision = page[a].seen => Eligible(a)
  /\ page[a].pc \in Settled => row[a].status \notin PreparingStatus
  /\ page[a].pc = "typed" => reserved[a] = page[a].seen

\* Where the pages of a batch are when its job is at a point.
PagesFit ==
  /\ page \in [Assignment -> PageSet]
  /\ \A a \in work.batch : PageFits(a)
  /\ work.pc \in {"open", "verify"} => \A a \in work.batch : page[a].pc = "open"
  /\ At("fail") => \A a \in work.batch : page[a].pc \in {"prepared", "error", "reported"}
  /\ work.pc \in {"close", "kick"} /\ work.fault = {} /\ ~Some("stopped") =>
       \A a \in work.batch : page[a].pc \in Settled

\* The row from the commit of submit_assignment to its outcome.
ClickFits ==
  /\ work.pc \in {"click", "clicked"} =>
       /\ row[Target].status = "submitting"
       /\ row[Target].revision = work.job.revision + 1
  /\ At("click") => row[Target].identity = work.ident /\ Bound(Target)
  /\ At("receipt") => row[Target].status \in {"verifying_receipt", "published_verified"}

Holds ==
  /\ TypeOK /\ ReplyOnlyUnderVerifiedParent
  /\ HandlersFit /\ JobFits /\ PagesFit /\ ClickFits

-------------------------------------------------------------------------------
(* Types *)

LEMMA NewJobs ==
  ASSUME TypeOK
  PROVE  /\ \A g \in Nat \ {0} : PrepareJob(g, campaign.identity) \in Jobs
         /\ \A a \in Assignment : SubmitJob(a, row[a].revision) \in Jobs
BY FieldTypes DEF PrepareJob, SubmitJob, Jobs, PrepareJobs, SubmitJobs

LEMMA NextJob ==
  ASSUME queue \in Seq(Jobs), queue # <<>>
  PROVE  /\ Head(queue) \in Jobs /\ Tail(queue) \in Seq(Jobs)
         /\ Head(queue).kind = "submit" => Head(queue) \in SubmitJobs
         /\ Head(queue).kind = "prepare" => Head(queue) \in PrepareJobs
<1>1. Head(queue) \in Jobs /\ Tail(queue) \in Seq(Jobs)
  BY HeadTailProperties
<1> QED
  BY <1>1 DEF Jobs, PrepareJobs, SubmitJobs

LEMMA EnqueueType ==
  ASSUME queue \in Seq(Jobs), NEW j \in Jobs, Enqueue(j)
  PROVE  queue' \in Seq(Jobs)
<1>1. Append(queue, j) \in Seq(Jobs)
  BY AppendProperties
<1> QED
  BY <1>1 DEF Enqueue, redis

LEMMA IdleType ==
  /\ Idle \in WorkSet /\ Cardinality(Idle.batch) <= BatchSize
  /\ Idle.pc = "idle" /\ Idle.batch = {}
<1>1. Idle \in WorkSet
  BY DEF Idle, WorkSet, JobPoint
<1>2. Idle.batch = {} /\ Idle.pc = "idle"
  BY DEF Idle
<1> QED
  BY <1>1, <1>2, FS_EmptySet, Bounds

LEMMA WorkFields ==
  ASSUME JobFits
  PROVE  /\ work.pc \in JobPoint /\ work.ident \in Nat /\ work.snap \in Nat /\ work.next \in Nat
         /\ work.scan \subseteq Assignment /\ work.batch \subseteq Assignment
         /\ work.fault \subseteq Assignment /\ work.job \in Jobs \cup {NoJob}
         /\ work.pc \in SubmitPoint =>
              /\ work.batch = {} /\ Target \in Assignment
              /\ work.job.revision \in Nat \ {0} /\ work.job.kind = "submit"
BY DEF JobFits, WorkSet, SubmitJobs, Target

\* A job that only moves on.
LEMMA GotoType ==
  ASSUME JobFits, NEW pc \in JobPoint, Goto(pc)
  PROVE  /\ work' \in WorkSet /\ work'.pc = pc
         /\ work'.job = work.job /\ work'.ident = work.ident /\ work'.snap = work.snap
         /\ work'.scan = work.scan /\ work'.batch = work.batch /\ work'.fault = work.fault
         /\ work'.next = work.next
BY DEF JobFits, Goto, WorkSet

\* Prepare generations only grow.
LEMMA PrepareGrows ==
  ASSUME TypeOK, [Step]_vars
  PROVE  campaign'.prepare \in Nat /\ campaign'.prepare >= campaign.prepare
         /\ 0..campaign.prepare \subseteq 0..campaign'.prepare
<1>0. TypeOK'
  BY TypeStays
<1>1. campaign.prepare \in Nat /\ campaign'.prepare \in Nat
  BY <1>0 DEF TypeOK, Campaign
<1>2. campaign'.prepare >= campaign.prepare
  <2>1. CASE UNCHANGED vars
    BY <2>1, <1>1 DEF vars
  <2>2. CASE ChangeCampaign \/ FreezeIdentities \/ InvalidateIdentity
    <3>1. \A k \in Campaign : \A g, s :
            /\ Moved(k, s).prepare = k.prepare
            /\ [Moved(k, s) EXCEPT !.identity = g].prepare = k.prepare
      BY DEF Moved, Bumped, Campaign
    <3>2. CASE ChangeCampaign
      BY <3>1, <3>2, <1>1 DEF TypeOK, ChangeCampaign, TransitionCampaign
    <3>3. CASE FreezeIdentities
      <4>1. campaign' = [Bumped(campaign) EXCEPT !.identity = campaign.identity + 1]
        BY <3>3 DEF FreezeIdentities, FreezeCampaignIdentities
      <4>2. Bumped(campaign) \in Campaign /\ Bumped(campaign).prepare = campaign.prepare
        BY BumpedType DEF TypeOK, Bumped, Campaign
      <4> QED
        BY <4>1, <4>2, <1>1 DEF Campaign
    <3>4. CASE InvalidateIdentity
      <4>1. campaign' = [Moved(campaign, "paused") EXCEPT !.identity = campaign.identity + 1]
        BY <3>4 DEF InvalidateIdentity, InvalidateCampaignIdentity
      <4> QED
        BY <4>1, <3>1, <1>1 DEF TypeOK
    <3> QED
      BY <2>2, <3>2, <3>3, <3>4
  <2>3. CASE NextPrepareGeneration \/ ReconcileCampaignState
             \/ \E g \in 1..campaign.prepare : MarkReconcilePrepareGeneration(g)
    BY <2>3, <1>1 DEF TypeOK, Campaign, NextPrepareGeneration, ReconcileCampaignState,
       MarkReconcilePrepareGeneration
  <2>4. CASE \E a \in Assignment :
               \/ OpenProfile(a) \/ LocateVideo(a) \/ LocateParent(a) \/ PrepareComment(a)
               \/ ReserveInput(a) \/ AwaitStepApproval(a) \/ FailPreparation(a)
               \/ Approve(a) \/ Reject(a) \/ Disapprove(a)
               \/ Submit(a) \/ Verify(a) \/ SaveReceipt(a)
               \/ Resolve(a) \/ ResumeVerifiedChildren(a)
    <3>1. campaign' = campaign
      BY <2>4 DEF OpenProfile, LocateVideo, LocateParent, PrepareComment, ReserveInput,
         AwaitStepApproval, FailPreparation, Approve, Reject, Disapprove, Submit, Verify,
         SaveReceipt, Resolve, ResumeVerifiedChildren, UpdateAssignmentStatus, BeginCommentInput,
         FailAssignmentAndPauseDescendants, CreateSubmitApproval, RejectSubmitAndPauseDescendants,
         InvalidateSubmitApproval, BeginSubmitting, SaveReceiptAndTransition, ResolvePublished,
         ResolveNotPublished
    <3> QED
      BY <3>1, <1>1
  <2> QED
    BY <2>1, <2>2, <2>3, <2>4 DEF Step
<1> QED
  BY <1>1, <1>2

-------------------------------------------------------------------------------
(* What keeps the invariant *)

\* A step of the store that leads to a state where it holds again.
Kept == [Step]_vars /\ Holds'

\* A step that neither prepares nor clicks the comment leaves its row so.
Calm(a) ==
  /\ row'[a].status \in Clicked => row[a].status \in Clicked
  /\ row'[a].status \in PreparingStatus => row[a].status \in PreparingStatus
  /\ reserved'[a] = reserved[a]

\* A step beside the click does not touch the row.
Firm(a) ==
  /\ row[a].status = "submitting" => row'[a] = row[a]
  /\ row[a].status \in {"verifying_receipt", "published_verified"} =>
       row'[a].status \in {"verifying_receipt", "published_verified"}

LEMMA UnchangedIsCalm ==
  ASSUME UNCHANGED vars
  PROVE  [Step]_vars /\ \A a \in Assignment : Calm(a) /\ Firm(a)
BY DEF vars, Calm, Firm

\* A comment whose page does not move stays what its page says.
LEMMA PageStays ==
  ASSUME TypeOK, [Step]_vars, page \in [Assignment -> PageSet], NEW a \in Assignment,
         PageFits(a), page'[a] = page[a], Calm(a)
  PROVE  PageFits(a)'
<1>1. page[a].seen \in Nat /\ row[a].revision \in Nat /\ row'[a].revision \in Nat
  <2>1. TypeOK'
    BY TypeStays
  <2>2. page[a] \in PageSet /\ row[a] \in Row /\ row'[a] \in Row
    BY <2>1 DEF TypeOK
  <2> QED
    BY <2>2 DEF PageSet, Row
<1>2. Effect(a)
  BY StepEffect
<1>3. row'[a].revision >= row[a].revision
      /\ (row'[a].revision = row[a].revision => row'[a] = row[a])
  BY <1>1, <1>2 DEF Effect
<1>4. Eligible(a) /\ row'[a] = row[a] => Eligible(a)'
  BY VerifiedParentStays DEF Eligible
<1> QED
  BY <1>1, <1>3, <1>4 DEF PageFits, Calm

\* Operators, handlers and leases: they run beside the worker.
Beside ==
  /\ [Step]_vars /\ work' = work /\ page' = page
  /\ \A a \in Assignment : Calm(a) /\ Firm(a)
  /\ campaign'.identity = campaign.identity
  /\ HandlersFit'

LEMMA BesideHolds ==
  ASSUME Holds, Beside
  PROVE  Kept
<1>1. TypeOK' /\ ReplyOnlyUnderVerifiedParent'
  BY TypeStays, RepliesStay DEF Holds, Beside
<1>2. JobFits'
  <2>1. 1..campaign.prepare \subseteq 1..campaign'.prepare
    BY PrepareGrows, FieldTypes DEF Holds, Beside
  <2> QED
    BY <2>1 DEF Holds, Beside, JobFits, At
<1>3. PagesFit'
  <2>1. \A a \in work.batch : PageFits(a)'
    BY PageStays, WorkFields DEF Holds, Beside, PagesFit
  <2> QED
    BY <2>1 DEF Holds, Beside, PagesFit, At, Some
<1>4. ClickFits'
  <2>1. SUFFICES ASSUME work.pc \in {"click", "clicked", "receipt"}
                 PROVE  ClickFits'
    BY DEF ClickFits, Beside, At
  <2>2. Target \in Assignment /\ Target' = Target
    BY <2>1, WorkFields DEF Holds, SubmitPoint, Beside, Target
  <2>3. work.pc \in {"click", "clicked"} => row'[Target] = row[Target]
    BY <2>2 DEF Holds, Beside, Firm, ClickFits
  <2>4. At("click") => Bound(Target)'
    BY <2>2, <2>3 DEF Holds, ClickFits, Bound, Beside, At
  <2> QED
    BY <2>2, <2>3, <2>4 DEF Holds, ClickFits, Beside, Firm, At
<1> QED
  BY <1>1, <1>2, <1>3, <1>4 DEF Holds, Beside, Kept

\* The worker leaves its job.
Ends ==
  /\ [Step]_vars /\ page' = page
  /\ work'.pc \in {"idle", "rescan", "preflight"} /\ work'.batch = {} /\ work' \in WorkSet
  /\ HandlersFit'

LEMMA EndsHolds ==
  ASSUME Holds, Ends
  PROVE  Kept
<1>1. TypeOK' /\ ReplyOnlyUnderVerifiedParent'
  BY TypeStays, RepliesStay DEF Holds, Ends
<1>2. JobFits'
  BY FS_EmptySet, Bounds DEF Ends, JobFits, At, SubmitPoint
<1>3. PagesFit' /\ ClickFits'
  BY DEF Holds, Ends, PagesFit, ClickFits, At
<1> QED
  BY <1>1, <1>2, <1>3 DEF Holds, Ends, Kept

\* The job of a batch moves on.
MovesOn ==
  /\ [Step]_vars /\ page' = page
  /\ \A a \in work.batch : Calm(a)
  /\ work'.batch = work.batch /\ work'.pc \notin SubmitPoint
  /\ HandlersFit' /\ JobFits'
  /\ work'.pc \in {"open", "verify"} => \A a \in work.batch : page[a].pc = "open"
  /\ work'.pc = "fail" => \A a \in work.batch : page[a].pc \in {"prepared", "error", "reported"}
  /\ work'.pc \in {"close", "kick"} /\ work'.fault = {} /\ ~Some("stopped") =>
       \A a \in work.batch : page[a].pc \in Settled

LEMMA MovesOnHolds ==
  ASSUME Holds, MovesOn
  PROVE  Kept
<1>1. TypeOK' /\ ReplyOnlyUnderVerifiedParent'
  BY TypeStays, RepliesStay DEF Holds, MovesOn
<1>2. PagesFit'
  <2>1. \A a \in work.batch : PageFits(a)'
    BY PageStays, WorkFields DEF Holds, MovesOn, PagesFit
  <2> QED
    BY <2>1 DEF Holds, MovesOn, PagesFit, At, Some
<1>3. ClickFits'
  BY DEF MovesOn, ClickFits, At, SubmitPoint
<1> QED
  BY <1>1, <1>2, <1>3 DEF Holds, MovesOn, Kept

-------------------------------------------------------------------------------
(* Operators and handlers *)

\* A transition of the campaign touches no comment.
LEMMA CampaignTurns ==
  ASSUME TypeOK, NEW target \in {"queued", "running", "paused", "cancelled"},
         TransitionCampaign(campaign.revision, target)
  PROVE  /\ [Step]_vars /\ \A a \in Assignment : Calm(a) /\ Firm(a)
         /\ campaign'.identity = campaign.identity /\ campaign'.prepare = campaign.prepare
<1>1. ChangeCampaign
  BY DEF ChangeCampaign
<1>2. row' = row /\ reserved' = reserved /\ campaign' = Moved(campaign, target)
  BY DEF TransitionCampaign
<1>3. \A k \in Campaign : \A s : Moved(k, s).identity = k.identity /\ Moved(k, s).prepare = k.prepare
  BY DEF Moved, Bumped, Campaign
<1> QED
  BY <1>1, <1>2, <1>3 DEF Step, Calm, Firm, TypeOK

\* A comment that fails or is paused is neither clicked nor published, unless it is
\* uncertain, and the branch below it only stops.
LEMMA FailIsCalm ==
  ASSUME TypeOK, NEW a \in Assignment, NEW rev, NEW t \in {"failed", "paused"},
         FailAssignmentAndPauseDescendants(a, rev, t)
  PROVE  /\ \A b \in Assignment : Calm(b) /\ Firm(b)
         /\ row[a].status \notin {"submitting", "verifying_receipt", "published_verified"}
         /\ row'[a].status = t
         /\ \A b \in Assignment \ {a} : row[b].status \in Clicked => row'[b] = row[b]
<1> DEFINE rows == [row EXCEPT ![a] = Moved(row[a], t)]
<1>1. /\ AssignmentMove(row[a].status, t) /\ row' = BranchPaused(rows, {a})
      /\ reserved' = reserved
  BY DEF FailAssignmentAndPauseDescendants
<1>2. row[a].status \notin {"submitting", "verifying_receipt", "published_verified"}
  BY <1>1, FieldTypes DEF AssignmentMove, AssignmentTransitions, AssignmentStatus
<1>3. rows[a] = Moved(row[a], t) /\ \A b \in Assignment \ {a} : rows[b] = row[b]
  BY DEF TypeOK
<1> HIDE DEF rows
<1>4. row'[a] = Moved(row[a], t)
  BY <1>1, <1>3, BranchPausedRow
<1>5. row'[a].status = t
  BY <1>4, MovedFields, FieldTypes
<1>6. ASSUME NEW b \in Assignment \ {a}
      PROVE  \/ row'[b] = row[b]
             \/ row[b].status \in PausableStatus /\ row'[b].status = "paused_dependency"
  <2>1. \/ row'[b] = rows[b]
        \/ rows[b].status \in PausableStatus /\ row'[b] = Moved(rows[b], "paused_dependency")
    BY <1>1, BranchPausedRow
  <2> QED
    BY <2>1, <1>3, MovedFields, FieldTypes
<1>7. \A b \in Assignment \ {a} : Calm(b) /\ Firm(b)
  BY <1>1, <1>6 DEF Calm, Firm, Clicked, Published, PreparingStatus, PausableStatus
<1>8. Calm(a) /\ Firm(a)
  BY <1>1, <1>2, <1>5 DEF Calm, Firm, Clicked, Published, PreparingStatus
<1>9. \A b \in Assignment \ {a} : row[b].status \in Clicked => row'[b] = row[b]
  BY <1>6 DEF Clicked, Published, PausableStatus, PreparingStatus
<1> QED
  BY <1>2, <1>5, <1>7, <1>8, <1>9

\* A resumed reply waits for its turn; no other comment moves.
LEMMA ResumeIsCalm ==
  ASSUME TypeOK, NEW p \in Assignment, ResumeVerifiedChildren(p)
  PROVE  \A b \in Assignment : Calm(b) /\ Firm(b) /\ (row[b].status \in Clicked => row'[b] = row[b])
<1> SUFFICES ASSUME NEW b \in Assignment
             PROVE  Calm(b) /\ Firm(b) /\ (row[b].status \in Clicked => row'[b] = row[b])
  OBVIOUS
<1>1. /\ reserved' = reserved
      /\ \/ row'[b] = row[b]
         \/ /\ row[b].status = "paused_dependency"
            /\ row'[b] = Moved(row[b], "waiting_dependency")
  BY DEF ResumeVerifiedChildren, ResumableChildren
<1>2. \/ row'[b] = row[b]
      \/ row[b].status = "paused_dependency" /\ row'[b].status = "waiting_dependency"
  BY <1>1, MovedFields, FieldTypes
<1> QED
  BY <1>1, <1>2 DEF Calm, Firm, Clicked, Published, PreparingStatus

\* The verdict of an operator is on a comment that was clicked.
LEMMA ResolveIsCalm ==
  ASSUME TypeOK, NEW a \in Assignment, Resolve(a)
  PROVE  /\ \A b \in Assignment : Calm(b) /\ Firm(b)
         /\ \A b \in Assignment \ {a} : row'[b] = row[b]
         /\ ResolvePublished(a, row[a].revision) => row'[a].status \in Clicked
<1>1. /\ reserved' = reserved
      /\ \/ /\ AssignmentMove(row[a].status, "published_verified")
            /\ row' = [row EXCEPT ![a] = Moved(row[a], "published_verified")]
         \/ /\ AssignmentMove(row[a].status, "paused")
            /\ row' = [row EXCEPT ![a] = Moved(row[a], "waiting_dependency")]
      /\ ResolvePublished(a, row[a].revision) =>
           row' = [row EXCEPT ![a] = Moved(row[a], "published_verified")]
  BY DEF Resolve, ResolvePublished, ResolveNotPublished
<1>2. \A b \in Assignment \ {a} : row'[b] = row[b]
  BY <1>1 DEF TypeOK
<1>3. /\ \/ /\ AssignmentMove(row[a].status, "published_verified")
            /\ row'[a].status = "published_verified"
         \/ AssignmentMove(row[a].status, "paused") /\ row'[a].status = "waiting_dependency"
      /\ ResolvePublished(a, row[a].revision) => row'[a].status = "published_verified"
  <2>1. \A s : Moved(row[a], s).status = s
    BY MovedFields, FieldTypes
  <2>2. \A r : [row EXCEPT ![a] = r][a] = r
    BY DEF TypeOK
  <2> QED
    BY <1>1, <2>1, <2>2
<1>4. Calm(a) /\ Firm(a)
  <2>1. /\ AssignmentMove(row[a].status, "published_verified") =>
             row[a].status \in {"verifying_receipt", "published_unverified"}
        /\ AssignmentMove(row[a].status, "paused") =>
             row[a].status \notin {"submitting", "verifying_receipt", "published_verified"}
    BY FieldTypes DEF AssignmentMove, AssignmentTransitions, AssignmentStatus
  <2> QED
    BY <1>1, <1>3, <2>1 DEF Calm, Firm, Clicked, Published, PreparingStatus
<1> QED
  BY <1>1, <1>2, <1>3, <1>4 DEF Calm, Firm, Clicked, Published

LEMMA KickType ==
  ASSUME Holds, [Step]_vars, handoff' = handoff \cup {0} \/ handoff' \subseteq handoff
  PROVE  handoff' \subseteq 0..campaign'.prepare
<1>1. 0 \in 0..campaign'.prepare /\ 0..campaign.prepare \subseteq 0..campaign'.prepare
  BY PrepareGrows DEF Holds
<1> QED
  BY <1>1 DEF Holds, HandlersFit

LEMMA OperatorBeside ==
  ASSUME Holds, Operator
  PROVE  Beside
<1>0. TypeOK /\ campaign \in Campaign
  BY DEF Holds, TypeOK
<1>1. CASE QueueCampaign \/ StopCampaign
  <2>1. PICK t \in {"queued", "running", "paused", "cancelled"} :
          TransitionCampaign(campaign.revision, t)
    BY <1>1 DEF QueueCampaign, StopCampaign
  <2>2. /\ work' = work /\ page' = page /\ orphaned' = orphaned
        /\ queue' = queue /\ resuming' = resuming
        /\ handoff' = handoff \cup {0} \/ handoff' = handoff
    BY <1>1 DEF QueueCampaign, StopCampaign, Call, Kick, redis
  <2> QED
    BY <1>0, <2>1, <2>2, CampaignTurns, KickType DEF Beside, Holds, HandlersFit
<1>2. CASE QueueCampaignAgain
  <2>1. UNCHANGED vars /\ campaign' = campaign
    BY <1>2 DEF QueueCampaignAgain, vars
  <2>2. /\ work' = work /\ page' = page /\ orphaned' = orphaned
        /\ queue' = queue /\ resuming' = resuming /\ handoff' = handoff \cup {0}
    BY <1>2 DEF QueueCampaignAgain, Call, Kick, redis
  <2> QED
    BY <2>1, <2>2, UnchangedIsCalm, KickType DEF Beside, Holds, HandlersFit
<1>3. ASSUME NEW a \in Assignment, ApproveSubmit(a)
      PROVE  Beside
  <2>1. Approve(a) /\ [Step]_vars
    BY <1>3 DEF ApproveSubmit, Approve, Step
  <2>2. campaign' = campaign /\ row' = row /\ reserved' = reserved
    BY <2>1 DEF Approve, CreateSubmitApproval
  <2>3. queue' \in Seq(Jobs)
    BY <1>3, NewJobs, EnqueueType DEF ApproveSubmit, Holds, HandlersFit, redis
  <2>4. /\ work' = work /\ page' = page /\ orphaned' = orphaned
        /\ resuming' = resuming /\ handoff' = handoff
    BY <1>3 DEF ApproveSubmit, Call
  <2> QED
    BY <2>1, <2>2, <2>3, <2>4 DEF Beside, Calm, Firm, Holds, HandlersFit
<1>4. ASSUME NEW a \in Assignment, RejectSubmit(a)
      PROVE  Beside
  <2>1. /\ Reject(a) /\ [Step]_vars
        /\ FailAssignmentAndPauseDescendants(a, row[a].revision, "paused")
    BY <1>4 DEF RejectSubmit, Reject, RejectSubmitAndPauseDescendants, Step
  <2>2. campaign' = campaign
    BY <2>1 DEF FailAssignmentAndPauseDescendants
  <2>3. /\ work' = work /\ page' = page /\ orphaned' = orphaned
        /\ queue' = queue /\ resuming' = resuming /\ handoff' = handoff
    BY <1>4 DEF RejectSubmit, Call, redis
  <2> QED
    BY <1>0, <2>1, <2>2, <2>3, FailIsCalm DEF Beside, Holds, HandlersFit
<1>5. ASSUME NEW a \in Assignment, ResolveUnverified(a)
      PROVE  Beside
  <2>1. Resolve(a) /\ [Step]_vars
    BY <1>5 DEF ResolveUnverified, Resolve, Step
  <2>2. campaign' = campaign
    BY <2>1 DEF Resolve, ResolvePublished, ResolveNotPublished
  <2>3. /\ work' = work /\ page' = page /\ orphaned' = orphaned /\ queue' = queue
        /\ resuming' = resuming \cup {a} \/ resuming' = resuming
        /\ handoff' = handoff \cup {0} \/ handoff' = handoff
    BY <1>5 DEF ResolveUnverified, Call, Kick, redis
  <2> QED
    BY <1>0, <2>1, <2>2, <2>3, ResolveIsCalm, KickType DEF Beside, Holds, HandlersFit
<1> QED
  BY <1>1, <1>2, <1>3, <1>4, <1>5 DEF Operator

\* Accepting a generation marks it, unless it is marked already.
LEMMA EnqueuePrepareStep ==
  ASSUME TypeOK, queue \in Seq(Jobs), NEW g \in 1..campaign.prepare, EnqueuePrepare(g)
  PROVE  /\ [Step]_vars /\ queue' \in Seq(Jobs)
         /\ row' = row /\ reserved' = reserved /\ campaign'.identity = campaign.identity
         /\ campaign'.prepare = campaign.prepare
<1>1. /\ row' = row /\ approval' = approval /\ receipt' = receipt /\ reserved' = reserved
      /\ campaign' = [campaign EXCEPT !.marked = IF campaign.marked < g THEN g
                                                 ELSE campaign.marked]
      /\ Enqueue(PrepareJob(g, campaign.identity))
  BY DEF EnqueuePrepare
<1>2. campaign \in Campaign /\ g \in Nat \ {0} /\ campaign.prepare >= g /\ g >= 1
  BY DEF TypeOK, Campaign
<1>3. CASE campaign.marked < g
  <2>1. MarkReconcilePrepareGeneration(g)
    BY <1>1, <1>2, <1>3 DEF MarkReconcilePrepareGeneration
  <2> QED
    BY <1>1, <1>2, <2>1, NewJobs, EnqueueType DEF Step, Campaign
<1>4. CASE ~(campaign.marked < g)
  <2>1. campaign' = campaign
    BY <1>1, <1>2, <1>4 DEF Campaign
  <2> QED
    BY <1>1, <1>2, <2>1, NewJobs, EnqueueType DEF vars
<1> QED
  BY <1>3, <1>4

LEMMA AllocateStep ==
  ASSUME TypeOK, NextPrepareGeneration
  PROVE  /\ [Step]_vars /\ row' = row /\ reserved' = reserved
         /\ campaign'.identity = campaign.identity
         /\ campaign'.prepare = campaign.prepare + 1 /\ campaign.prepare \in Nat
BY DEF NextPrepareGeneration, Step, TypeOK, Campaign

LEMMA HandlerBeside ==
  ASSUME Holds, Handler \/ HandlerFails \/ LeasesExpire
  PROVE  Beside
<1>0. TypeOK /\ campaign \in Campaign
  BY DEF Holds, TypeOK
<1>1. CASE AllocateGeneration
  <2>1. NextPrepareGeneration /\ handoff' = (handoff \ {0}) \cup {campaign.prepare + 1}
    BY <1>1 DEF AllocateGeneration
  <2>2. /\ work' = work /\ page' = page /\ orphaned' = orphaned
        /\ queue' = queue /\ resuming' = resuming
    BY <1>1 DEF AllocateGeneration, redis
  <2>3. handoff' \subseteq 0..campaign'.prepare
    <3>1. handoff \subseteq 0..campaign.prepare
      BY DEF Holds, HandlersFit
    <3>2. campaign'.prepare = campaign.prepare + 1 /\ campaign.prepare \in Nat
      BY <1>0, <2>1, AllocateStep
    <3>3. /\ campaign.prepare + 1 \in 0..campaign'.prepare
          /\ 0..campaign.prepare \subseteq 0..campaign'.prepare
      BY <3>2
    <3> QED
      BY <2>1, <3>1, <3>3
  <2> QED
    BY <1>0, <2>1, <2>2, <2>3, AllocateStep DEF Beside, Calm, Firm, Holds, HandlersFit
<1>2. CASE EnqueueGeneration
  <2>1. PICK g \in handoff \ {0} : EnqueuePrepare(g) /\ handoff' = handoff \ {g}
    BY <1>2 DEF EnqueueGeneration
  <2>2. g \in 1..campaign.prepare
    BY FieldTypes DEF Holds, HandlersFit
  <2>3. work' = work /\ page' = page /\ orphaned' = orphaned /\ resuming' = resuming
    BY <1>2 DEF EnqueueGeneration
  <2>4. [Step]_vars /\ row' = row /\ reserved' = reserved /\ queue' \in Seq(Jobs)
        /\ campaign'.identity = campaign.identity /\ campaign'.prepare = campaign.prepare
    BY <1>0, <2>1, <2>2, EnqueuePrepareStep DEF Holds, HandlersFit
  <2>5. \A a \in Assignment : Calm(a) /\ Firm(a)
    BY <2>4 DEF Calm, Firm
  <2> QED
    BY <2>1, <2>3, <2>4, <2>5 DEF Beside, Holds, HandlersFit
<1>3. ASSUME NEW a \in Assignment, ResumeChildren(a)
      PROVE  Beside
  <2>1. ResumeVerifiedChildren(a) /\ [Step]_vars /\ campaign' = campaign
    BY <1>3 DEF ResumeChildren, Step, ResumeVerifiedChildren
  <2>2. /\ work' = work /\ page' = page /\ orphaned' = orphaned /\ queue' = queue
        /\ resuming' = resuming \ {a}
        /\ handoff' = handoff \cup {0} \/ handoff' = handoff
    BY <1>3 DEF ResumeChildren, Kick, redis
  <2> QED
    BY <1>0, <2>1, <2>2, ResumeIsCalm, KickType DEF Beside, Holds, HandlersFit
<1>4. CASE HandlerFails \/ LeasesExpire
  <2>1. UNCHANGED vars /\ campaign' = campaign
    BY <1>4 DEF HandlerFails, LeasesExpire, vars
  <2>2. /\ work' = work /\ page' = page /\ queue' = queue /\ orphaned' \in BOOLEAN
        /\ handoff' \subseteq handoff /\ resuming' \subseteq resuming
    BY <1>4 DEF HandlerFails, LeasesExpire, redis, Holds, HandlersFit
  <2> QED
    BY <2>1, <2>2, UnchangedIsCalm, KickType DEF Beside, Holds, HandlersFit
<1> QED
  BY <1>1, <1>2, <1>3, <1>4 DEF Handler

-------------------------------------------------------------------------------
(* Jobs that move on and jobs that end *)

LEMMA JobOnlyFrame ==
  ASSUME Holds, JobOnly
  PROVE  /\ [Step]_vars /\ \A a \in Assignment : Calm(a)
         /\ page' = page /\ HandlersFit'
         /\ row' = row /\ campaign' = campaign
BY UnchangedIsCalm DEF JobOnly, vars, redis, unsent, Holds, HandlersFit

LEMMA JobWritesFrame ==
  ASSUME Holds, [Step]_vars, JobWrites
  PROVE  page' = page /\ HandlersFit'
<1>1. 0..campaign.prepare \subseteq 0..campaign'.prepare
  BY PrepareGrows DEF Holds
<1> QED
  BY <1>1 DEF JobWrites, redis, unsent, Holds, HandlersFit

LEMMA IdleEnds ==
  ASSUME [Step]_vars, work' = Idle, page' = page, HandlersFit'
  PROVE  Ends
BY IdleType DEF Ends

\* A job at another point, where nothing is asked of it.
LEMMA MovedJobFits ==
  ASSUME JobFits, work' \in WorkSet, work'.batch = work.batch,
         work'.pc \notin SubmitPoint, work'.pc \notin {"enqueue", "observe", "rescan"},
         work'.pc \in {"open", "verify", "page", "fail"} => work.batch # {}
  PROVE  JobFits'
BY DEF JobFits, At

\* The identities that a batch invalidates are those of its rows that are not final.
LEMMA InvalidateEnds ==
  ASSUME Holds, NEW affected, Invalidate(affected)
  PROVE  Ends
<1>1. CASE work.ident >= 1 /\ IdentityCAS(work.snap, work.ident) /\ affected \cap Active # {}
  <2>1. InvalidateCampaignIdentity(campaign.revision, campaign.identity, affected)
    BY <1>1 DEF Invalidate, IdentityCAS
  <2>2. \A a \in Active : a \in affected <=> a \in affected \cap Active
    OBVIOUS
  <2>3. InvalidateCampaignIdentity(campaign.revision, campaign.identity, affected \cap Active)
    BY <2>1, <2>2 DEF InvalidateCampaignIdentity
  <2>4. affected \cap Active \in SUBSET Active
    OBVIOUS
  <2>5. [Step]_vars
    BY <2>3, <2>4 DEF InvalidateIdentity, Step
  <2> QED
    BY <2>5, IdleEnds, JobWritesFrame DEF Invalidate
<1>2. CASE ~(work.ident >= 1 /\ IdentityCAS(work.snap, work.ident) /\ affected \cap Active # {})
  BY <1>2, UnchangedIsCalm, IdleEnds, JobWritesFrame DEF Invalidate
<1> QED
  BY <1>1, <1>2

\* A frozen comment starts anew.
LEMMA FreezeIsCalm ==
  ASSUME TypeOK, FreezeIdentities
  PROVE  \A b \in Assignment : Calm(b)
<1> SUFFICES ASSUME NEW b \in Assignment
             PROVE  Calm(b)
  OBVIOUS
<1>1. /\ reserved' = reserved
      /\ \/ row'[b] = row[b]
         \/ row'[b].status \in {"planned", "waiting_dependency"}
  BY DEF FreezeIdentities, FreezeCampaignIdentities
<1> QED
  BY <1>1 DEF Calm, Clicked, Published, PreparingStatus

LEMMA StartPrepareHolds ==
  ASSUME Holds, StartPrepare
  PROVE  Kept
<1> DEFINE j == Head(queue)
<1>1. /\ queue' = Tail(queue) /\ page' = page /\ orphaned' = orphaned
      /\ handoff' = handoff /\ resuming' = resuming
      /\ queue # <<>> /\ j.kind = "prepare"
  BY DEF StartPrepare, unsent
<1>2. j \in PrepareJobs /\ queue' \in Seq(Jobs)
  BY <1>1, NextJob DEF Holds, HandlersFit
<1> HIDE DEF j
<1>3. CASE UNCHANGED <<vars, work>>
  <2>1. UNCHANGED vars /\ work' = work /\ campaign' = campaign
    BY <1>3 DEF vars
  <2>2. Beside
    BY <1>1, <1>2, <2>1, UnchangedIsCalm DEF Beside, Holds, HandlersFit
  <2> QED
    BY <2>2, BesideHolds
<1>4. CASE /\ work' = [Idle EXCEPT !.pc = "preflight", !.job = j, !.ident = j.identity]
           /\ IF campaign.status = "queued"
              THEN TransitionCampaign(campaign.revision, "running") ELSE UNCHANGED vars
  <2>1. work'.pc = "preflight" /\ work'.batch = {} /\ work' \in WorkSet
    BY <1>2, <1>4 DEF Idle, WorkSet, JobPoint, Jobs, PrepareJobs
  <2>2. [Step]_vars /\ 0..campaign.prepare \subseteq 0..campaign'.prepare
    BY <1>4, UnchangedIsCalm, CampaignTurns, PrepareGrows DEF Holds
  <2>3. Ends
    BY <1>1, <1>2, <2>1, <2>2 DEF Ends, Holds, HandlersFit
  <2> QED
    BY <2>3, EndsHolds
<1> QED
  BY <1>3, <1>4 DEF StartPrepare, j

LEMMA PreflightHolds ==
  ASSUME Holds, SkipPreflight \/ BeginPreflight
  PROVE  Kept
<1>1. JobOnly /\ JobFits /\ TypeOK
  BY DEF SkipPreflight, BeginPreflight, Holds
<1>2. CASE SkipPreflight
  <2>1. Goto("plan") /\ "plan" \in JobPoint
    BY <1>2 DEF SkipPreflight, JobPoint
  <2>2. JobFits' /\ work'.pc = "plan" /\ work'.batch = work.batch
    BY <1>1, <2>1, GotoType, MovedJobFits DEF SubmitPoint
  <2>3. MovesOn
    BY <1>1, <2>2, JobOnlyFrame, WorkFields DEF MovesOn, SubmitPoint
  <2> QED
    BY <2>3, MovesOnHolds
<1>3. CASE work' = Idle
  BY <1>1, <1>3, JobOnlyFrame, IdleEnds, EndsHolds
<1>4. CASE work' = [work EXCEPT !.pc = IF Active = {} THEN "frozen" ELSE "observe",
                                !.snap = campaign.revision, !.scan = Active]
  <2>1. /\ work' \in WorkSet /\ work'.batch = work.batch /\ work'.scan = Active
        /\ work'.pc = IF Active = {} THEN "frozen" ELSE "observe"
    BY <1>1, <1>4, FieldTypes DEF JobFits, WorkSet, JobPoint, Active
  <2>2. JobFits'
    BY <1>1, <2>1 DEF JobFits, At, SubmitPoint
  <2>3. MovesOn
    BY <1>1, <2>1, <2>2, JobOnlyFrame, WorkFields DEF MovesOn, SubmitPoint
  <2> QED
    BY <2>3, MovesOnHolds
<1> QED
  BY <1>2, <1>3, <1>4 DEF BeginPreflight

LEMMA ObserveHolds ==
  ASSUME Holds, ObserveIdentities
  PROVE  Kept
<1>0. JobFits /\ TypeOK /\ At("observe")
  BY DEF Holds, ObserveIdentities
<1>1. CASE work' = Idle /\ JobOnly
  BY <1>1, JobOnlyFrame, IdleEnds, EndsHolds
<1>2. ASSUME NEW affected, Invalidate(affected)
      PROVE  Kept
  BY <1>2, InvalidateEnds, EndsHolds
<1>3. ASSUME NEW obs \in [Active -> Account], Active = work.scan,
             FreezeCampaignIdentities(work.snap, work.ident, obs),
             work' = [work EXCEPT !.pc = "frozen", !.ident = work.ident + 1], JobWrites
      PROVE  Kept
  <2>1. FreezeCampaignIdentities(campaign.revision, campaign.identity, obs)
    BY <1>3 DEF FreezeCampaignIdentities, IdentityCAS
  <2>2. FreezeIdentities
    BY <1>0, <1>3, <2>1 DEF FreezeIdentities, JobFits
  <2>3. [Step]_vars
    BY <2>2 DEF Step
  <2>4. work' \in WorkSet /\ work'.batch = work.batch /\ work'.pc = "frozen"
    <3>1. work \in WorkSet /\ work.ident + 1 \in Nat /\ "frozen" \in JobPoint
      BY <1>0, WorkFields DEF JobFits, JobPoint
    <3>2. \A i \in Nat, pc \in JobPoint : [work EXCEPT !.pc = pc, !.ident = i] \in WorkSet
      BY <3>1 DEF WorkSet
    <3>3. \A i, pc : /\ [work EXCEPT !.pc = pc, !.ident = i].batch = work.batch
                     /\ [work EXCEPT !.pc = pc, !.ident = i].pc = pc
      BY <3>1 DEF WorkSet
    <3> QED
      BY <1>3, <3>1, <3>2, <3>3
  <2>5. JobFits'
    BY <1>0, <2>4, MovedJobFits DEF SubmitPoint
  <2>6. MovesOn
    BY <1>0, <1>3, <2>2, <2>3, <2>4, <2>5, FreezeIsCalm, JobWritesFrame, WorkFields
       DEF MovesOn, SubmitPoint
  <2> QED
    BY <2>6, MovesOnHolds
<1> QED
  BY <1>1, <1>2, <1>3 DEF ObserveIdentities

LEMMA PlanBatchHolds ==
  ASSUME Holds, PlanBatch
  PROVE  Kept
<1>0. JobFits /\ TypeOK /\ UNCHANGED vars /\ row' = row /\ campaign' = campaign
  BY DEF Holds, PlanBatch, vars
<1>1. [Step]_vars /\ HandlersFit'
  BY <1>0, UnchangedIsCalm DEF PlanBatch, Holds, HandlersFit, redis, unsent
<1>2. CASE work' = Idle /\ UNCHANGED page
  BY <1>1, <1>2, IdleEnds, EndsHolds
<1>3. ASSUME NEW batch \in Batches({a \in Assignment : Eligible(a)}),
             work' = [work EXCEPT !.pc = "open", !.batch = batch, !.snap = campaign.revision],
             page' = [a \in Assignment |->
                        IF a \in batch THEN [pc |-> "open", seen |-> row[a].revision, pass |-> 1]
                        ELSE Away]
      PROVE  Kept
  <2>1. /\ batch \subseteq Assignment /\ \A a \in batch : Eligible(a)
        /\ batch # {} /\ Cardinality(batch) <= BatchSize
    BY DEF Batches
  <2>2. /\ work' \in WorkSet /\ work'.pc = "open" /\ work'.batch = batch
    BY <1>0, <1>3, <2>1, FieldTypes DEF JobFits, WorkSet, JobPoint
  <2>3. TypeOK' /\ ReplyOnlyUnderVerifiedParent'
    BY <1>1, TypeStays, RepliesStay DEF Holds
  <2>4. JobFits' /\ ClickFits'
    BY <2>1, <2>2 DEF JobFits, At, SubmitPoint, ClickFits
  <2>5. page' \in [Assignment -> PageSet]
    BY <1>0, <1>3, FieldTypes, Bounds DEF Away, PageSet, PagePoint, Outcome
  <2>6. \A a \in batch : PageFits(a)'
    <3> SUFFICES ASSUME NEW a \in batch
                 PROVE  PageFits(a)'
      OBVIOUS
    <3>1. page'[a].pc = "open" /\ page'[a].seen = row[a].revision /\ row[a].revision \in Nat
      BY <1>0, <1>3, <2>1, FieldTypes
    <3>2. Eligible(a) /\ Eligible(a)'
      BY <1>0, <2>1 DEF Eligible, VerifiedParent, PlanBatch, vars
    <3>3. row'[a].status \notin Clicked /\ row'[a].status \notin PreparingStatus
      BY <1>0, <3>2 DEF Eligible, Clicked, Published, PreparingStatus
    <3> QED
      BY <1>0, <3>1, <3>2, <3>3 DEF PageFits
  <2>7. \A a \in batch : page'[a].pc = "open"
    BY <1>3, <2>1
  <2>8. PagesFit'
    BY <2>2, <2>5, <2>6, <2>7 DEF PagesFit, At
  <2> QED
    BY <1>1, <2>3, <2>4, <2>8 DEF Holds, Kept
<1> QED
  BY <1>2, <1>3 DEF PlanBatch

LEMMA OpenHolds ==
  ASSUME Holds, OpenBatch
  PROVE  Kept
<1>0. JobFits /\ At("open") /\ "verify" \in JobPoint
  BY DEF Holds, OpenBatch, JobPoint
<1>1. CASE Goto("verify") /\ JobOnly
  <2>1. work'.pc = "verify" /\ work'.batch = work.batch /\ work' \in WorkSet
    BY <1>0, <1>1, GotoType
  <2>2. JobFits'
    BY <1>0, <2>1, MovedJobFits DEF SubmitPoint, JobFits, At
  <2>3. MovesOn
    BY <1>0, <1>1, <2>1, <2>2, JobOnlyFrame, WorkFields
       DEF MovesOn, SubmitPoint, Holds, PagesFit, At
  <2> QED
    BY <2>3, MovesOnHolds
<1>2. CASE work' = Idle /\ JobOnly
  BY <1>2, JobOnlyFrame, IdleEnds, EndsHolds
<1>3. CASE Invalidate(work.batch)
  BY <1>3, InvalidateEnds, EndsHolds
<1> QED
  BY <1>1, <1>2, <1>3 DEF OpenBatch

LEMMA VerifyHolds ==
  ASSUME Holds, VerifyBatchIdentities
  PROVE  Kept
<1>0. JobFits /\ At("verify") /\ JobOnly
  BY DEF Holds, VerifyBatchIdentities
<1>1. /\ work'.pc \in {"page", "close"} /\ work'.batch = work.batch /\ work' \in WorkSet
  <2>1. work \in WorkSet /\ {"page", "close"} \subseteq JobPoint
    BY <1>0 DEF JobFits, JobPoint
  <2>2. \A pc \in JobPoint, fault \in SUBSET Assignment :
          /\ [work EXCEPT !.pc = pc] \in WorkSet
          /\ [work EXCEPT !.pc = pc, !.fault = fault] \in WorkSet
    BY <2>1 DEF WorkSet
  <2>3. \A pc, fault : /\ [work EXCEPT !.pc = pc].pc = pc
                       /\ [work EXCEPT !.pc = pc].batch = work.batch
                       /\ [work EXCEPT !.pc = pc, !.fault = fault].pc = pc
                       /\ [work EXCEPT !.pc = pc, !.fault = fault].batch = work.batch
    BY <2>1 DEF WorkSet
  <2>4. CASE work' = [work EXCEPT !.pc = IF Current THEN "page" ELSE "close"]
    BY <2>1, <2>2, <2>3, <2>4
  <2>5. ASSUME NEW a \in work.batch, work' = [work EXCEPT !.pc = "close", !.fault = {a}]
        PROVE  work'.pc = "close" /\ work'.batch = work.batch /\ work' \in WorkSet
    BY <1>0, <2>1, <2>2, <2>3, <2>5, WorkFields
  <2> QED
    BY <1>0, <2>4, <2>5 DEF VerifyBatchIdentities
<1>2. JobFits'
  BY <1>0, <1>1, MovedJobFits DEF SubmitPoint, JobFits, At
<1>3. \A a \in work.batch : page[a].pc \in Settled
  BY <1>0 DEF Holds, PagesFit, Settled, At
<1>4. MovesOn
  BY <1>0, <1>1, <1>2, <1>3, JobOnlyFrame, WorkFields DEF MovesOn, SubmitPoint
<1> QED
  BY <1>4, MovesOnHolds

-------------------------------------------------------------------------------
(* Pages *)

LEMMA UpdateRow ==
  ASSUME TypeOK, NEW a \in Assignment, NEW rev, NEW t, UpdateAssignmentStatus(a, rev, t)
  PROVE  /\ row'[a].status = t /\ \A b \in Assignment \ {a} : row'[b] = row[b]
         /\ reserved' = reserved /\ campaign' = campaign
<1>1. row' = [row EXCEPT ![a] = Moved(row[a], t)] /\ reserved' = reserved /\ campaign' = campaign
  BY DEF UpdateAssignmentStatus
<1>2. row'[a] = Moved(row[a], t) /\ \A b \in Assignment \ {a} : row'[b] = row[b]
  BY <1>1 DEF TypeOK
<1> QED
  BY <1>1, <1>2, MovedFields, FieldTypes

\* A page moves to `new`, and its comment stays unclicked.
LEMMA PageMoves ==
  ASSUME Holds, NEW a \in work.batch, work.pc \in {"page", "fail"}, [Step]_vars, PageStep,
         NEW new \in PageSet, page' = [page EXCEPT ![a] = new],
         At("fail") => new.pc \in {"prepared", "error", "reported"},
         \A b \in Assignment \ {a} : Calm(b),
         row'[a].status \notin Clicked, new.pc # "open",
         new.pc \in Settled => row'[a].status \notin PreparingStatus,
         new.pc = "typed" => reserved'[a] = new.seen
  PROVE  Kept
<1>0. work' = work /\ a \in Assignment /\ JobFits
  BY WorkFields DEF PageStep, Holds
<1>1. TypeOK' /\ ReplyOnlyUnderVerifiedParent'
  BY TypeStays, RepliesStay DEF Holds
<1>2. HandlersFit'
  BY PrepareGrows DEF PageStep, redis, unsent, Holds, HandlersFit
<1>3. JobFits' /\ ClickFits'
  BY <1>0 DEF JobFits, At, ClickFits
<1>4. /\ page' \in [Assignment -> PageSet] /\ page'[a] = new
      /\ \A b \in Assignment \ {a} : page'[b] = page[b]
  BY <1>0 DEF Holds, PagesFit
<1>5. PageFits(a)'
  BY <1>4 DEF PageFits
<1>6. \A b \in work.batch : PageFits(b)'
  <2> SUFFICES ASSUME NEW b \in work.batch, b # a
               PROVE  PageFits(b)'
    BY <1>5
  <2> QED
    BY <1>0, <1>4, PageStays, WorkFields DEF Holds, PagesFit
<1>7. PagesFit'
  BY <1>0, <1>4, <1>6 DEF Holds, PagesFit, At
<1> QED
  BY <1>1, <1>2, <1>3, <1>7 DEF Holds, Kept

\* A page that only moves, and one that moves with the revision it read.
LEMMA PageForm ==
  ASSUME PagesFit, NEW a \in Assignment, NEW pc \in PagePoint, Page(a, pc)
  PROVE  \E new \in PageSet : new.pc = pc /\ page' = [page EXCEPT ![a] = new]
<1> DEFINE new == [page[a] EXCEPT !.pc = pc]
<1>1. page \in [Assignment -> PageSet] /\ page[a] \in PageSet
  BY DEF PagesFit
<1>2. new \in PageSet /\ new.pc = pc
  BY <1>1 DEF PageSet
<1>3. page' = [page EXCEPT ![a] = new]
  BY <1>1 DEF Page
<1> QED
  BY <1>2, <1>3

LEMMA PageAtForm ==
  ASSUME PagesFit, NEW a \in Assignment, NEW pc \in PagePoint, NEW rev \in Nat,
         PageAt(a, pc, rev)
  PROVE  \E new \in PageSet : /\ new.pc = pc /\ new.seen = rev
                              /\ page' = [page EXCEPT ![a] = new]
<1> DEFINE new == [page[a] EXCEPT !.pc = pc, !.seen = rev]
<1>1. page \in [Assignment -> PageSet] /\ page[a] \in PageSet
  BY DEF PagesFit
<1>2. new \in PageSet /\ new.pc = pc /\ new.seen = rev
  BY <1>1 DEF PageSet
<1>3. page' = [page EXCEPT ![a] = new]
  BY <1>1 DEF PageAt
<1> QED
  BY <1>2, <1>3

LEMMA PageTurns ==
  ASSUME Holds, NEW a \in Assignment, At("page"), a \in work.batch, [Step]_vars, PageStep,
         \A b \in Assignment \ {a} : Calm(b), row'[a].status \notin Clicked,
         NEW pc \in PagePoint \ {"open"}, NEW rev \in Nat,
         \/ Page(a, pc) /\ pc # "typed"
         \/ PageAt(a, pc, rev) /\ (pc = "typed" => reserved'[a] = rev),
         pc \in Settled => row'[a].status \notin PreparingStatus
  PROVE  Kept
<1>0. PagesFit
  BY DEF Holds
<1>1. CASE Page(a, pc) /\ pc # "typed"
  <2>1. PICK new \in PageSet : new.pc = pc /\ page' = [page EXCEPT ![a] = new]
    BY <1>0, <1>1, PageForm
  <2> QED
    BY <1>1, <2>1, PageMoves DEF At
<1>2. CASE PageAt(a, pc, rev) /\ (pc = "typed" => reserved'[a] = rev)
  <2>1. PICK new \in PageSet : /\ new.pc = pc /\ new.seen = rev
                               /\ page' = [page EXCEPT ![a] = new]
    BY <1>0, <1>2, PageAtForm
  <2> QED
    BY <1>2, <2>1, PageMoves DEF At
<1> QED
  BY <1>1, <1>2

\* The store's part of a move through the page: the row goes to `to`, or stays.
LEMMA MoveOnStep ==
  ASSUME Holds, NEW a \in Assignment, a \in work.batch,
         NEW from, NEW to \in PreparingStatus, MoveOn(a, from, to),
         UpdateAssignmentStatus(a, row[a].revision, to) /\ row[a].status = from => [Step]_vars
  PROVE  /\ [Step]_vars /\ \A b \in Assignment \ {a} : Calm(b)
         /\ row'[a].status \notin Clicked
<1>0. TypeOK /\ row[a].status \notin Clicked
  BY DEF Holds, PagesFit, PageFits
<1>1. CASE row[a].status = from
  <2>1. UpdateAssignmentStatus(a, row[a].revision, to)
    BY <1>1 DEF MoveOn
  <2> QED
    BY <1>0, <1>1, <2>1, UpdateRow DEF Calm, PreparingStatus, Clicked, Published
<1>2. CASE row[a].status # from
  BY <1>0, <1>2, UnchangedIsCalm DEF MoveOn, vars
<1> QED
  BY <1>1, <1>2

LEMMA OpenRowHolds ==
  ASSUME Holds, NEW a \in Assignment, OpenRow(a)
  PROVE  Kept
<1>0. /\ TypeOK /\ At("page") /\ a \in work.batch /\ page[a].pc = "open" /\ PageFits(a)
      /\ PageStep
  BY DEF OpenRow, Working, Holds, PagesFit
<1>1. CASE row[a].revision = page[a].seen
  <2>1. UpdateAssignmentStatus(a, row[a].revision, "opening_profile") /\ Page(a, "enter")
    BY <1>1 DEF OpenRow
  <2>2. OpenProfile(a)
    BY <1>0, <1>1, <2>1 DEF PageFits, OpenProfile
  <2>3. [Step]_vars
    BY <2>2 DEF Step
  <2>4. (\A b \in Assignment \ {a} : Calm(b)) /\ row'[a].status \notin Clicked
    BY <1>0, <2>1, UpdateRow DEF Calm, Clicked, Published
  <2>5. "enter" \in PagePoint \ {"open"} /\ "enter" # "typed" /\ "enter" \notin Settled /\ 0 \in Nat
    BY DEF PagePoint, Settled
  <2> QED
    BY <1>0, <2>1, <2>3, <2>4, <2>5, PageTurns
<1>2. CASE row[a].revision # page[a].seen
  <2>1. UNCHANGED vars /\ row' = row /\ Page(a, "error")
    BY <1>2 DEF OpenRow, vars
  <2>2. "error" \in PagePoint \ {"open"} /\ "error" # "typed" /\ "error" \notin Settled /\ 0 \in Nat
    BY DEF PagePoint, Outcome, Settled
  <2> QED
    BY <1>0, <2>1, <2>2, UnchangedIsCalm, PageTurns DEF PageFits
<1> QED
  BY <1>1, <1>2

LEMMA EnterPageHolds ==
  ASSUME Holds, NEW a \in Assignment, EnterPage(a)
  PROVE  Kept
<1>1. /\ At("page") /\ a \in work.batch /\ PageStep
      /\ MoveOn(a, "opening_profile", "locating_video") /\ Page(a, "panel")
  BY DEF EnterPage, Working
<1>2. UpdateAssignmentStatus(a, row[a].revision, "locating_video") => [Step]_vars
  BY DEF LocateVideo, Step
<1>3. /\ [Step]_vars /\ \A b \in Assignment \ {a} : Calm(b)
      /\ row'[a].status \notin Clicked
  BY <1>1, <1>2, MoveOnStep DEF PreparingStatus
<1>4. "panel" \in PagePoint \ {"open"} /\ "panel" # "typed" /\ "panel" \notin Settled /\ 0 \in Nat
  BY DEF PagePoint, Settled
<1> QED
  BY <1>1, <1>3, <1>4, PageTurns

LEMMA LeavePanelHolds ==
  ASSUME Holds, NEW a \in Assignment, LeavePanel(a)
  PROVE  Kept
<1>0. At("page") /\ a \in work.batch /\ PageStep /\ row[a].revision \in Nat /\ 0 \in Nat
  BY FieldTypes DEF LeavePanel, Working, Holds
<1>1. CASE Parent[a] = NoParent
  <2>1. /\ MoveOn(a, "locating_video", "preparing_comment")
        /\ PageAt(a, "input", row[a].revision)
    BY <1>1 DEF LeavePanel
  <2>2. UpdateAssignmentStatus(a, row[a].revision, "preparing_comment") => [Step]_vars
    BY <1>1 DEF PrepareComment, Step
  <2>3. /\ [Step]_vars /\ \A b \in Assignment \ {a} : Calm(b)
        /\ row'[a].status \notin Clicked
    BY <1>0, <2>1, <2>2, MoveOnStep DEF PreparingStatus
  <2>4. "input" \in PagePoint \ {"open"} /\ "input" # "typed" /\ "input" \notin Settled
    BY DEF PagePoint, Settled
  <2> QED
    BY <1>0, <2>1, <2>3, <2>4, PageTurns
<1>2. CASE Parent[a] # NoParent
  <2>1. MoveOn(a, "locating_video", "locating_parent") /\ Page(a, "parent")
    BY <1>2 DEF LeavePanel
  <2>2. UpdateAssignmentStatus(a, row[a].revision, "locating_parent") => [Step]_vars
    BY <1>2 DEF LocateParent, Step
  <2>3. /\ [Step]_vars /\ \A b \in Assignment \ {a} : Calm(b)
        /\ row'[a].status \notin Clicked
    BY <1>0, <2>1, <2>2, MoveOnStep DEF PreparingStatus
  <2>4. "parent" \in PagePoint \ {"open"} /\ "parent" # "typed" /\ "parent" \notin Settled
    BY DEF PagePoint, Settled
  <2> QED
    BY <1>0, <2>1, <2>3, <2>4, PageTurns
<1> QED
  BY <1>1, <1>2

LEMMA LocateParentHolds ==
  ASSUME Holds, NEW a \in Assignment, LocateParentComment(a)
  PROVE  Kept
<1>0. /\ At("page") /\ a \in work.batch /\ PageStep /\ row[a].revision \in Nat /\ 0 \in Nat
      /\ PageFits(a)
  BY FieldTypes DEF LocateParentComment, Working, Holds, PagesFit
<1>1. CASE VerifiedParent(a)
  <2>1. /\ MoveOn(a, "locating_parent", "preparing_comment")
        /\ PageAt(a, "input", row[a].revision)
    BY <1>1 DEF LocateParentComment
  <2>2. UpdateAssignmentStatus(a, row[a].revision, "preparing_comment")
        /\ row[a].status = "locating_parent" => [Step]_vars
    BY <1>1 DEF PrepareComment, Step
  <2>3. /\ [Step]_vars /\ \A b \in Assignment \ {a} : Calm(b)
        /\ row'[a].status \notin Clicked
    BY <1>0, <2>1, <2>2, MoveOnStep DEF PreparingStatus
  <2>4. "input" \in PagePoint \ {"open"} /\ "input" # "typed" /\ "input" \notin Settled
    BY DEF PagePoint, Settled
  <2> QED
    BY <1>0, <2>1, <2>3, <2>4, PageTurns
<1>2. CASE ~VerifiedParent(a)
  <2>1. UNCHANGED vars /\ row' = row /\ Page(a, "error")
    BY <1>2 DEF LocateParentComment, vars
  <2>2. "error" \in PagePoint \ {"open"} /\ "error" # "typed" /\ "error" \notin Settled
    BY DEF PagePoint, Outcome, Settled
  <2> QED
    BY <1>0, <2>1, <2>2, UnchangedIsCalm, PageTurns DEF PageFits
<1> QED
  BY <1>1, <1>2

LEMMA ReserveHolds ==
  ASSUME Holds, NEW a \in Assignment, ReserveAndType(a)
  PROVE  Kept
<1>0. /\ TypeOK /\ At("page") /\ a \in work.batch /\ PageStep /\ PageFits(a)
      /\ page[a].seen \in Nat /\ page[a].seen + 1 \in Nat
  <2>1. PagesFit
    BY DEF Holds
  <2>2. page[a].seen \in Nat
    BY <2>1 DEF PagesFit, PageSet
  <2> QED
    BY <2>1, <2>2 DEF ReserveAndType, Working, Holds, PagesFit
<1>1. CASE CanReserve(a)
  <2>1. /\ BeginCommentInput(a, page[a].seen, work.ident)
        /\ PageAt(a, "typed", page[a].seen + 1)
    BY <1>1 DEF ReserveAndType
  <2>2. ReserveInput(a)
    BY <2>1 DEF BeginCommentInput, IdentityCurrent, ReserveInput
  <2>3. [Step]_vars
    BY <2>2 DEF Step
  <2>4. /\ row' = [row EXCEPT ![a] = Bumped(row[a])] /\ row[a].status = "preparing_comment"
        /\ reserved' = [reserved EXCEPT ![a] = page[a].seen + 1]
    BY <2>1 DEF BeginCommentInput
  <2>5. /\ row'[a] = Bumped(row[a]) /\ \A b \in Assignment \ {a} : row'[b] = row[b]
        /\ reserved'[a] = page[a].seen + 1
        /\ \A b \in Assignment \ {a} : reserved'[b] = reserved[b]
    BY <1>0, <2>4 DEF TypeOK
  <2>6. row'[a].status = "preparing_comment"
    BY <1>0, <2>4, <2>5, MovedFields, FieldTypes
  <2>7. (\A b \in Assignment \ {a} : Calm(b)) /\ row'[a].status \notin Clicked
    BY <2>5, <2>6 DEF Calm, Clicked, Published
  <2>8. "typed" \in PagePoint \ {"open"} /\ "typed" \notin Settled
    BY DEF PagePoint, Settled
  <2> QED
    BY <1>0, <2>1, <2>3, <2>5, <2>7, <2>8, PageTurns
<1>2. CASE ~CanReserve(a)
  <2>1. UNCHANGED vars /\ row' = row /\ Page(a, "stopped")
    BY <1>2 DEF ReserveAndType, vars
  <2>2. "stopped" \in PagePoint \ {"open"} /\ "stopped" # "typed" /\ "stopped" \notin Settled
    BY DEF PagePoint, Outcome, Settled
  <2> QED
    BY <1>0, <2>1, <2>2, UnchangedIsCalm, PageTurns DEF PageFits
<1> QED
  BY <1>1, <1>2

LEMMA RetryHolds ==
  ASSUME Holds, NEW a \in Assignment, RetryPage(a)
  PROVE  Kept
<1>0. /\ At("page") /\ a \in work.batch /\ PageStep /\ PageFits(a) /\ page[a] \in PageSet
      /\ page[a].pass < Retries /\ UNCHANGED vars /\ row' = row
  BY DEF RetryPage, Working, Holds, PagesFit, vars
<1> DEFINE new == [page[a] EXCEPT !.pc = "enter", !.pass = page[a].pass + 1]
<1>1. page' = [page EXCEPT ![a] = new]
  <2>1. page \in [Assignment -> PageSet]
    BY DEF Holds, PagesFit
  <2> QED
    BY <2>1 DEF RetryPage
<1>2. new \in PageSet /\ new.pc = "enter"
  <2>1. page[a].pass + 1 \in 0..Retries /\ "enter" \in PagePoint
    BY <1>0, Bounds DEF PageSet, PagePoint
  <2> QED
    BY <1>0, <2>1 DEF PageSet
<1> HIDE DEF new
<1>3. "enter" # "typed" /\ "enter" # "open" /\ "enter" \notin Settled
  BY DEF Settled
<1> QED
  BY <1>0, <1>1, <1>2, <1>3, UnchangedIsCalm, PageMoves DEF PageFits, At

LEMMA GiveUpHolds ==
  ASSUME Holds, NEW a \in Assignment, GiveUpPage(a)
  PROVE  Kept
<1>0. /\ At("page") /\ a \in work.batch /\ PageStep /\ PageFits(a)
      /\ UNCHANGED vars /\ row' = row /\ 0 \in Nat
  BY DEF GiveUpPage, Working, Holds, PagesFit, vars
<1>1. PICK outcome \in {"runtime", "error"} : Page(a, outcome)
  BY DEF GiveUpPage
<1>2. outcome \in PagePoint \ {"open"} /\ outcome # "typed" /\ outcome \notin Settled
  BY DEF PagePoint, Outcome, Settled
<1> QED
  BY <1>0, <1>1, <1>2, UnchangedIsCalm, PageTurns DEF PageFits

LEMMA OfferHolds ==
  ASSUME Holds, NEW a \in Assignment, OfferForApproval(a)
  PROVE  Kept
<1>0. /\ TypeOK /\ At("page") /\ a \in work.batch /\ PageStep /\ PageFits(a)
      /\ page[a].pc = "typed" /\ 0 \in Nat
  BY DEF OfferForApproval, Working, Holds, PagesFit
<1>1. CASE campaign.status = "running" /\ row[a].revision = page[a].seen
  <2>1. /\ UpdateAssignmentStatus(a, row[a].revision, "awaiting_step_approval")
        /\ Page(a, "prepared")
    BY <1>1 DEF OfferForApproval
  <2>2. AwaitStepApproval(a)
    BY <1>0, <1>1, <2>1 DEF PageFits, AwaitStepApproval
  <2>3. [Step]_vars
    BY <2>2 DEF Step
  <2>4. /\ \A b \in Assignment \ {a} : Calm(b)
        /\ row'[a].status \notin Clicked /\ row'[a].status \notin PreparingStatus
    BY <1>0, <2>1, UpdateRow DEF Calm, Clicked, Published, PreparingStatus
  <2>5. "prepared" \in PagePoint \ {"open"} /\ "prepared" # "typed"
    BY DEF PagePoint, Outcome
  <2> QED
    BY <1>0, <2>1, <2>3, <2>4, <2>5, PageTurns
<1>2. CASE ~(campaign.status = "running" /\ row[a].revision = page[a].seen)
  <2>1. UNCHANGED vars /\ row' = row /\ Page(a, "error")
    BY <1>2 DEF OfferForApproval, vars
  <2>2. "error" \in PagePoint \ {"open"} /\ "error" # "typed" /\ "error" \notin Settled
    BY DEF PagePoint, Outcome, Settled
  <2> QED
    BY <1>0, <2>1, <2>2, UnchangedIsCalm, PageTurns DEF PageFits
<1> QED
  BY <1>1, <1>2

LEMMA PrepareOneHolds ==
  ASSUME Holds, NEW a \in Assignment, PrepareOne(a)
  PROVE  Kept
BY OpenRowHolds, EnterPageHolds, LeavePanelHolds, LocateParentHolds, ReserveHolds, RetryHolds,
   GiveUpHolds, OfferHolds DEF PrepareOne

-------------------------------------------------------------------------------
(* The end of a batch *)

LEMMA GatherHolds ==
  ASSUME Holds, GatherOutcomes
  PROVE  Kept
<1>0. /\ JobFits /\ At("page") /\ JobOnly /\ work.batch # {}
      /\ \A a \in work.batch : page[a].pc \in Outcome
  BY DEF Holds, GatherOutcomes, JobFits, At
<1>1. /\ work' \in WorkSet /\ work'.batch = work.batch
      /\ \/ work'.pc = "close" /\ (Some("stopped") \/ work'.fault = work.batch)
         \/ work'.pc = "fail" /\ ~Some("stopped") /\ ~Some("runtime")
  <2>1. /\ work \in WorkSet /\ "close" \in JobPoint /\ "fail" \in JobPoint
        /\ work.batch \in SUBSET Assignment
    BY <1>0, WorkFields DEF JobFits, JobPoint
  <2>2. \A pc \in JobPoint, fault \in SUBSET Assignment :
          /\ [work EXCEPT !.pc = pc] \in WorkSet
          /\ [work EXCEPT !.pc = pc, !.fault = fault] \in WorkSet
    BY <2>1 DEF WorkSet
  <2>3. \A pc, fault : /\ [work EXCEPT !.pc = pc].pc = pc
                       /\ [work EXCEPT !.pc = pc].batch = work.batch
                       /\ [work EXCEPT !.pc = pc, !.fault = fault].pc = pc
                       /\ [work EXCEPT !.pc = pc, !.fault = fault].batch = work.batch
                       /\ [work EXCEPT !.pc = pc, !.fault = fault].fault = fault
    BY <2>1 DEF WorkSet
  <2>4. CASE Some("stopped")
    <3>1. work' = [work EXCEPT !.pc = "close"]
      BY <2>4 DEF GatherOutcomes
    <3>2. work' \in WorkSet /\ work'.batch = work.batch /\ work'.pc = "close"
      BY <2>1, <2>2, <2>3, <3>1
    <3> QED
      BY <2>4, <3>2
  <2>5. CASE ~Some("stopped") /\ Some("runtime")
    <3>1. work' = [work EXCEPT !.pc = "close", !.fault = work.batch]
      BY <2>5 DEF GatherOutcomes
    <3>2. /\ work' \in WorkSet /\ work'.batch = work.batch /\ work'.pc = "close"
          /\ work'.fault = work.batch
      BY <2>1, <3>1 DEF WorkSet
    <3> QED
      BY <3>2
  <2>6. CASE ~Some("stopped") /\ ~Some("runtime")
    <3>1. work' = [work EXCEPT !.pc = "fail"]
      BY <2>6 DEF GatherOutcomes
    <3> QED
      BY <2>1, <2>2, <2>3, <2>6, <3>1
  <2> QED
    BY <2>4, <2>5, <2>6
<1>2. JobFits'
  BY <1>0, <1>1, MovedJobFits DEF SubmitPoint
<1>3. work'.pc = "fail" => \A a \in work.batch : page[a].pc \in {"prepared", "error", "reported"}
  BY <1>0, <1>1 DEF Outcome, Some
<1>4. MovesOn
  BY <1>0, <1>1, <1>2, <1>3, JobOnlyFrame, WorkFields DEF MovesOn, SubmitPoint
<1> QED
  BY <1>4, MovesOnHolds

LEMMA FailPrepareHolds ==
  ASSUME Holds, NEW a \in Assignment, FailPrepare(a)
  PROVE  Kept
<1> DEFINE target == IF campaign.status = "paused" THEN "paused" ELSE "failed"
<1>0. /\ TypeOK /\ PagesFit /\ At("fail") /\ a \in work.batch /\ PageFits(a)
      /\ "reported" \in PagePoint /\ target \in {"failed", "paused"}
      /\ UNCHANGED <<redis, orphaned, clicks, unsent>>
  BY DEF FailPrepare, Holds, PagesFit, PagePoint, Outcome
<1>1. CASE work' = Idle /\ UNCHANGED <<vars, page>>
  <2>1. HandlersFit'
    BY <1>0, <1>1 DEF Holds, HandlersFit, redis, unsent, vars
  <2> QED
    BY <1>1, <2>1, UnchangedIsCalm, IdleEnds, EndsHolds
<1>2. CASE row[a].status \in {"failed", "paused"} /\ UNCHANGED <<vars, work>> /\ Page(a, "reported")
  <2>1. PageStep /\ UNCHANGED vars /\ row' = row
    BY <1>0, <1>2 DEF PageStep, vars
  <2>2. PICK new \in PageSet : new.pc = "reported" /\ page' = [page EXCEPT ![a] = new]
    BY <1>0, <1>2, PageForm
  <2>3. row'[a].status \notin Clicked /\ row'[a].status \notin PreparingStatus
    BY <1>2, <2>1 DEF Clicked, Published, PreparingStatus
  <2> QED
    BY <1>0, <2>1, <2>2, <2>3, UnchangedIsCalm, PageMoves DEF At
<1>3. CASE /\ FailAssignmentAndPauseDescendants(a, row[a].revision, target)
           /\ Page(a, "reported") /\ UNCHANGED work
  <2>1. PageStep
    BY <1>0, <1>3 DEF PageStep
  <2>2. PICK new \in PageSet : new.pc = "reported" /\ page' = [page EXCEPT ![a] = new]
    BY <1>0, <1>3, PageForm
  <2>3. /\ row'[a].status \notin Clicked /\ row'[a].status \notin PreparingStatus
        /\ \A b \in Assignment : Calm(b)
    BY <1>0, <1>3, FailIsCalm DEF Clicked, Published, PreparingStatus
  <2>4. [Step]_vars
    <3>1. CASE target = "paused"
      <4>1. Reject(a)
        BY <1>3, <3>1 DEF Reject, RejectSubmitAndPauseDescendants
      <4> QED
        BY <4>1 DEF Step
    <3>2. CASE target = "failed"
      <4>1. AssignmentMove(row[a].status, "failed")
        BY <1>3, <3>2 DEF FailAssignmentAndPauseDescendants
      <4>2. row[a].status \in PreparingStatus
        BY <1>0, <4>1, FieldTypes
           DEF AssignmentMove, AssignmentTransitions, AssignmentStatus, PreparingStatus
      <4>3. FailPreparation(a)
        BY <1>3, <3>2, <4>2 DEF FailPreparation
      <4> QED
        BY <4>3 DEF Step
    <3> QED
      BY <1>0, <3>1, <3>2
  <2> QED
    BY <1>0, <2>1, <2>2, <2>3, <2>4, PageMoves DEF At
<1> QED
  BY <1>1, <1>2, <1>3 DEF FailPrepare

LEMMA CloseHolds ==
  ASSUME Holds, FailuresReported \/ CloseBatch
  PROVE  Kept
<1>0. JobFits /\ "close" \in JobPoint /\ "kick" \in JobPoint
  BY DEF Holds, JobPoint
<1>1. CASE FailuresReported
  <2>1. At("fail") /\ ~Some("error") /\ Goto("close") /\ JobOnly
    BY <1>1 DEF FailuresReported
  <2>2. work' \in WorkSet /\ work'.pc = "close" /\ work'.batch = work.batch
    BY <1>0, <2>1, GotoType
  <2>3. JobFits'
    BY <1>0, <2>2, MovedJobFits DEF SubmitPoint
  <2>4. \A a \in work.batch : page[a].pc \in Settled
    BY <2>1 DEF Holds, PagesFit, Some, Settled
  <2>5. MovesOn
    BY <1>0, <2>1, <2>2, <2>3, <2>4, JobOnlyFrame, WorkFields DEF MovesOn, SubmitPoint
  <2> QED
    BY <2>5, MovesOnHolds
<1>2. CASE At("close") /\ work.fault = {} /\ Goto("kick") /\ JobOnly
  <2>2. work' \in WorkSet /\ work'.pc = "kick" /\ work'.batch = work.batch /\ work'.fault = {}
    BY <1>0, <1>2, GotoType
  <2>3. JobFits'
    BY <1>0, <2>2, MovedJobFits DEF SubmitPoint
  <2>4. ~Some("stopped") => \A a \in work.batch : page[a].pc \in Settled
    BY <1>2 DEF Holds, PagesFit, At
  <2>5. MovesOn
    BY <1>0, <1>2, <2>2, <2>3, <2>4, JobOnlyFrame, WorkFields DEF MovesOn, SubmitPoint
  <2> QED
    BY <2>5, MovesOnHolds
<1>3. CASE Invalidate(work.fault) \/ Invalidate(work.batch)
  BY <1>3, InvalidateEnds, EndsHolds
<1> QED
  BY <1>1, <1>2, <1>3 DEF CloseBatch

LEMMA KickHolds ==
  ASSUME Holds, KickNextBatch
  PROVE  Kept
<1>0. JobFits /\ TypeOK /\ At("kick") /\ NextPrepareGeneration /\ JobWrites
  BY DEF Holds, KickNextBatch
<1>1. /\ [Step]_vars /\ row' = row /\ reserved' = reserved
      /\ campaign.prepare \in Nat /\ campaign'.prepare = campaign.prepare + 1
  BY <1>0, AllocateStep
<1>2. work' = [work EXCEPT !.pc = "enqueue", !.next = campaign.prepare + 1]
  BY DEF KickNextBatch
<1>3. /\ work' \in WorkSet /\ work'.pc = "enqueue" /\ work'.batch = work.batch
      /\ work'.next = campaign.prepare + 1
  <2>1. work \in WorkSet /\ "enqueue" \in JobPoint /\ campaign.prepare + 1 \in Nat
    BY <1>0, <1>1 DEF JobFits, JobPoint
  <2> QED
    BY <1>2, <2>1 DEF WorkSet
<1>4. JobFits'
  <2>1. campaign.prepare + 1 \in 1..campaign'.prepare
    BY <1>1
  <2> QED
    BY <1>0, <1>3, <2>1 DEF JobFits, At, SubmitPoint
<1>5. \A a \in Assignment : Calm(a)
  BY <1>1 DEF Calm
<1>6. MovesOn
  BY <1>0, <1>1, <1>3, <1>4, <1>5, JobWritesFrame, WorkFields DEF MovesOn, SubmitPoint
<1> QED
  BY <1>6, MovesOnHolds

\* A generation that is handed on by the worker.
LEMMA HandOnEnds ==
  ASSUME Holds, NEW g \in 1..campaign.prepare, EnqueuePrepare(g), work' = Idle,
         UNCHANGED <<page, orphaned, clicks, unsent>>
  PROVE  Kept
<1>1. [Step]_vars /\ queue' \in Seq(Jobs) /\ campaign'.prepare = campaign.prepare
  BY EnqueuePrepareStep DEF Holds, HandlersFit
<1>2. HandlersFit'
  BY <1>1 DEF Holds, HandlersFit, unsent
<1> QED
  BY <1>1, <1>2, IdleEnds, EndsHolds

LEMMA EnqueueHolds ==
  ASSUME Holds, EnqueueNextBatch
  PROVE  Kept
BY HandOnEnds DEF EnqueueNextBatch, Holds, JobFits

LEMMA PrepareHolds ==
  ASSUME Holds, Prepare
  PROVE  Kept
BY StartPrepareHolds, PreflightHolds, ObserveHolds, PlanBatchHolds, OpenHolds, VerifyHolds,
   PrepareOneHolds, FailPrepareHolds, GatherHolds, CloseHolds, KickHolds, EnqueueHolds
   DEF Prepare

-------------------------------------------------------------------------------
(* A submission *)

SubmitsOn ==
  /\ [Step]_vars /\ page' = page /\ HandlersFit' /\ ClickFits'
  /\ work' \in WorkSet /\ work'.pc \in SubmitPoint
  /\ work'.job \in SubmitJobs /\ work'.batch = {}

LEMMA SubmitsOnHolds ==
  ASSUME Holds, SubmitsOn
  PROVE  Kept
<1>1. TypeOK' /\ ReplyOnlyUnderVerifiedParent'
  BY TypeStays, RepliesStay DEF Holds, SubmitsOn
<1>2. JobFits'
  BY FS_EmptySet, Bounds DEF SubmitsOn, JobFits, At, SubmitPoint
<1>3. PagesFit'
  BY DEF Holds, SubmitsOn, PagesFit, At, SubmitPoint
<1> QED
  BY <1>1, <1>2, <1>3 DEF Holds, SubmitsOn, Kept

\* A submission that goes on to a point where nothing is said of its row.
LEMMA SubmitGoto ==
  ASSUME Holds, work.pc \in SubmitPoint, [Step]_vars, page' = page, HandlersFit',
         NEW pc \in SubmitPoint \ {"click", "clicked", "receipt"}, Goto(pc)
  PROVE  Kept
<1>1. JobFits /\ pc \in JobPoint
  BY DEF Holds, SubmitPoint, JobPoint
<1>2. /\ work' \in WorkSet /\ work'.pc = pc /\ work'.job \in SubmitJobs /\ work'.batch = {}
  BY <1>1, GotoType DEF JobFits
<1>3. SubmitsOn
  BY <1>2 DEF SubmitsOn, ClickFits, At
<1> QED
  BY <1>3, SubmitsOnHolds

LEMMA JobOnlyEnds ==
  ASSUME Holds, JobOnly, work' = Idle
  PROVE  Kept
BY JobOnlyFrame, IdleEnds, EndsHolds

LEMMA StartSubmitHolds ==
  ASSUME Holds, StartSubmit
  PROVE  Kept
<1> DEFINE j == Head(queue)
<1>1. /\ queue' = Tail(queue) /\ page' = page /\ orphaned' = orphaned
      /\ handoff' = handoff /\ resuming' = resuming /\ UNCHANGED vars
      /\ queue # <<>> /\ j.kind = "submit"
  BY DEF StartSubmit, unsent, vars
<1>2. j \in SubmitJobs /\ queue' \in Seq(Jobs)
  BY <1>1, NextJob DEF Holds, HandlersFit
<1> HIDE DEF j
<1>3. campaign' = campaign /\ HandlersFit'
  BY <1>1, <1>2 DEF Holds, HandlersFit, vars
<1>4. CASE UNCHANGED work
  <2>1. Beside
    BY <1>1, <1>3, <1>4, UnchangedIsCalm DEF Beside
  <2> QED
    BY <2>1, BesideHolds
<1>5. CASE work' = [Idle EXCEPT !.pc = "profile", !.job = j,
                                !.ident = campaign.identity, !.snap = campaign.revision]
  <2>1. campaign.identity \in Nat /\ campaign.revision \in Nat
    BY FieldTypes DEF Holds
  <2>2. /\ work'.pc = "profile" /\ work'.job = j /\ work'.batch = {} /\ work' \in WorkSet
    BY <1>2, <1>5, <2>1 DEF Idle, WorkSet, JobPoint, Jobs
  <2>3. SubmitsOn
    BY <1>1, <1>2, <1>3, <2>2, UnchangedIsCalm DEF SubmitsOn, SubmitPoint, ClickFits, At
  <2> QED
    BY <2>3, SubmitsOnHolds
<1> QED
  BY <1>4, <1>5 DEF StartSubmit, j

LEMMA RaiseHolds ==
  ASSUME Holds, work.pc \in SubmitPoint, RaiseBeforeClick
  PROVE  Kept
<1>1. work' = Idle /\ JobWrites
  BY DEF RaiseBeforeClick
<1>2. [Step]_vars
  <2>1. CASE Approved(work.job)
    <3>1. InvalidateSubmitApproval(Target, row[Target].revision)
      BY <2>1 DEF RaiseBeforeClick, Approved, Target
    <3>2. Disapprove(Target) /\ Target \in Assignment
      BY <3>1, WorkFields DEF Disapprove, Holds
    <3> QED
      BY <3>2 DEF Step
  <2>2. CASE ~Approved(work.job)
    BY <2>2 DEF RaiseBeforeClick
  <2> QED
    BY <2>1, <2>2
<1> QED
  BY <1>1, <1>2, JobWritesFrame, IdleEnds, EndsHolds

LEMMA OpenProfileToSubmitHolds ==
  ASSUME Holds, OpenProfileToSubmit
  PROVE  Kept
<1>0. work.pc \in SubmitPoint
  BY DEF OpenProfileToSubmit, At, SubmitPoint
<1>1. CASE Goto("screen") /\ JobOnly
  BY <1>0, <1>1, JobOnlyFrame, SubmitGoto DEF SubmitPoint
<1>2. CASE RaiseBeforeClick
  BY <1>0, <1>2, RaiseHolds
<1>3. CASE Invalidate({Target})
  BY <1>3, InvalidateEnds, EndsHolds
<1>4. CASE work' = Idle /\ JobOnly
  BY <1>4, JobOnlyEnds
<1> QED
  BY <1>1, <1>2, <1>3, <1>4 DEF OpenProfileToSubmit

LEMMA ReadScreenHolds ==
  ASSUME Holds, ReadScreen
  PROVE  Kept
<1>0. work.pc \in SubmitPoint /\ JobFits
  BY DEF ReadScreen, At, SubmitPoint, Holds
<1>1. CASE JobOnly /\ (Goto("commit") \/ Goto("release"))
  BY <1>0, <1>1, JobOnlyFrame, SubmitGoto DEF SubmitPoint
<1>2. CASE RaiseBeforeClick
  BY <1>0, <1>2, RaiseHolds
<1>3. CASE work' = [work EXCEPT !.pc = "release", !.fault = {Target}] /\ JobOnly
  <2>1. /\ work \in WorkSet /\ "release" \in JobPoint /\ {Target} \in SUBSET Assignment
        /\ work.job \in SubmitJobs /\ work.batch = {}
    BY <1>0, WorkFields DEF JobFits, JobPoint
  <2>2. /\ work' \in WorkSet /\ work'.pc = "release"
        /\ work'.job \in SubmitJobs /\ work'.batch = {}
    BY <1>3, <2>1 DEF WorkSet
  <2>3. SubmitsOn
    BY <1>3, <2>2, JobOnlyFrame DEF SubmitsOn, SubmitPoint, ClickFits, At
  <2> QED
    BY <2>3, SubmitsOnHolds
<1> QED
  BY <1>1, <1>2, <1>3 DEF ReadScreen

LEMMA CommitHolds ==
  ASSUME Holds, CommitSubmit
  PROVE  Kept
<1>0. /\ work.pc \in SubmitPoint /\ JobFits /\ TypeOK
      /\ Target \in Assignment /\ work.job.revision \in Nat
  BY WorkFields DEF CommitSubmit, At, SubmitPoint, Holds
<1>1. CASE ~CanSubmit /\ Goto("release") /\ JobOnly
  BY <1>0, <1>1, JobOnlyFrame, SubmitGoto DEF SubmitPoint
<1>2. CASE /\ BeginSubmitting(Target, work.job.revision, work.ident)
           /\ Goto("click") /\ JobWrites
  <2>1. /\ Submit(Target)
        /\ row' = [row EXCEPT ![Target] = Moved(row[Target], "submitting")]
        /\ campaign' = campaign /\ Bound(Target) /\ campaign.identity = work.ident
        /\ row[Target].revision = work.job.revision
    BY <1>2 DEF BeginSubmitting, IdentityCurrent, Submit
  <2>2. [Step]_vars
    BY <1>0, <2>1 DEF Step
  <2>3. /\ row'[Target].status = "submitting" /\ row'[Target].identity = row[Target].identity
        /\ row'[Target].revision = work.job.revision + 1
        /\ row'[Target].preflight = row[Target].preflight
    <3>1. row'[Target] = Moved(row[Target], "submitting")
      BY <1>0, <2>1 DEF TypeOK
    <3> QED
      BY <1>0, <2>1, <3>1, MovedFields, FieldTypes
  <2>4. /\ work' \in WorkSet /\ work'.pc = "click" /\ work'.job = work.job
        /\ work'.ident = work.ident /\ work'.batch = {} /\ work'.job \in SubmitJobs
    <3>1. "click" \in JobPoint
      BY DEF JobPoint
    <3> QED
      BY <1>0, <1>2, <3>1, GotoType DEF JobFits
  <2>5. Target' = Target
    BY <2>4 DEF Target
  <2>6. Bound(Target)' /\ row'[Target].identity = work'.ident
    BY <2>1, <2>3, <2>4, <2>5 DEF Bound
  <2>7. ClickFits'
    BY <2>3, <2>4, <2>5, <2>6 DEF ClickFits, At
  <2>8. SubmitsOn
    BY <1>2, <2>2, <2>4, <2>7, JobWritesFrame DEF SubmitsOn, SubmitPoint
  <2> QED
    BY <2>8, SubmitsOnHolds
<1> QED
  BY <1>1, <1>2 DEF CommitSubmit

LEMMA ClickHolds ==
  ASSUME Holds, Click
  PROVE  Kept
<1>0. /\ JobFits /\ At("click") /\ "clicked" \in JobPoint /\ Goto("clicked")
      /\ UNCHANGED vars /\ row' = row /\ page' = page
  BY DEF Click, Holds, JobPoint, vars
<1>1. /\ work' \in WorkSet /\ work'.pc = "clicked" /\ work'.job = work.job
      /\ work'.batch = {} /\ work'.job \in SubmitJobs
  BY <1>0, GotoType DEF JobFits, At, SubmitPoint
<1>2. Target' = Target
  BY <1>1 DEF Target
<1>3. ClickFits'
  BY <1>0, <1>1, <1>2 DEF Holds, ClickFits, At
<1>4. HandlersFit'
  BY DEF Click, Holds, HandlersFit, redis, unsent, vars
<1>5. SubmitsOn
  BY <1>0, <1>1, <1>3, <1>4, UnchangedIsCalm DEF SubmitsOn, SubmitPoint
<1> QED
  BY <1>5, SubmitsOnHolds

LEMMA VerifyClickHolds ==
  ASSUME Holds, VerifyClick
  PROVE  Kept
<1>0. /\ JobFits /\ TypeOK /\ At("clicked") /\ "receipt" \in JobPoint /\ Goto("receipt")
      /\ Target \in Assignment /\ JobWrites
  BY WorkFields DEF VerifyClick, Holds, JobPoint, At, SubmitPoint
<1>1. UpdateAssignmentStatus(Target, row[Target].revision, "verifying_receipt")
  BY <1>0 DEF VerifyClick, Holds, ClickFits, At
<1>2. Verify(Target)
  BY <1>1 DEF Verify
<1>3. [Step]_vars
  BY <1>0, <1>2 DEF Step
<1>4. row'[Target].status = "verifying_receipt"
  BY <1>0, <1>1, UpdateRow
<1>5. /\ work' \in WorkSet /\ work'.pc = "receipt" /\ work'.job = work.job
      /\ work'.batch = {} /\ work'.job \in SubmitJobs
  BY <1>0, GotoType DEF JobFits, At, SubmitPoint
<1>6. Target' = Target
  BY <1>5 DEF Target
<1>7. ClickFits'
  BY <1>4, <1>5, <1>6 DEF ClickFits, At
<1>8. SubmitsOn
  BY <1>0, <1>3, <1>5, <1>7, JobWritesFrame DEF SubmitsOn, SubmitPoint
<1> QED
  BY <1>8, SubmitsOnHolds

\* The outcome of a click is saved: what SaveOutcome and SaveUncertain have in common.
OutcomeSaved ==
  /\ work.pc \in {"clicked", "receipt"}
  /\ \E t \in {"published_verified", "published_unverified"} :
       SaveReceiptAndTransition(Target, row[Target].revision, t, row[Target].account)
  /\ Goto("children") \/ Goto("release")
  /\ JobWrites

LEMMA SaveCases ==
  ASSUME SaveOutcome \/ SaveUncertain
  PROVE  OutcomeSaved \/ (At("receipt") /\ OutcomeRefused)
BY DEF SaveOutcome, SaveUncertain, OutcomeSaved, At

LEMMA SaveHolds ==
  ASSUME Holds, OutcomeSaved
  PROVE  Kept
<1>0. /\ work.pc \in {"clicked", "receipt"} /\ work.pc \in SubmitPoint /\ JobWrites
      /\ TypeOK /\ Target \in Assignment
  BY WorkFields DEF OutcomeSaved, At, SubmitPoint, Holds
<1>1. PICK t \in {"published_verified", "published_unverified"} :
        /\ SaveReceiptAndTransition(Target, row[Target].revision, t, row[Target].account)
        /\ Goto("children") \/ Goto("release")
  BY DEF OutcomeSaved
<1>2. Target \in Interrupted
  <2>1. row[Target].status \in {"submitting", "verifying_receipt", "published_verified"}
    BY <1>0 DEF Holds, ClickFits, At
  <2>2. AssignmentMove(row[Target].status, t)
    BY <1>1 DEF SaveReceiptAndTransition
  <2>3. row[Target].status # "published_verified"
    BY <1>0, <2>2, FieldTypes DEF AssignmentMove, AssignmentTransitions, AssignmentStatus
  <2> QED
    BY <1>0, <2>1, <2>3 DEF Interrupted
<1>3. SaveReceipt(Target)
  BY <1>1, <1>2 DEF SaveReceipt
<1>4. [Step]_vars
  BY <1>0, <1>3 DEF Step
<1> QED
  BY <1>0, <1>1, <1>4, JobWritesFrame, SubmitGoto DEF SubmitPoint

LEMMA SubmitEndHolds ==
  ASSUME Holds, (At("receipt") /\ OutcomeRefused) \/ ResumeRepliesAfterSubmit \/ ReleaseSubmit
  PROVE  Kept
<1>1. CASE At("receipt") /\ OutcomeRefused
  BY <1>1, JobOnlyEnds DEF OutcomeRefused
<1>2. CASE ResumeRepliesAfterSubmit
  <2>1. /\ work.pc \in SubmitPoint /\ Target \in Assignment /\ JobWrites /\ Goto("release")
        /\ ResumeVerifiedChildren(Target)
    BY <1>2, WorkFields DEF ResumeRepliesAfterSubmit, At, SubmitPoint, Holds
  <2>2. [Step]_vars
    BY <2>1 DEF Step
  <2> QED
    BY <2>1, <2>2, JobWritesFrame, SubmitGoto DEF SubmitPoint
<1>3. CASE ReleaseSubmit
  <2>0. At("release") /\ JobFits /\ work.batch = {} /\ "kick" \in JobPoint
    BY <1>3 DEF ReleaseSubmit, Holds, JobFits, At, SubmitPoint, JobPoint
  <2>1. CASE Goto("kick") /\ JobOnly
    <3>1. work' \in WorkSet /\ work'.pc = "kick" /\ work'.batch = work.batch
      BY <2>0, <2>1, GotoType
    <3>2. JobFits'
      BY <2>0, <3>1, MovedJobFits DEF SubmitPoint
    <3>3. MovesOn
      BY <2>0, <2>1, <3>1, <3>2, JobOnlyFrame DEF MovesOn, SubmitPoint
    <3> QED
      BY <3>3, MovesOnHolds
  <2>2. CASE work' = Idle /\ JobOnly
    BY <2>2, JobOnlyEnds
  <2>3. CASE Invalidate(work.fault) \/ Invalidate(Active)
    BY <2>3, InvalidateEnds, EndsHolds
  <2> QED
    BY <1>3, <2>1, <2>2, <2>3 DEF ReleaseSubmit
<1> QED
  BY <1>1, <1>2, <1>3

LEMMA SubmittingHolds ==
  ASSUME Holds, Submitting
  PROVE  Kept
BY StartSubmitHolds, OpenProfileToSubmitHolds, ReadScreenHolds, CommitHolds, ClickHolds,
   VerifyClickHolds, SaveHolds, SubmitEndHolds, SaveCases DEF Submitting

-------------------------------------------------------------------------------
(* Failures of the worker, and the scan at its start *)

LEMMA FailureHolds ==
  ASSUME Holds, JobRaises \/ JobDies \/ WorkerRestarts
  PROVE  Kept
<1>1. CASE JobRaises
  BY <1>1, JobOnlyEnds DEF JobRaises
<1>2. CASE JobDies
  <2>1. UNCHANGED vars /\ work' = Idle /\ page' = page /\ HandlersFit'
    BY <1>2 DEF JobDies, Holds, HandlersFit, redis, vars
  <2> QED
    BY <2>1, UnchangedIsCalm, IdleEnds, EndsHolds
<1>3. CASE WorkerRestarts
  <2>1. ReconcileCampaignState
    BY <1>3 DEF WorkerRestarts
  <2>2. [Step]_vars
    BY <2>1 DEF Step
  <2>3. 0..campaign.prepare \subseteq 0..campaign'.prepare
    BY <2>2, PrepareGrows DEF Holds
  <2>4. HandlersFit' /\ page' = page
    BY <1>3, <2>3 DEF WorkerRestarts, Holds, HandlersFit, redis
  <2>5. work' = [Idle EXCEPT !.pc = "rescan", !.job = work.job] /\ work.job \in Jobs \cup {NoJob}
    BY <1>3, WorkFields DEF WorkerRestarts, Holds
  <2>6. work'.pc = "rescan" /\ work'.batch = {} /\ work' \in WorkSet
    BY <2>5 DEF Idle, WorkSet, JobPoint
  <2>7. Ends
    BY <2>2, <2>4, <2>6 DEF Ends
  <2> QED
    BY <2>7, EndsHolds
<1> QED
  BY <1>1, <1>2, <1>3

LEMMA RescanHolds ==
  ASSUME Holds, RescanAfterRestart
  PROVE  Kept
<1>0. At("rescan") /\ JobFits /\ work.batch = {} /\ "kick" \in JobPoint
  BY DEF RescanAfterRestart, Holds, JobFits, At, JobPoint
<1>1. CASE work' = Idle /\ JobOnly
  BY <1>1, JobOnlyEnds
<1>2. CASE /\ ~(campaign.prepare < 1)
           /\ EnqueuePrepare(campaign.prepare) /\ work' = Idle
           /\ UNCHANGED <<page, orphaned, clicks, unsent>>
  <2>1. campaign.prepare \in 1..campaign.prepare
    BY <1>2, FieldTypes DEF Holds
  <2> QED
    BY <1>2, <2>1, HandOnEnds
<1>3. CASE Goto("kick") /\ JobOnly
  <2>1. work' \in WorkSet /\ work'.pc = "kick" /\ work'.batch = work.batch
    BY <1>0, <1>3, GotoType
  <2>2. JobFits'
    BY <1>0, <2>1, MovedJobFits DEF SubmitPoint
  <2>3. MovesOn
    BY <1>0, <1>3, <2>1, <2>2, JobOnlyFrame DEF MovesOn, SubmitPoint
  <2> QED
    BY <2>3, MovesOnHolds
<1> QED
  BY <1>1, <1>2, <1>3 DEF RescanAfterRestart

-------------------------------------------------------------------------------
(* The theorems *)

LEMMA HoldsInitially ==
  ASSUME ExecutionInit
  PROVE  Holds
<1>1. TypeOK
  BY PlanAssumption DEF ExecutionInit, Init, TypeOK, Row, Campaign, Receipt, CampaignStatus,
     AssignmentStatus, NoReceipt, NoApproval
<1>2. ReplyOnlyUnderVerifiedParent
  BY DEF ExecutionInit, Init, ReplyOnlyUnderVerifiedParent, NoReceipt, Engaged, PreparingStatus
<1>3. HandlersFit
  BY EmptySeq DEF ExecutionInit, HandlersFit
<1>4. work.pc = "idle" /\ work.batch = {} /\ JobFits
  BY IdleType DEF ExecutionInit, JobFits, At, SubmitPoint
<1>5. page \in [Assignment -> PageSet]
  BY Bounds DEF ExecutionInit, Away, PageSet, PagePoint
<1>6. PagesFit /\ ClickFits
  BY <1>4, <1>5 DEF PagesFit, ClickFits, At
<1> QED
  BY <1>1, <1>2, <1>3, <1>4, <1>6 DEF Holds

LEMMA ExecutionStays ==
  ASSUME Holds, [ExecutionNext]_execVars
  PROVE  Kept
<1>1. CASE Worker
  BY <1>1, PrepareHolds, SubmittingHolds, RescanHolds DEF Worker
<1>2. CASE Operator
  BY <1>2, OperatorBeside, BesideHolds
<1>3. CASE Handler \/ HandlerFails \/ LeasesExpire
  BY <1>3, HandlerBeside, BesideHolds
<1>4. CASE JobRaises \/ JobDies \/ WorkerRestarts
  BY <1>4, FailureHolds
<1>5. CASE UNCHANGED execVars
  <2>1. UNCHANGED vars /\ Beside
    BY <1>5, UnchangedIsCalm DEF execVars, vars, redis, Beside, Holds, HandlersFit
  <2> QED
    BY <2>1, BesideHolds
<1> QED
  BY <1>1, <1>2, <1>3, <1>4, <1>5 DEF ExecutionNext, Failure

\* What the worker, the operators and the handlers do together is what the store's
\* contract allows: the transactions of Spec, called when Spec calls them.
THEOREM ExecutionImplementsStore == Execution => Spec
<1>1. ExecutionInit => Holds
  BY HoldsInitially
<1>2. Holds /\ [ExecutionNext]_execVars => Holds' /\ [Step]_vars
  BY ExecutionStays DEF Kept
<1>3. ExecutionInit => Init
  BY DEF ExecutionInit
<1> QED
  BY <1>1, <1>2, <1>3, PTL DEF Execution, Spec

LEMMA ExecutionHolds == Execution => []Holds
<1>1. ExecutionInit => Holds
  BY HoldsInitially
<1>2. Holds /\ [ExecutionNext]_execVars => Holds'
  BY ExecutionStays DEF Kept
<1> QED
  BY <1>1, <1>2, PTL DEF Execution

\* The worker and Redis are where the code expects them, and every click is on the
\* revision, the identity and the verified parent that its approval was given for,
\* whatever operators and handlers do between commit and click.
THEOREM ExecutionIsSafe == Execution => []ExecutionSafe
<1>1. Holds => ExecutionTypeOK
  <2> SUFFICES ASSUME Holds
               PROVE  ExecutionTypeOK
    OBVIOUS
  <2>1. \A i \in DOMAIN queue :
          \/ queue[i].kind = "prepare" /\ queue[i].generation >= 1 /\ queue[i].identity >= 0
          \/ queue[i].kind = "submit" /\ queue[i].target \in Assignment /\ queue[i].revision >= 1
    <3> SUFFICES ASSUME NEW i \in DOMAIN queue
                 PROVE  \/ queue[i].kind = "prepare" /\ queue[i].generation >= 1
                           /\ queue[i].identity >= 0
                        \/ queue[i].kind = "submit" /\ queue[i].target \in Assignment
                           /\ queue[i].revision >= 1
      OBVIOUS
    <3>1. queue[i] \in Jobs
      BY ElementOfSeq DEF Holds, HandlersFit
    <3> QED
      BY <3>1 DEF Jobs, PrepareJobs, SubmitJobs
  <2>2. /\ work.pc \in SubmitPoint => work.job.kind = "submit"
        /\ work.pc \in JobPoint /\ work.batch \subseteq Assignment /\ work.fault \subseteq Assignment
    BY WorkFields DEF Holds
  <2>3. \A a \in Assignment : page[a].pc \in PagePoint /\ page[a].pass \in 0..Retries
    BY DEF Holds, PagesFit, PageSet
  <2> QED
    BY <2>1, <2>2, <2>3 DEF Holds, HandlersFit, JobFits, ExecutionTypeOK, SubmitPoint, PagePoint
<1>2. Holds => ClickIsApproved
  BY WorkFields DEF Holds, ClickFits, ClickIsApproved, At, SubmitPoint,
     ReplyOnlyUnderVerifiedParent, Engaged
<1> QED
  BY <1>1, <1>2, ExecutionHolds, PTL DEF ExecutionSafe

\* When the next batch is started, no comment of the last one is left half prepared,
\* unless its job was stopped: every other way through its pages ends in an approval
\* to be given, in a failure that is reported, or in a row somebody else took away.
THEOREM BatchesAreComplete == Execution => []NoCommentLeftBehind
<1>1. Holds => NoCommentLeftBehind
  BY DEF Holds, PagesFit, PageFits, NoCommentLeftBehind, At
<1> QED
  BY <1>1, ExecutionHolds, PTL

-------------------------------------------------------------------------------
(* No uncertain submit is replayed.  Every click is accounted for: by a verdict, or *)
(* by the status of its row, which says so until a verdict takes it away.  The      *)
(* account is kept while somebody is left to answer for a click that is under way:  *)
(* the job that made it, or the worker that is started after it.                    *)

InFlight == {"submitting", "verifying_receipt"}
Flying   == {"click", "clicked", "receipt"}

Counted ==
  /\ clicks \in [Assignment -> Nat] /\ verdicts \in [Assignment -> Nat]
  /\ \A a \in Assignment :
       /\ clicks[a] <= 1 + verdicts[a]
       /\ row[a].status \notin Clicked => clicks[a] <= verdicts[a]
       /\ row[a].status \in InFlight => work.pc \in Flying /\ a = Target
  /\ At("click") => clicks[Target] <= verdicts[Target]

\* A step that neither starts a click of the comment nor forgets one.
Spared(a) ==
  /\ row[a].status \in Clicked => row'[a].status \in Clicked
  /\ row'[a].status \in InFlight => row[a].status \in InFlight

LEMMA SparedCounts ==
  ASSUME Holds, Holds', Counted, \A a \in Assignment : Spared(a),
         clicks' = clicks, verdicts' = verdicts,
         work.pc \in Flying => work' = work
  PROVE  Counted'
<1>1. ASSUME NEW a \in Assignment
      PROVE  /\ clicks[a] <= 1 + verdicts[a]
             /\ row'[a].status \notin Clicked => clicks[a] <= verdicts[a]
             /\ row'[a].status \in InFlight => work'.pc \in Flying /\ a = Target'
  BY DEF Counted, Spared, Target
<1>2. At("click")' => clicks[Target'] <= verdicts[Target']
  <2> SUFFICES ASSUME At("click")'
               PROVE  clicks[Target'] <= verdicts[Target']
    OBVIOUS
  <2>1. Target' \in Assignment /\ row'[Target'].status = "submitting"
    BY WorkFields DEF Holds, ClickFits, At, SubmitPoint, JobFits, WorkSet, SubmitJobs, Target
  <2>2. work.pc \in Flying
    BY <2>1 DEF Counted, Spared, InFlight
  <2>3. At("click") /\ Target' = Target
    BY <2>2 DEF At, Target
  <2> QED
    BY <2>3 DEF Counted
<1> QED
  BY <1>1, <1>2 DEF Counted

LEMMA SameRowIsSpared ==
  ASSUME row' = row
  PROVE  \A a \in Assignment : Spared(a)
BY DEF Spared

\* Only the commit moves a comment to "submitting", and only a verdict or a pause takes
\* a clicked one away from its outcome.
LEMMA UpdateSpares ==
  ASSUME TypeOK, NEW a \in Assignment, NEW rev, NEW t, t \notin {"submitting", "paused"},
         UpdateAssignmentStatus(a, rev, t)
  PROVE  \A b \in Assignment : Spared(b)
<1>1. /\ AssignmentMove(row[a].status, t) /\ row'[a].status = t
      /\ \A b \in Assignment \ {a} : row'[b] = row[b]
  BY UpdateRow DEF UpdateAssignmentStatus
<1>2. /\ row[a].status \in Clicked => t \in Clicked
      /\ t \in InFlight => row[a].status \in InFlight
  BY <1>1, FieldTypes
     DEF AssignmentMove, AssignmentTransitions, AssignmentStatus, Clicked, Published, InFlight
<1> QED
  BY <1>1, <1>2 DEF Spared

LEMMA FailSpares ==
  ASSUME TypeOK, NEW a \in Assignment, NEW rev, NEW t \in {"failed", "paused"},
         FailAssignmentAndPauseDescendants(a, rev, t), row[a].status # "published_unverified"
  PROVE  \A b \in Assignment : Spared(b)
<1>1. /\ \A b \in Assignment : Calm(b)
      /\ row[a].status \notin Clicked /\ row'[a].status \notin InFlight
      /\ \A b \in Assignment \ {a} : row[b].status \in Clicked => row'[b] = row[b]
  BY FailIsCalm DEF Clicked, Published, InFlight
<1> QED
  BY <1>1 DEF Spared, Calm, Clicked, InFlight

LEMMA ResumeSpares ==
  ASSUME TypeOK, NEW p \in Assignment, ResumeVerifiedChildren(p)
  PROVE  \A b \in Assignment : Spared(b)
BY ResumeIsCalm DEF Spared, Calm, Clicked, InFlight

\* A change of identity generation spares the published comments, and there is no
\* other clicked one while nobody is at a click.
LEMMA IdentitySpares ==
  ASSUME Holds, Counted, work.pc \notin Flying, FreezeIdentities \/ InvalidateIdentity
  PROVE  \A b \in Assignment : Spared(b)
<1> SUFFICES ASSUME NEW b \in Assignment
             PROVE  Spared(b)
  OBVIOUS
<1>0. TypeOK /\ row[b].status \notin InFlight
  BY DEF Holds, Counted
<1>1. \/ row'[b] = row[b]
      \/ b \in Active /\ row'[b].status \notin InFlight
  <2>1. CASE FreezeIdentities
    BY <2>1 DEF FreezeIdentities, FreezeCampaignIdentities, InFlight
  <2>2. CASE InvalidateIdentity
    <3>1. PICK affected \in SUBSET Active :
            InvalidateCampaignIdentity(campaign.revision, campaign.identity, affected)
      BY <2>2 DEF InvalidateIdentity
    <3>2. CASE b \in Active
      BY <1>0, <3>1, <3>2, InvalidatedRow DEF InFlight
    <3>3. CASE b \notin Active
      BY <3>1, <3>3 DEF InvalidateCampaignIdentity
    <3> QED
      BY <3>2, <3>3
  <2> QED
    BY <2>1, <2>2
<1>2. b \in Active => row[b].status \notin Clicked
  BY <1>0 DEF Active, IdentityTerminal, Clicked, Published, InFlight
<1> QED
  BY <1>1, <1>2 DEF Spared

LEMMA InvalidateSpares ==
  ASSUME Holds, Counted, work.pc \notin Flying, NEW affected, Invalidate(affected)
  PROVE  /\ \A b \in Assignment : Spared(b)
         /\ clicks' = clicks /\ verdicts' = verdicts
<1>0. clicks' = clicks /\ verdicts' = verdicts
  BY DEF Invalidate, JobWrites, unsent
<1>1. CASE InvalidateCampaignIdentity(work.snap, work.ident, affected)
  <2>1. InvalidateCampaignIdentity(campaign.revision, campaign.identity, affected \cap Active)
    <3>1. InvalidateCampaignIdentity(campaign.revision, campaign.identity, affected)
      BY <1>1 DEF InvalidateCampaignIdentity, IdentityCAS
    <3>2. \A a \in Active : a \in affected <=> a \in affected \cap Active
      OBVIOUS
    <3> QED
      BY <3>1, <3>2 DEF InvalidateCampaignIdentity
  <2>2. affected \cap Active \in SUBSET Active
    OBVIOUS
  <2>3. InvalidateIdentity
    BY <2>1, <2>2 DEF InvalidateIdentity
  <2> QED
    BY <1>0, <2>3, IdentitySpares
<1>2. CASE UNCHANGED vars
  BY <1>0, <1>2, SameRowIsSpared DEF vars
<1> QED
  BY <1>1, <1>2 DEF Invalidate

-------------------------------------------------------------------------------
(* Preparation clicks nothing *)

LEMMA PageSpares ==
  ASSUME Holds, NEW a \in Assignment, PrepareOne(a)
  PROVE  /\ \A b \in Assignment : Spared(b)
         /\ clicks' = clicks /\ verdicts' = verdicts /\ work' = work
<1>0. TypeOK
  BY DEF Holds
<1>1. clicks' = clicks /\ verdicts' = verdicts /\ work' = work
  BY DEF PrepareOne, OpenRow, EnterPage, LeavePanel, LocateParentComment, ReserveAndType,
     RetryPage, GiveUpPage, OfferForApproval, PageStep, unsent
<1>2. \/ row' = row
      \/ \E rev, t : t \notin {"submitting", "paused"} /\ UpdateAssignmentStatus(a, rev, t)
      \/ /\ row[a].status = "preparing_comment"
         /\ row' = [row EXCEPT ![a] = Bumped(row[a])]
  <2>1. CASE OpenRow(a)
    BY <2>1 DEF OpenRow, vars
  <2>2. CASE EnterPage(a) \/ LeavePanel(a) \/ LocateParentComment(a)
    BY <2>2 DEF EnterPage, LeavePanel, LocateParentComment, MoveOn, vars
  <2>3. CASE ReserveAndType(a)
    BY <2>3 DEF ReserveAndType, CanReserve, BeginCommentInput, vars
  <2>4. CASE RetryPage(a) \/ GiveUpPage(a)
    BY <2>4 DEF RetryPage, GiveUpPage, vars
  <2>5. CASE OfferForApproval(a)
    BY <2>5 DEF OfferForApproval, vars
  <2> QED
    BY <2>1, <2>2, <2>3, <2>4, <2>5 DEF PrepareOne
<1>3. CASE \E rev, t : t \notin {"submitting", "paused"} /\ UpdateAssignmentStatus(a, rev, t)
  BY <1>0, <1>1, <1>3, UpdateSpares
<1>4. CASE row[a].status = "preparing_comment" /\ row' = [row EXCEPT ![a] = Bumped(row[a])]
  <2>1. row'[a] = Bumped(row[a]) /\ \A b \in Assignment \ {a} : row'[b] = row[b]
    BY <1>0, <1>4 DEF TypeOK
  <2>2. row'[a].status = "preparing_comment"
    BY <1>0, <1>4, <2>1, MovedFields, FieldTypes
  <2> QED
    BY <1>1, <1>4, <2>1, <2>2 DEF Spared, InFlight, Clicked, Published
<1> QED
  BY <1>1, <1>2, <1>3, <1>4, SameRowIsSpared

LEMMA PrepareCounts ==
  ASSUME Holds, Holds', Counted, Prepare
  PROVE  Counted'
<1>0. TypeOK
  BY DEF Holds
<1>1. ASSUME NEW a \in Assignment, PrepareOne(a)
      PROVE  Counted'
  BY <1>1, PageSpares, SparedCounts
<1>2. SUFFICES ASSUME work.pc \notin Flying,
                      ~ \E a \in Assignment : PrepareOne(a)
               PROVE  Counted'
  <2>1. \/ work.pc \notin Flying
        \/ \E a \in Assignment : PrepareOne(a)
    BY DEF Prepare, StartPrepare, SkipPreflight, BeginPreflight, ObserveIdentities, PlanBatch,
       OpenBatch, VerifyBatchIdentities, FailPrepare, GatherOutcomes, FailuresReported,
       CloseBatch, KickNextBatch, EnqueueNextBatch, At, Flying
  <2> QED
    BY <1>1, <2>1
<1>3. ASSUME NEW affected, Invalidate(affected)
      PROVE  Counted'
  BY <1>2, <1>3, InvalidateSpares, SparedCounts
<1>4. CASE row' = row /\ clicks' = clicks /\ verdicts' = verdicts
  BY <1>2, <1>4, SameRowIsSpared, SparedCounts
<1>5. CASE \/ StartPrepare \/ SkipPreflight \/ BeginPreflight \/ PlanBatch
           \/ VerifyBatchIdentities \/ GatherOutcomes \/ FailuresReported
           \/ KickNextBatch \/ EnqueueNextBatch
  BY <1>4, <1>5 DEF StartPrepare, SkipPreflight, BeginPreflight, PlanBatch,
     VerifyBatchIdentities, GatherOutcomes, FailuresReported, KickNextBatch, EnqueueNextBatch,
     JobOnly, JobWrites, TransitionCampaign, NextPrepareGeneration, EnqueuePrepare, unsent, vars
<1>6. CASE OpenBatch
  BY <1>3, <1>4, <1>6 DEF OpenBatch, JobOnly, unsent, vars
<1>7. CASE CloseBatch
  BY <1>3, <1>4, <1>7 DEF CloseBatch, JobOnly, unsent, vars
<1>8. CASE ObserveIdentities
  <2>1. ASSUME NEW obs \in [Active -> Account], Active = work.scan, At("observe"),
               FreezeCampaignIdentities(work.snap, work.ident, obs), JobWrites
        PROVE  Counted'
    <3>1. FreezeIdentities
      <4>1. FreezeCampaignIdentities(campaign.revision, campaign.identity, obs)
        BY <2>1 DEF FreezeCampaignIdentities, IdentityCAS
      <4> QED
        BY <2>1, <4>1 DEF FreezeIdentities, Holds, JobFits
    <3>2. clicks' = clicks /\ verdicts' = verdicts
      BY <2>1 DEF JobWrites, unsent
    <3> QED
      BY <1>2, <3>1, <3>2, IdentitySpares, SparedCounts
  <2>2. CASE JobOnly
    BY <1>4, <2>2 DEF JobOnly, unsent, vars
  <2> QED
    BY <1>3, <1>8, <2>1, <2>2 DEF ObserveIdentities
<1>9. ASSUME NEW a \in Assignment, FailPrepare(a)
      PROVE  Counted'
  <2>1. clicks' = clicks /\ verdicts' = verdicts /\ At("fail") /\ a \in work.batch
    BY <1>9 DEF FailPrepare, unsent
  <2>2. row[a].status # "published_unverified"
    BY <2>1 DEF Holds, PagesFit, PageFits, Clicked, Published
  <2>3. CASE row' = row
    BY <1>4, <2>1, <2>3
  <2>4. ASSUME NEW t \in {"failed", "paused"},
               FailAssignmentAndPauseDescendants(a, row[a].revision, t)
        PROVE  Counted'
    BY <1>0, <1>2, <2>1, <2>2, <2>4, FailSpares, SparedCounts
  <2> QED
    BY <1>9, <2>3, <2>4 DEF FailPrepare, vars
<1> QED
  BY <1>1, <1>5, <1>6, <1>7, <1>8, <1>9 DEF Prepare

-------------------------------------------------------------------------------
(* The submission, whose click is counted *)

\* A step of the submission that leaves the row it clicks to somebody else.
LEMMA BesideClickCounts ==
  ASSUME Holds, Holds', Counted, work.pc \notin Flying,
         row' = row, clicks' = clicks, verdicts' = verdicts
  PROVE  Counted'
BY SameRowIsSpared, SparedCounts

LEMMA CommitCounts ==
  ASSUME Holds, Counted, BeginSubmitting(Target, work.job.revision, work.ident), Goto("click"),
         work.pc \in SubmitPoint \ Flying, clicks' = clicks, verdicts' = verdicts
  PROVE  Counted'
<1>0. TypeOK /\ JobFits /\ Target \in Assignment /\ "click" \in JobPoint
  BY WorkFields DEF Holds, JobPoint
<1>1. work'.pc = "click" /\ Target' = Target
  BY <1>0, GotoType DEF Target
<1>2. /\ row[Target].status = "awaiting_step_approval"
      /\ row' = [row EXCEPT ![Target] = Moved(row[Target], "submitting")]
  BY DEF BeginSubmitting
<1>3. /\ row'[Target].status = "submitting"
      /\ \A b \in Assignment \ {Target} : row'[b] = row[b]
  <2>1. /\ row'[Target] = Moved(row[Target], "submitting")
        /\ \A b \in Assignment \ {Target} : row'[b] = row[b]
    BY <1>0, <1>2 DEF TypeOK
  <2> QED
    BY <1>0, <2>1, MovedFields, FieldTypes
<1>4. clicks[Target] <= verdicts[Target]
  BY <1>0, <1>2 DEF Counted, Clicked, Published
<1>5. ASSUME NEW b \in Assignment \ {Target}
      PROVE  row'[b] = row[b] /\ row[b].status \notin InFlight
  BY <1>3 DEF Counted
<1>6. row'[Target].status \in Clicked
  BY <1>3 DEF Clicked
<1> QED
  BY <1>0, <1>1, <1>3, <1>4, <1>5, <1>6 DEF Counted, Flying, At

LEMMA ClickCounts ==
  ASSUME Holds, Counted, Click
  PROVE  Counted'
<1>0. /\ JobFits /\ At("click") /\ Target \in Assignment /\ "clicked" \in JobPoint
      /\ row' = row /\ verdicts' = verdicts
      /\ clicks' = [clicks EXCEPT ![Target] = clicks[Target] + 1]
  BY WorkFields DEF Click, Holds, JobPoint, At, SubmitPoint, unsent, vars
<1>1. work'.pc = "clicked" /\ Target' = Target
  BY <1>0, GotoType DEF Click, Target
<1>2. row[Target].status \in Clicked
  BY <1>0 DEF Holds, ClickFits, At, Clicked
<1>3. clicks[Target] \in Nat /\ verdicts[Target] \in Nat /\ clicks[Target] <= verdicts[Target]
  BY <1>0 DEF Counted
<1>4. /\ clicks' \in [Assignment -> Nat] /\ clicks'[Target] = clicks[Target] + 1
      /\ \A b \in Assignment \ {Target} : clicks'[b] = clicks[b]
  BY <1>0, <1>3 DEF Counted
<1>5. ASSUME NEW a \in Assignment
      PROVE  /\ clicks'[a] <= 1 + verdicts[a]
             /\ row[a].status \notin Clicked => clicks'[a] <= verdicts[a]
             /\ row[a].status \in InFlight => a = Target
  <2>1. CASE a = Target
    BY <1>2, <1>3, <1>4, <2>1
  <2>2. CASE a # Target
    BY <1>4, <2>2 DEF Counted
  <2> QED
    BY <2>1, <2>2
<1> QED
  BY <1>0, <1>1, <1>4, <1>5 DEF Counted, Flying, At

\* The click is verified, or its outcome saved: the row stays one that was clicked,
\* and it is only left when its outcome is known.
LEMMA AfterClickCounts ==
  ASSUME Holds, Counted, work.pc \in {"clicked", "receipt"},
         \A b \in Assignment : Spared(b),
         clicks' = clicks, verdicts' = verdicts, work'.pc # "click",
         row'[Target].status \notin InFlight \/ (work'.pc \in Flying /\ Target' = Target)
  PROVE  Counted'
<1>1. ASSUME NEW a \in Assignment
      PROVE  /\ clicks[a] <= 1 + verdicts[a]
             /\ row'[a].status \notin Clicked => clicks[a] <= verdicts[a]
             /\ row'[a].status \in InFlight => work'.pc \in Flying /\ a = Target'
  BY DEF Counted, Spared
<1> QED
  BY <1>1 DEF Counted, At

LEMMA SaveSpares ==
  ASSUME TypeOK, NEW a \in Assignment, NEW rev, NEW t, NEW acc,
         SaveReceiptAndTransition(a, rev, t, acc)
  PROVE  (\A b \in Assignment : Spared(b)) /\ row'[a].status \notin InFlight
<1> DEFINE rows == [row EXCEPT ![a] = Moved(row[a], t)]
           P    == IF t = "published_unverified" THEN {a} ELSE {}
<1>1. /\ t \in Published /\ row' = BranchPaused(rows, P)
  BY DEF SaveReceiptAndTransition, Published
<1>2. rows[a] = Moved(row[a], t) /\ \A b \in Assignment \ {a} : rows[b] = row[b]
  BY DEF TypeOK
<1>3. P = {a} \/ P = {}
  OBVIOUS
<1> HIDE DEF rows, P
<1>4. row'[a].status = t
  <2>1. row'[a] = Moved(row[a], t)
    BY <1>1, <1>2, <1>3, BranchPausedRow
  <2> QED
    BY <2>1, MovedFields, FieldTypes
<1>5. ASSUME NEW b \in Assignment \ {a}
      PROVE  \/ row'[b] = row[b]
             \/ row[b].status \in PausableStatus /\ row'[b].status = "paused_dependency"
  <2>1. \/ row'[b] = rows[b]
        \/ rows[b].status \in PausableStatus /\ row'[b] = Moved(rows[b], "paused_dependency")
    BY <1>1, BranchPausedRow
  <2> QED
    BY <2>1, <1>2, MovedFields, FieldTypes
<1> QED
  BY <1>1, <1>4, <1>5 DEF Spared, Clicked, Published, InFlight, PausableStatus, PreparingStatus

LEMMA SubmittingCounts ==
  ASSUME Holds, Holds', Counted, Submitting
  PROVE  Counted'
<1>0. TypeOK /\ JobFits /\ JobFits'
  BY DEF Holds
<1>1. ASSUME NEW affected, Invalidate(affected), work.pc \notin Flying
      PROVE  Counted'
  BY <1>1, InvalidateSpares, SparedCounts
<1>2. ASSUME RaiseBeforeClick, work.pc \in SubmitPoint \ Flying
      PROVE  Counted'
  <2>1. clicks' = clicks /\ verdicts' = verdicts /\ Target \in Assignment
    BY <1>0, <1>2, WorkFields DEF RaiseBeforeClick, JobWrites, unsent
  <2>2. CASE UNCHANGED vars
    BY <1>2, <2>1, <2>2, BesideClickCounts DEF vars
  <2>3. CASE InvalidateSubmitApproval(Target, work.job.revision)
    <3>1. /\ row[Target].status = "awaiting_step_approval"
          /\ row' = [row EXCEPT ![Target] = Bumped(row[Target])]
      BY <2>3 DEF InvalidateSubmitApproval
    <3>2. row'[Target] = Bumped(row[Target]) /\ \A b \in Assignment \ {Target} : row'[b] = row[b]
      BY <1>0, <2>1, <3>1 DEF TypeOK
    <3>3. row'[Target].status = "awaiting_step_approval"
      BY <1>0, <2>1, <3>1, <3>2, MovedFields, FieldTypes
    <3>4. \A b \in Assignment : Spared(b)
      BY <3>1, <3>2, <3>3 DEF Spared, InFlight, Clicked, Published
    <3> QED
      BY <1>2, <2>1, <3>4, SparedCounts
  <2> QED
    BY <1>2, <2>2, <2>3 DEF RaiseBeforeClick
<1>3. ASSUME JobOnly, work.pc \notin Flying
      PROVE  Counted'
  BY <1>3, BesideClickCounts DEF JobOnly, unsent, vars
<1>4. CASE StartSubmit
  BY <1>4, BesideClickCounts DEF StartSubmit, At, Flying, unsent, vars
<1>5. CASE OpenProfileToSubmit \/ ReadScreen
  BY <1>1, <1>2, <1>3, <1>5 DEF OpenProfileToSubmit, ReadScreen, At, Flying, SubmitPoint
<1>6. CASE CommitSubmit
  <2>1. work.pc \in SubmitPoint \ Flying
    BY <1>6 DEF CommitSubmit, At, Flying, SubmitPoint
  <2>2. CASE JobOnly
    BY <1>3, <2>1, <2>2
  <2>3. CASE BeginSubmitting(Target, work.job.revision, work.ident) /\ Goto("click") /\ JobWrites
    BY <2>1, <2>3, CommitCounts DEF JobWrites, unsent
  <2> QED
    BY <1>6, <2>2, <2>3 DEF CommitSubmit
<1>7. CASE Click
  BY <1>7, ClickCounts
<1>8. CASE VerifyClick
  <2>1. /\ At("clicked") /\ Target \in Assignment /\ "receipt" \in JobPoint
        /\ clicks' = clicks /\ verdicts' = verdicts
    BY <1>0, <1>8, WorkFields DEF VerifyClick, JobWrites, unsent, At, SubmitPoint, JobPoint
  <2>2. \A b \in Assignment : Spared(b)
    BY <1>0, <1>8, <2>1, UpdateSpares DEF VerifyClick
  <2>3. work'.pc = "receipt" /\ Target' = Target
    BY <1>0, <1>8, <2>1, GotoType DEF VerifyClick, Target
  <2> QED
    BY <2>1, <2>2, <2>3, AfterClickCounts DEF At, Flying
<1>9. CASE OutcomeSaved
  <2>1. /\ work.pc \in {"clicked", "receipt"} /\ Target \in Assignment
        /\ clicks' = clicks /\ verdicts' = verdicts
        /\ "children" \in JobPoint /\ "release" \in JobPoint
    BY <1>0, <1>9, WorkFields
       DEF OutcomeSaved, JobWrites, unsent, At, SubmitPoint, JobPoint
  <2>2. /\ \E t : SaveReceiptAndTransition(Target, row[Target].revision, t, row[Target].account)
        /\ Goto("children") \/ Goto("release")
    BY <1>9 DEF OutcomeSaved
  <2>3. (\A b \in Assignment : Spared(b)) /\ row'[Target].status \notin InFlight
    BY <1>0, <2>1, <2>2, SaveSpares
  <2>4. work'.pc # "click"
    BY <1>0, <2>1, <2>2, GotoType
  <2> QED
    BY <2>1, <2>3, <2>4, AfterClickCounts
<1>10. CASE At("receipt") /\ OutcomeRefused
  <2>1. /\ At("receipt") /\ Target \in Assignment /\ Target \notin Interrupted
        /\ work' = Idle /\ row' = row /\ clicks' = clicks /\ verdicts' = verdicts
    BY <1>0, <1>10, WorkFields DEF OutcomeRefused, JobOnly, unsent, vars, At, SubmitPoint
  <2>2. row'[Target].status \notin InFlight /\ work'.pc # "click"
    BY <2>1, IdleType DEF Interrupted, InFlight
  <2> QED
    BY <2>1, <2>2, SameRowIsSpared, AfterClickCounts DEF At
<1>11. CASE ResumeRepliesAfterSubmit
  <2>1. /\ work.pc \notin Flying /\ Target \in Assignment
        /\ clicks' = clicks /\ verdicts' = verdicts /\ ResumeVerifiedChildren(Target)
    BY <1>0, <1>11, WorkFields
       DEF ResumeRepliesAfterSubmit, JobWrites, unsent, At, SubmitPoint, Flying
  <2> QED
    BY <1>0, <2>1, ResumeSpares, SparedCounts
<1>12. CASE ReleaseSubmit
  BY <1>1, <1>3, <1>12 DEF ReleaseSubmit, At, Flying
<1> QED
  BY <1>4, <1>5, <1>6, <1>7, <1>8, <1>9, <1>10, <1>11, <1>12, SaveCases
     DEF Submitting

-------------------------------------------------------------------------------
(* What runs beside the click *)

LEMMA OperatorCounts ==
  ASSUME Holds, Holds', Counted, Operator, "late_reject" \notin Events
  PROVE  Counted'
<1>0. TypeOK /\ work' = work /\ clicks' = clicks
  BY OperatorBeside DEF Holds, Beside, Operator, QueueCampaign, QueueCampaignAgain, StopCampaign,
     ApproveSubmit, RejectSubmit, ResolveUnverified, Call
<1>1. CASE QueueCampaign \/ QueueCampaignAgain \/ StopCampaign
  <2>1. row' = row /\ verdicts' = verdicts
    BY <1>1 DEF QueueCampaign, QueueCampaignAgain, StopCampaign, TransitionCampaign, vars
  <2> QED
    BY <1>0, <2>1, SameRowIsSpared, SparedCounts
<1>2. ASSUME NEW a \in Assignment, ApproveSubmit(a)
      PROVE  Counted'
  <2>1. row' = row /\ verdicts' = verdicts
    BY <1>2 DEF ApproveSubmit, CreateSubmitApproval
  <2> QED
    BY <1>0, <2>1, SameRowIsSpared, SparedCounts
<1>3. ASSUME NEW a \in Assignment, RejectSubmit(a)
      PROVE  Counted'
  <2>1. /\ FailAssignmentAndPauseDescendants(a, row[a].revision, "paused")
        /\ row[a].status # "published_unverified" /\ verdicts' = verdicts
    BY <1>3 DEF RejectSubmit, RejectSubmitAndPauseDescendants
  <2>2. \A b \in Assignment : Spared(b)
    BY <1>0, <2>1, FailSpares
  <2> QED
    BY <1>0, <2>1, <2>2, SparedCounts
<1>4. ASSUME NEW a \in Assignment, ResolvePublished(a, row[a].revision), verdicts' = verdicts
      PROVE  Counted'
  <2>1. \A b \in Assignment : Spared(b)
    <3>1. Resolve(a)
      BY <1>4 DEF Resolve
    <3>2. /\ row'[a].status \in Clicked
          /\ \A b \in Assignment \ {a} : row'[b] = row[b]
      BY <1>0, <1>4, <3>1, ResolveIsCalm
    <3>3. row'[a].status = "published_verified"
      <4>1. row'[a] = Moved(row[a], "published_verified")
        BY <1>0, <1>4 DEF ResolvePublished, TypeOK
      <4> QED
        BY <1>0, <1>4, <4>1, MovedFields, FieldTypes
    <3> QED
      BY <3>2, <3>3 DEF Spared, InFlight
  <2> QED
    BY <1>0, <1>4, <2>1, SparedCounts
<1>5. ASSUME NEW a \in Assignment, ResolveNotPublished(a, row[a].revision),
             verdicts' = [verdicts EXCEPT ![a] = verdicts[a] + 1]
      PROVE  Counted'
  <2>1. /\ verdicts[a] \in Nat /\ verdicts' \in [Assignment -> Nat]
        /\ verdicts'[a] = verdicts[a] + 1
        /\ \A b \in Assignment \ {a} : verdicts'[b] = verdicts[b]
    <3>1. verdicts \in [Assignment -> Nat] /\ a \in Assignment
      BY <1>5 DEF Counted
    <3>2. verdicts[a] \in Nat /\ verdicts[a] + 1 \in Nat
      BY <3>1
    <3> QED
      BY <1>5, <3>1, <3>2
  <2>2. /\ AssignmentMove(row[a].status, "paused")
        /\ row'[a] = Moved(row[a], "waiting_dependency")
        /\ \A b \in Assignment \ {a} : row'[b] = row[b]
    BY <1>0, <1>5 DEF ResolveNotPublished, TypeOK
  <2>3. row'[a].status \notin InFlight
    BY <1>0, <1>5, <2>2, MovedFields, FieldTypes DEF InFlight
  <2>4. row[a].status # "submitting"
    BY <1>0, <2>2, FieldTypes DEF AssignmentMove, AssignmentTransitions, AssignmentStatus
  <2>5. ASSUME NEW b \in Assignment
        PROVE  /\ clicks[b] <= 1 + verdicts'[b]
               /\ row'[b].status \notin Clicked => clicks[b] <= verdicts'[b]
               /\ row'[b].status \in InFlight => work.pc \in Flying /\ b = Target
    <3>1. CASE b = a
      <4>1. clicks[a] \in Nat /\ verdicts[a] \in Nat /\ clicks[a] <= 1 + verdicts[a]
        BY <1>5 DEF Counted
      <4>2. clicks[a] <= verdicts'[a]
        BY <2>1, <4>1
      <4>3. clicks[a] <= 1 + verdicts'[a]
        BY <2>1, <4>1, <4>2
      <4> QED
        BY <2>3, <3>1, <4>2, <4>3
    <3>2. CASE b # a
      BY <2>1, <2>2, <3>2 DEF Counted
    <3> QED
      BY <3>1, <3>2
  <2>6. At("click") => Target \in Assignment /\ Target # a
    BY <2>4, WorkFields DEF Holds, ClickFits, At, SubmitPoint
  <2> QED
    BY <1>0, <2>1, <2>5, <2>6 DEF Counted, At, Target
<1> QED
  BY <1>1, <1>2, <1>3, <1>4, <1>5 DEF Operator, ResolveUnverified

LEMMA HandlerCounts ==
  ASSUME Holds, Holds', Counted, Handler \/ HandlerFails \/ LeasesExpire
  PROVE  Counted'
<1>0. TypeOK /\ work' = work /\ clicks' = clicks /\ verdicts' = verdicts
  BY HandlerBeside DEF Holds, Beside, Handler, AllocateGeneration, EnqueueGeneration,
     ResumeChildren, HandlerFails, LeasesExpire, history
<1>1. ASSUME NEW a \in Assignment, ResumeChildren(a)
      PROVE  Counted'
  BY <1>0, <1>1, ResumeSpares, SparedCounts DEF ResumeChildren
<1>2. CASE AllocateGeneration \/ EnqueueGeneration \/ HandlerFails \/ LeasesExpire
  <2>1. row' = row
    BY <1>2 DEF AllocateGeneration, EnqueueGeneration, HandlerFails, LeasesExpire,
       NextPrepareGeneration, EnqueuePrepare, vars
  <2> QED
    BY <1>0, <2>1, SameRowIsSpared, SparedCounts
<1> QED
  BY <1>1, <1>2 DEF Handler

\* The worker that is started again answers for the click of the one that died.
LEMMA RestartCounts ==
  ASSUME Holds, Counted, WorkerRestarts
  PROVE  Counted'
<1>0. TypeOK /\ ReconcileCampaignState /\ clicks' = clicks /\ verdicts' = verdicts
  BY DEF Holds, WorkerRestarts
<1>1. work'.pc # "click"
  BY DEF WorkerRestarts, Idle
<1>2. ASSUME NEW b \in Assignment
      PROVE  row'[b].status \notin InFlight /\ Spared(b)
  <2>1. CASE b \in Interrupted /\ row'[b] = Moved(row[b], "published_unverified")
    <3>1. row'[b].status = "published_unverified"
      BY <1>0, <2>1, MovedFields, FieldTypes
    <3> QED
      BY <3>1 DEF InFlight, Spared, Clicked, Published
  <2>2. CASE b \notin Interrupted /\ row'[b] = row[b]
    BY <2>2 DEF Interrupted, InFlight, Spared
  <2>3. CASE row[b].status \in PausableStatus /\ row'[b] = Moved(row[b], "paused_dependency")
    <3>1. row'[b].status = "paused_dependency"
      BY <1>0, <2>3, MovedFields, FieldTypes
    <3> QED
      BY <2>3, <3>1 DEF InFlight, Spared, Clicked, Published, PausableStatus, PreparingStatus
  <2>4. CASE /\ row[b].status = "awaiting_step_approval"
             /\ row'[b] = [Moved(row[b], "waiting_dependency") EXCEPT !.preflight = 0]
    <3>1. Moved(row[b], "waiting_dependency") \in Row
      BY <1>0, MovedType, FieldTypes DEF AssignmentStatus
    <3>2. row'[b].status = Moved(row[b], "waiting_dependency").status
      BY <2>4, <3>1 DEF Row
    <3>3. row'[b].status = "waiting_dependency"
      BY <1>0, <3>2, MovedFields, FieldTypes
    <3> QED
      BY <2>4, <3>3 DEF InFlight, Spared, Clicked, Published
  <2> QED
    BY <1>0, <2>1, <2>2, <2>3, <2>4, ReconciledRow
<1> QED
  BY <1>0, <1>1, <1>2 DEF Counted, Spared, At

LEMMA CountsStay ==
  ASSUME Holds, Counted, [ExecutionNext]_execVars,
         "job_death" \notin Events, "late_reject" \notin Events
  PROVE  Counted'
<1>0. Holds'
  BY ExecutionStays DEF Kept
<1>1. CASE Prepare
  BY <1>0, <1>1, PrepareCounts
<1>2. CASE Submitting
  BY <1>0, <1>2, SubmittingCounts
<1>3. CASE RescanAfterRestart
  <2>1. work.pc \notin Flying /\ row' = row /\ clicks' = clicks /\ verdicts' = verdicts
    BY <1>3 DEF RescanAfterRestart, JobOnly, EnqueuePrepare, unsent, vars, At, Flying
  <2> QED
    BY <1>0, <2>1, BesideClickCounts
<1>4. CASE Operator
  BY <1>0, <1>4, OperatorCounts
<1>5. CASE Handler \/ HandlerFails \/ LeasesExpire
  BY <1>0, <1>5, HandlerCounts
<1>6. CASE JobRaises
  <2>1. work.pc \notin Flying /\ row' = row /\ clicks' = clicks /\ verdicts' = verdicts
    BY <1>6 DEF JobRaises, JobOnly, unsent, vars, Flying
  <2> QED
    BY <1>0, <2>1, BesideClickCounts
<1>7. CASE WorkerRestarts
  BY <1>7, RestartCounts
<1>8. CASE UNCHANGED execVars
  <2>1. row' = row /\ clicks' = clicks /\ verdicts' = verdicts /\ work' = work
    BY <1>8 DEF execVars, vars, history
  <2> QED
    BY <1>0, <2>1, SameRowIsSpared, SparedCounts
<1>9. ~JobDies
  BY DEF JobDies
<1> QED
  BY <1>1, <1>2, <1>3, <1>4, <1>5, <1>6, <1>7, <1>8, <1>9 DEF ExecutionNext, Worker, Failure

\* An uncertain submit is never replayed, whatever pauses, identity changes, lost
\* leases, unhandled exceptions and deaths of the worker interleave, provided that no
\* operator rejects a comment after its click and that a job does not die alone, its
\* worker living on: with either of the two the property fails, as the runs show.
THEOREM NothingIsReplayed ==
  ASSUME "job_death" \notin Events, "late_reject" \notin Events
  PROVE  Execution => []NoReplay
<1>1. ExecutionInit => Holds /\ Counted
  <2> SUFFICES ASSUME ExecutionInit
               PROVE  Counted
    BY HoldsInitially
  <2>1. \A a \in Assignment : row[a].status = "planned" /\ clicks[a] = 0 /\ verdicts[a] = 0
    BY DEF ExecutionInit, Init
  <2>2. ~At("click")
    BY DEF ExecutionInit, Idle, At
  <2> QED
    <3>1. \A a \in Assignment : /\ clicks[a] <= verdicts[a] /\ clicks[a] <= 1 + verdicts[a]
                                 /\ row[a].status \notin InFlight
      BY <2>1 DEF InFlight
    <3>2. clicks \in [Assignment -> Nat] /\ verdicts \in [Assignment -> Nat]
      BY DEF ExecutionInit
    <3> QED
      BY <2>2, <3>1, <3>2 DEF Counted
<1>2. (Holds /\ Counted) /\ [ExecutionNext]_execVars => (Holds /\ Counted)'
  BY ExecutionStays, CountsStay DEF Kept
<1>3. Holds /\ Counted => NoReplay
  BY DEF Counted, NoReplay
<1> QED
  BY <1>1, <1>2, <1>3, PTL DEF Execution
===============================================================================
