-------------------------- MODULE CampaignExecution --------------------------
(***************************************************************************)
(* The processes that call the store of one Comment Campaign: the one RQ   *)
(* worker with its prepare and submit jobs (service.py, executor.py,       *)
(* profile_gateway.py), its recovery at start (worker.py), the operators'  *)
(* HTTP handlers (service.py) and the Redis queue between them             *)
(* (queueing.py).                                                          *)
(*                                                                         *)
(* A step is what a process does between two points where another process  *)
(* may act: one store transaction, with the reads and the calls to the     *)
(* browser that come before it.  A handler that makes several transactions *)
(* leaves what it still owes in `handoff` or `resuming`.                   *)
(***************************************************************************)
EXTENDS CampaignStore, Sequences

CONSTANTS
  BatchSize,   \* campaign.batch_size
  Retries,     \* passes of _prepare_page over one page (3 in the code)
  Events,      \* the operator calls and the failures that may happen
  MaxCalls,    \* bound on operator calls
  MaxDeaths    \* bound on deaths of a job or of the worker

KnownEvents == {"pause", "cancel", "resume", "retry", "reject", "late_reject",
                "resolve", "observe", "open", "page", "close", "redis", "exception",
                "job_death", "restart"}

ASSUME ExecutionAssumption ==
  /\ BatchSize \in Nat \ {0} /\ Retries \in Nat \ {0}
  /\ MaxCalls \in Nat /\ MaxDeaths \in Nat
  /\ Events \subseteq KnownEvents

VARIABLES
  queue,      \* the RQ queue
  accepted,   \* the job ids Redis knows, finished ones included
  work,       \* the worker and the job it runs
  page,       \* per assignment: where _prepare_one is
  orphaned,   \* a dead job's leases have not expired yet
  handoff,    \* HTTP handlers: 0 = must allocate, g = must enqueue generation g
  resuming,   \* HTTP handlers that must still resume the children of a parent
  clicks,     \* history: clicks on the submit control
  verdicts,   \* history: "not published" verdicts
  calls,      \* history: operator calls made
  deaths      \* history: deaths

redis   == <<queue, accepted>>
history == <<clicks, verdicts, calls, deaths>>
execVars == <<vars, redis, work, page, orphaned, handoff, resuming, history>>

-------------------------------------------------------------------------------
PrepareJob(g, i) == [kind |-> "prepare", generation |-> g, identity |-> i]
SubmitJob(a, r)  == [kind |-> "submit", target |-> a, revision |-> r]
NoJob            == [kind |-> "none"]

JobId(j) == CASE j.kind = "prepare" -> <<"prepare", j.generation>>
              [] j.kind = "submit"  -> <<"submit", j.target, j.revision>>
              [] OTHER              -> <<"none">>

\* job     the RQ job
\* ident   the identity generation it works under
\* snap    the campaign revision captured for a later invalidation
\* scan    the comments whose accounts it observes
\* batch   the comments it prepares
\* fault   the comments a runtime identity failure is charged to
\* next    the prepare generation it allocated
Idle == [pc |-> "idle", job |-> NoJob, ident |-> 0, snap |-> 0,
         scan |-> {}, batch |-> {}, fault |-> {}, next |-> 0]

Away == [pc |-> "away", seen |-> 0, pass |-> 0]
Outcome == {"prepared", "stopped", "runtime", "error", "reported"}

At(pc)   == work.pc = pc
Goto(pc) == work' = [work EXCEPT !.pc = pc]
Target   == work.job.target

\* The points at which a job holds the campaign, profile and video leases.
Leased == {"observe", "verify", "page", "fail", "close",
           "screen", "commit", "click", "clicked", "receipt", "children", "release"}

ExecutionInit ==
  /\ Init
  /\ queue = <<>> /\ accepted = {}
  /\ work = Idle
  /\ page = [a \in Assignment |-> Away]
  /\ orphaned = FALSE
  /\ handoff = {} /\ resuming = {}
  /\ clicks = [a \in Assignment |-> 0]
  /\ verdicts = [a \in Assignment |-> 0]
  /\ calls = 0 /\ deaths = 0

-------------------------------------------------------------------------------
(* Redis *)

\* _enqueue_once: an id that was ever accepted is never queued again.
Enqueue(j) ==
  IF JobId(j) \in accepted THEN UNCHANGED redis
  ELSE /\ queue' = Append(queue, j)
       /\ accepted' = accepted \cup {JobId(j)}

\* Hand generation g to RQ with the identity generation read just before, then
\* mark it accepted.
EnqueuePrepare(g) ==
  /\ Enqueue(PrepareJob(g, campaign.identity))
  /\ campaign' = [campaign EXCEPT !.marked = IF @ < g THEN g ELSE @]
  /\ UNCHANGED <<row, approval, receipt, reserved>>

LeasesExpire ==
  /\ orphaned /\ orphaned' = FALSE
  /\ UNCHANGED <<vars, redis, work, page, handoff, resuming, history>>

-------------------------------------------------------------------------------
(* Operators: HTTP handlers, concurrent with the worker and each other *)

Call == /\ calls < MaxCalls
        /\ calls' = calls + 1
        /\ UNCHANGED <<work, page, orphaned, clicks, deaths>>

\* A handler that must still allocate; one at a time is between its transaction
\* and the allocation.
Kick == /\ 0 \notin handoff
        /\ handoff' = handoff \cup {0}

\* approve_campaign, and resume_campaign from "paused"
QueueCampaign ==
  /\ campaign.status = "paused" => "resume" \in Events
  /\ TransitionCampaign(campaign.revision, "queued")
  /\ Call /\ Kick
  /\ UNCHANGED <<redis, resuming, verdicts>>

\* approve_campaign repeated with the revision that already queued the campaign
QueueCampaignAgain ==
  /\ "retry" \in Events
  /\ campaign.status = "queued"
  /\ Call /\ Kick
  /\ UNCHANGED <<vars, redis, resuming, verdicts>>

\* pause_campaign, cancel_campaign
StopCampaign ==
  /\ \/ "pause" \in Events /\ TransitionCampaign(campaign.revision, "paused")
     \/ "cancel" \in Events /\ TransitionCampaign(campaign.revision, "cancelled")
  /\ Call
  /\ UNCHANGED <<redis, handoff, resuming, verdicts>>

\* approve_submit: the approval is durable even if Redis does not answer.
ApproveSubmit(a) ==
  /\ CreateSubmitApproval(a, row[a].revision)
  /\ \/ Enqueue(SubmitJob(a, row[a].revision))
     \/ "redis" \in Events /\ UNCHANGED redis
  /\ Call
  /\ UNCHANGED <<handoff, resuming, verdicts>>

\* reject_submit accepts what its transition table lets pause: a comment that awaits its
\* click, one that is prepared, and (late) one that was clicked without being verified.
RejectSubmit(a) ==
  /\ (IF row[a].status = "published_unverified" THEN "late_reject" ELSE "reject") \in Events
  /\ RejectSubmitAndPauseDescendants(a, row[a].revision)
  /\ Call
  /\ UNCHANGED <<redis, handoff, resuming, verdicts>>

\* resolve_unverified
ResolveUnverified(a) ==
  /\ "resolve" \in Events
  /\ \/ /\ ResolvePublished(a, row[a].revision)
        /\ resuming' = resuming \cup {a}
        /\ UNCHANGED <<handoff, verdicts>>
     \/ /\ ResolveNotPublished(a, row[a].revision)
        /\ verdicts' = [verdicts EXCEPT ![a] = @ + 1]
        /\ Kick
        /\ UNCHANGED resuming
  /\ Call
  /\ UNCHANGED redis

\* service.resume_verified_children, the rest of the "published" verdict
ResumeChildren(a) ==
  /\ a \in resuming /\ resuming' = resuming \ {a}
  /\ ResumeVerifiedChildren(a)
  /\ IF ResumableChildren(a) # {} /\ campaign.status = "running"
     THEN Kick ELSE UNCHANGED handoff
  /\ UNCHANGED <<redis, work, page, orphaned, history>>

AllocateGeneration ==
  /\ 0 \in handoff
  /\ NextPrepareGeneration
  /\ handoff' = (handoff \ {0}) \cup {campaign.prepare + 1}
  /\ UNCHANGED <<redis, work, page, orphaned, resuming, history>>

EnqueueGeneration ==
  /\ \E g \in handoff \ {0} : EnqueuePrepare(g) /\ handoff' = handoff \ {g}
  /\ UNCHANGED <<work, page, orphaned, resuming, history>>

\* Redis does not answer, or the web process dies before the handler is through.
HandlerFails ==
  /\ "redis" \in Events
  /\ \/ \E g \in handoff : handoff' = handoff \ {g} /\ UNCHANGED resuming
     \/ \E a \in resuming : resuming' = resuming \ {a} /\ UNCHANGED handoff
  /\ UNCHANGED <<vars, redis, work, page, orphaned, history>>

Operator ==
  \/ QueueCampaign \/ QueueCampaignAgain \/ StopCampaign
  \/ \E a \in Assignment : ApproveSubmit(a) \/ RejectSubmit(a) \/ ResolveUnverified(a)

Handler == \/ AllocateGeneration \/ EnqueueGeneration
           \/ \E a \in Assignment : ResumeChildren(a)

-------------------------------------------------------------------------------
(* The worker's steps leave the handlers alone; these few frames say the rest. *)
unsent == <<handoff, resuming, verdicts, calls, deaths>>

\* A step that reads the store, or none, and only moves the job on.
JobOnly == UNCHANGED <<vars, redis, page, orphaned, clicks, unsent>>

\* A step whose one transaction is stated beside it.
JobWrites == UNCHANGED <<redis, page, orphaned, clicks, unsent>>

\* _identity_stop_from_error and _invalidate_preflight: a lost CAS is stale, a
\* generation of zero and a batch that is no longer active are refused.  The job
\* ends in every case.
Invalidate(affected) ==
  /\ IF work.ident >= 1 /\ IdentityCAS(work.snap, work.ident) /\ affected \cap Active # {}
     THEN InvalidateCampaignIdentity(work.snap, work.ident, affected)
     ELSE UNCHANGED vars
  /\ work' = Idle
  /\ JobWrites

Current == campaign.status = "running" /\ campaign.identity = work.ident

\* The next `batch_size` of S; their order (position) is abstracted.
Batches(S) ==
  {B \in SUBSET S : B # {} /\ (B = S \/ Cardinality(B) = BatchSize) /\ Cardinality(B) <= BatchSize}

-------------------------------------------------------------------------------
(* job_prepare_campaign *)

Stale(j) == campaign.prepare # j.generation \/ campaign.identity # j.identity

StartPrepare ==
  /\ At("idle") /\ queue # <<>> /\ Head(queue).kind = "prepare"
  /\ queue' = Tail(queue)
  /\ IF Stale(Head(queue)) \/ campaign.status \notin {"queued", "running"}
     THEN UNCHANGED <<vars, work>>
     ELSE /\ work' = [Idle EXCEPT !.pc = "preflight", !.job = Head(queue),
                                  !.ident = Head(queue).identity]
          /\ IF campaign.status = "queued"
             THEN TransitionCampaign(campaign.revision, "running") ELSE UNCHANGED vars
  /\ UNCHANGED <<accepted, page, orphaned, clicks, unsent>>

SkipPreflight ==
  /\ At("preflight") /\ ~PreflightRequired
  /\ Goto("plan") /\ JobOnly

\* preflight_campaign_identities up to the campaign lease: a lease still held by
\* a dead job makes the job stale.
BeginPreflight ==
  /\ At("preflight") /\ PreflightRequired
  /\ work' = IF campaign.identity # work.ident \/ orphaned THEN Idle
             ELSE [work EXCEPT !.pc = IF Active = {} THEN "frozen" ELSE "observe",
                               !.snap = campaign.revision, !.scan = Active]
  /\ JobOnly

ObserveIdentities ==
  /\ At("observe")
  /\ \/ /\ ~IdentityCAS(work.snap, work.ident)           \* stale
        /\ work' = Idle /\ JobOnly
     \/ \E obs \in [Active -> Account] :
          /\ Active = work.scan
          /\ \/ /\ FreezeCampaignIdentities(work.snap, work.ident, obs)
                /\ work' = [work EXCEPT !.pc = "frozen", !.ident = @ + 1]
                /\ JobWrites
             \/ /\ "observe" \in Events                   \* duplicate account
                /\ \E a, b \in Active :
                     /\ obs[a] = obs[b] /\ (a # b \/ obs[a] \in PublishedAccounts)
                     /\ Invalidate({a, b})
     \/ /\ "observe" \in Events \/ Active # work.scan      \* a window fails, or a row
        /\ \E batch \in Batches(work.scan) : Invalidate(batch)   \* was never observed

\* eligible_assignment_ids and the checks of prepare_batch before it opens.
PlanBatch ==
  /\ work.pc \in {"plan", "frozen"}
  /\ LET eligible == {a \in Assignment : Eligible(a)}
     IN  IF ~Current \/ (At("frozen") /\ campaign.prepare # work.job.generation) \/ eligible = {}
         THEN work' = Idle /\ UNCHANGED page
         ELSE \E batch \in Batches(eligible) :
                /\ work' = [work EXCEPT !.pc = "open", !.batch = batch,
                                        !.snap = campaign.revision]
                /\ page' = [a \in Assignment |->
                     IF a \in batch THEN [pc |-> "open", seen |-> row[a].revision, pass |-> 1]
                     ELSE Away]
  /\ UNCHANGED <<vars, redis, orphaned, clicks, unsent>>

\* gateway.open_many, then the identity of every window of the batch.
OpenBatch ==
  /\ At("open")
  /\ \/ /\ campaign.status = "running" /\ ~orphaned
        /\ Goto("verify") /\ JobOnly
     \/ /\ campaign.status # "running" /\ ~orphaned
        /\ work' = Idle /\ JobOnly                       \* invalid_state_transition
     \/ /\ orphaned \/ "open" \in Events
        /\ Invalidate(work.batch)

VerifyBatchIdentities ==
  /\ At("verify")
  /\ \/ /\ work' = [work EXCEPT !.pc = IF Current THEN "page" ELSE "close"]
     \/ /\ "page" \in Events
        /\ \E a \in work.batch : work' = [work EXCEPT !.pc = "close", !.fault = {a}]
  /\ JobOnly

-------------------------------------------------------------------------------
(* _prepare_one, for the comments of a batch concurrently.  `seen` is the      *)
(* revision of the row as the coroutine last read it.                          *)

Working(a, pcs) == At("page") /\ a \in work.batch /\ page[a].pc \in pcs

Page(a, pc)       == page' = [page EXCEPT ![a].pc = pc]
PageAt(a, pc, rev) == page' = [page EXCEPT ![a].pc = pc, ![a].seen = rev]

\* A step of one comment; the store part is stated beside it.
PageStep == UNCHANGED <<redis, work, orphaned, clicks, unsent>>

\* The transition is conditioned on the revision prepare_batch read.
OpenRow(a) ==
  /\ Working(a, {"open"})
  /\ IF row[a].revision = page[a].seen
     THEN UpdateAssignmentStatus(a, page[a].seen, "opening_profile") /\ Page(a, "enter")
     ELSE UNCHANGED vars /\ Page(a, "error")
  /\ PageStep

\* Move on from `from` if the row is still there, whatever its revision.
MoveOn(a, from, to) ==
  IF row[a].status = from
  THEN UpdateAssignmentStatus(a, row[a].revision, to) ELSE UNCHANGED vars

EnterPage(a) ==
  /\ Working(a, {"enter"})
  /\ MoveOn(a, "opening_profile", "locating_video") /\ Page(a, "panel")
  /\ PageStep

\* The comment panel is open.  A root keeps the revision read before its
\* transition to preparing_comment; a reply reads its row again afterwards.
LeavePanel(a) ==
  /\ Working(a, {"panel"})
  /\ IF Parent[a] = NoParent
     THEN /\ MoveOn(a, "locating_video", "preparing_comment")
          /\ PageAt(a, "input", row[a].revision)
     ELSE MoveOn(a, "locating_video", "locating_parent") /\ Page(a, "parent")
  /\ PageStep

\* The parent comment and its reply box are located; here too the revision kept
\* is the one read before the transition.
LocateParentComment(a) ==
  /\ Working(a, {"parent"})
  /\ IF VerifiedParent(a)
     THEN /\ MoveOn(a, "locating_parent", "preparing_comment")
          /\ PageAt(a, "input", row[a].revision)
     ELSE UNCHANGED vars /\ Page(a, "error")             \* parent_comment_not_found
  /\ PageStep

CanReserve(a) == /\ IdentityCurrent(a, work.ident)
                 /\ row[a].revision = page[a].seen
                 /\ row[a].status = "preparing_comment"

\* Fault: the text is typed without reserving the revision it is typed under.
TypeUnreserved(a) ==
  /\ Working(a, {"input"})
  /\ IF CanReserve(a) THEN PageAt(a, "typed", page[a].seen) ELSE Page(a, "stopped")
  /\ UNCHANGED vars /\ PageStep

\* begin_comment_input, and the typing it protects; a lost CAS stops the batch.
ReserveAndType(a) ==
  /\ Working(a, {"input"})
  /\ IF CanReserve(a)
     THEN /\ BeginCommentInput(a, page[a].seen, work.ident)
          /\ PageAt(a, "typed", page[a].seen + 1)
     ELSE UNCHANGED vars /\ Page(a, "stopped")
  /\ PageStep

\* Fault: one pass too many.
RetryPageOnceMore(a) ==
  /\ "page" \in Events
  /\ Working(a, {"panel", "parent", "input", "typed"})
  /\ page[a].pass <= Retries
  /\ page' = [page EXCEPT ![a].pc = "enter", ![a].pass = @ + 1]
  /\ UNCHANGED vars /\ PageStep

\* A panel or input that is not ready, or any exception, is tried again.
RetryPage(a) ==
  /\ "page" \in Events
  /\ Working(a, {"panel", "parent", "input", "typed"})
  /\ page[a].pass < Retries
  /\ page' = [page EXCEPT ![a].pc = "enter", ![a].pass = @ + 1]
  /\ UNCHANGED vars /\ PageStep

\* The last pass failed, or the error is not one to retry.
GiveUpPage(a) ==
  /\ "page" \in Events
  /\ Working(a, {"panel", "parent", "input", "typed"})
  /\ \E outcome \in {"runtime", "error"} : Page(a, outcome)
  /\ UNCHANGED vars /\ PageStep

\* The end of _prepare_one: conditioned on the revision the input reserved.
OfferForApproval(a) ==
  /\ Working(a, {"typed"})
  /\ IF campaign.status = "running" /\ row[a].revision = page[a].seen
     THEN /\ UpdateAssignmentStatus(a, page[a].seen, "awaiting_step_approval")
          /\ Page(a, "prepared")
     ELSE UNCHANGED vars /\ Page(a, "error")
  /\ PageStep

PrepareOne(a) ==
  \/ OpenRow(a) \/ EnterPage(a) \/ LeavePanel(a) \/ LocateParentComment(a)
  \/ ReserveAndType(a) \/ RetryPage(a) \/ GiveUpPage(a) \/ OfferForApproval(a)

-------------------------------------------------------------------------------
(* The end of prepare_batch *)

Some(outcome) == \E a \in work.batch : page[a].pc = outcome

\* A stopped comment wins over a runtime failure, and that over plain errors.
GatherOutcomes ==
  /\ At("page") /\ \A a \in work.batch : page[a].pc \in Outcome
  /\ work' = CASE Some("stopped") -> [work EXCEPT !.pc = "close"]
               [] ~Some("stopped") /\ Some("runtime") ->
                    [work EXCEPT !.pc = "close", !.fault = work.batch]
               [] OTHER -> [work EXCEPT !.pc = "fail"]
  /\ JobOnly

\* _fail_prepare; a move its table does not allow ends the job at once.
FailPrepare(a) ==
  /\ At("fail") /\ a \in work.batch /\ page[a].pc = "error"
  /\ LET target == IF campaign.status = "paused" THEN "paused" ELSE "failed"
     IN  CASE row[a].status \in {"failed", "paused"} ->
                UNCHANGED <<vars, work>> /\ Page(a, "reported")
           [] row[a].status \notin {"failed", "paused"} /\ AssignmentMove(row[a].status, target) ->
                /\ FailAssignmentAndPauseDescendants(a, row[a].revision, target)
                /\ Page(a, "reported") /\ UNCHANGED work
           [] OTHER -> work' = Idle /\ UNCHANGED <<vars, page>>
  /\ UNCHANGED <<redis, orphaned, clicks, unsent>>

\* Fault: the batch is closed as soon as one failure is reported.
FirstFailureReported ==
  /\ At("fail") /\ (Some("error") => Some("reported"))
  /\ Goto("close") /\ JobOnly

FailuresReported ==
  /\ At("fail") /\ ~Some("error")
  /\ Goto("close") /\ JobOnly

\* Only a confirmed close without a runtime failure starts the next batch.
CloseBatch ==
  /\ At("close")
  /\ \/ work.fault = {} /\ Goto("kick") /\ JobOnly
     \/ work.fault # {} /\ Invalidate(work.fault)
     \/ "close" \in Events /\ Invalidate(work.batch)

\* _enqueue_next_prepare_generation
KickNextBatch ==
  /\ At("kick")
  /\ NextPrepareGeneration
  /\ work' = [work EXCEPT !.pc = "enqueue", !.next = campaign.prepare + 1]
  /\ JobWrites

EnqueueNextBatch ==
  /\ At("enqueue")
  /\ EnqueuePrepare(work.next)
  /\ work' = Idle
  /\ UNCHANGED <<page, orphaned, clicks, unsent>>

Prepare ==
  \/ StartPrepare \/ SkipPreflight \/ BeginPreflight \/ ObserveIdentities
  \/ PlanBatch \/ OpenBatch \/ VerifyBatchIdentities
  \/ \E a \in Assignment : PrepareOne(a) \/ FailPrepare(a)
  \/ GatherOutcomes \/ FailuresReported \/ CloseBatch
  \/ KickNextBatch \/ EnqueueNextBatch

-------------------------------------------------------------------------------
(* submit_assignment.  A raise before the click that finds the approved revision *)
(* still there spends its approval.                                              *)

Approved(j) == /\ row[j.target].revision = j.revision
               /\ row[j.target].status = "awaiting_step_approval"

StartSubmit ==
  /\ At("idle") /\ queue # <<>> /\ Head(queue).kind = "submit"
  /\ queue' = Tail(queue)
  /\ LET j == Head(queue)
     IN  IF /\ Approved(j) /\ ApprovalUsable(j.target)
            /\ campaign.status = "running" /\ Bound(j.target)
            /\ Parent[j.target] = NoParent \/ VerifiedParent(j.target)
         THEN work' = [Idle EXCEPT !.pc = "profile", !.job = j,
                                   !.ident = campaign.identity, !.snap = campaign.revision]
         ELSE UNCHANGED work
  /\ UNCHANGED <<vars, accepted, page, orphaned, clicks, unsent>>

\* Fault: the approval outlives the attempt.
RaiseKeepsApproval == UNCHANGED vars /\ work' = Idle /\ JobWrites

RaiseBeforeClick ==
  /\ IF Approved(work.job) THEN InvalidateSubmitApproval(Target, work.job.revision)
     ELSE UNCHANGED vars
  /\ work' = Idle
  /\ JobWrites

\* The video lease is taken before the try: if Redis is gone the job raises, and nothing
\* spends the approval, whose job id is spent.
OpenProfileToSubmit ==
  /\ At("profile")
  /\ \/ /\ campaign.status = "running" /\ ~orphaned
        /\ Goto("screen") /\ JobOnly
     \/ "redis" \in Events /\ work' = Idle /\ JobOnly
     \/ /\ campaign.status # "running" /\ ~orphaned
        /\ RaiseBeforeClick                              \* invalid_state_transition
     \/ /\ orphaned \/ "open" \in Events
        /\ Invalidate({Target})

\* The account, the page and the input are verified again; begin_comment_input
\* only reads a row that awaits approval, and a lost CAS is stale.
ReadScreen ==
  /\ At("screen")
  /\ \/ /\ Goto(IF IdentityCurrent(Target, work.ident) /\ row[Target].status = "awaiting_step_approval"
                THEN "commit" ELSE "release")
        /\ JobOnly
     \/ "page" \in Events /\ RaiseBeforeClick
     \/ "page" \in Events /\ work' = [work EXCEPT !.pc = "release", !.fault = {Target}] /\ JobOnly

CanSubmit == /\ IdentityCurrent(Target, work.ident)
             /\ Approved(work.job)
             /\ ApprovalUsable(Target)

CommitSubmit ==
  /\ At("commit")
  /\ \/ /\ CanSubmit
        /\ BeginSubmitting(Target, work.job.revision, work.ident)
        /\ Goto("click") /\ JobWrites
     \/ ~CanSubmit /\ Goto("release") /\ JobOnly         \* stale

\* From here on an exception means an uncertain publication.
Click ==
  /\ At("click")
  /\ clicks' = [clicks EXCEPT ![Target] = @ + 1]
  /\ Goto("clicked")
  /\ UNCHANGED <<vars, redis, page, orphaned, unsent>>

VerifyClick ==
  /\ At("clicked")
  /\ UpdateAssignmentStatus(Target, work.job.revision + 1, "verifying_receipt")
  /\ Goto("receipt") /\ JobWrites

\* An operator answered for an earlier click of the comment while this one was being
\* verified: the row has moved, no outcome can be saved and the job raises.
OutcomeRefused == Target \notin Interrupted /\ work' = Idle /\ JobOnly

SaveOutcome ==
  /\ At("receipt")
  /\ \/ \E target \in {"published_verified", "published_unverified"} :
          /\ SaveReceiptAndTransition(Target, row[Target].revision, target, row[Target].account)
          /\ Goto(IF target = "published_verified" THEN "children" ELSE "release")
          /\ JobWrites
     \/ OutcomeRefused

SaveUncertain ==
  /\ work.pc \in {"clicked", "receipt"}
  /\ "page" \in Events
  /\ SaveReceiptAndTransition(Target, row[Target].revision, "published_unverified",
                              row[Target].account)
  /\ Goto("release") /\ JobWrites

ResumeRepliesAfterSubmit ==
  /\ At("children")
  /\ ResumeVerifiedChildren(Target)
  /\ Goto("release") /\ JobWrites

\* Fault: a verified comment ends its job like any other.
ReleaseWithoutKick ==
  /\ At("release")
  /\ \/ work.fault = {} /\ work' = Idle /\ JobOnly
     \/ work.fault # {} /\ Invalidate(work.fault)
     \/ "close" \in Events /\ Invalidate(Active)

\* The window is closed; a verified comment starts the next batch.  A window that
\* does not close is charged to every comment not yet final.
ReleaseSubmit ==
  /\ At("release")
  /\ \/ /\ work.fault = {}
        /\ IF row[Target].status = "published_verified" THEN Goto("kick") ELSE work' = Idle
        /\ JobOnly
     \/ work.fault # {} /\ Invalidate(work.fault)
     \/ "close" \in Events /\ Invalidate(Active)

Submitting ==
  \/ StartSubmit \/ OpenProfileToSubmit \/ ReadScreen \/ CommitSubmit \/ Click
  \/ VerifyClick \/ SaveOutcome \/ SaveUncertain
  \/ ResumeRepliesAfterSubmit \/ ReleaseSubmit

-------------------------------------------------------------------------------
(* Failures of the worker itself *)

\* An exception the job does not handle: RQ marks it failed, its leases are
\* released and the worker takes the next job.
JobRaises ==
  /\ "exception" \in Events
  /\ work.pc \in {"observe", "verify", "children", "kick", "enqueue"}
  /\ work' = Idle /\ JobOnly

\* The process of the job is killed; the worker that spawned it lives on.
JobDies ==
  /\ "job_death" \in Events /\ deaths < MaxDeaths /\ deaths' = deaths + 1
  /\ work.pc \notin {"idle", "rescan"}
  /\ orphaned' = (orphaned \/ work.pc \in Leased)
  /\ work' = Idle
  /\ UNCHANGED <<vars, redis, page, clicks, handoff, resuming, verdicts, calls>>

\* The worker process dies and is started again: serve first recovers every
\* interrupted submission.
WorkerRestarts ==
  /\ "restart" \in Events /\ deaths < MaxDeaths /\ deaths' = deaths + 1
  /\ orphaned' = (orphaned \/ work.pc \in Leased)
  /\ work' = [Idle EXCEPT !.pc = "rescan", !.job = work.job]
  /\ ReconcileCampaignState
  /\ UNCHANGED <<redis, page, clicks, handoff, resuming, verdicts, calls>>

Queued(g) == \E i \in DOMAIN queue : JobId(queue[i]) = <<"prepare", g>>

\* The scan of serve: an unmarked generation is enqueued; a marked one is
\* replaced only if RQ has lost or finished its job.  The job that died with the
\* worker may still count as started.
RescanAfterRestart ==
  /\ At("rescan")
  /\ IF \/ campaign.status \notin {"queued", "running"}
        \/ ~PreflightRequired /\ \A a \in Assignment : ~Eligible(a)
        \/ campaign.prepare < 1
     THEN work' = Idle /\ JobOnly
     ELSE IF campaign.marked < campaign.prepare
     THEN /\ EnqueuePrepare(campaign.prepare)
          /\ work' = Idle
          /\ UNCHANGED <<page, orphaned, clicks, unsent>>
     ELSE /\ \/ ~Queued(campaign.prepare) /\ Goto("kick")
             \/ /\ \/ Queued(campaign.prepare)
                   \/ JobId(work.job) = <<"prepare", campaign.prepare>>
                /\ work' = Idle
          /\ JobOnly

Failure == JobRaises \/ JobDies \/ WorkerRestarts \/ HandlerFails

Worker == Prepare \/ Submitting \/ RescanAfterRestart

ExecutionNext == Worker \/ Operator \/ Handler \/ Failure \/ LeasesExpire

\* The worker polls its queue and a job runs until it ends; a handler runs to its
\* end; a lease expires.  Operators and failures are never obliged to happen.
Execution == /\ ExecutionInit /\ [][ExecutionNext]_execVars
             /\ WF_execVars(Worker) /\ WF_execVars(Handler) /\ WF_execVars(LeasesExpire)

-------------------------------------------------------------------------------
(* What the processes promise together.                                        *)

JobPoint == {"idle", "rescan", "preflight", "observe", "frozen", "plan", "open", "verify",
            "page", "fail", "close", "kick", "enqueue",
            "profile", "screen", "commit", "click", "clicked", "receipt", "children", "release"}

\* Every job in Redis carries what its entry point insists on (jobs.py), and the
\* worker is where its job can be: a batch within the batch size, a submission only
\* of a submit job, a generation it has allocated before it hands it on.
ExecutionTypeOK ==
  /\ \A i \in DOMAIN queue :
       \/ queue[i].kind = "prepare" /\ queue[i].generation >= 1 /\ queue[i].identity >= 0
       \/ queue[i].kind = "submit" /\ queue[i].target \in Assignment /\ queue[i].revision >= 1
  /\ work.pc \in JobPoint
  /\ work.batch \subseteq Assignment /\ Cardinality(work.batch) <= BatchSize
  /\ work.fault \subseteq Assignment
  /\ At("enqueue") => work.next \in 1..campaign.prepare
  /\ work.pc \in {"page", "fail"} => work.batch # {}
  /\ work.pc \in {"profile", "screen", "commit", "click", "clicked", "receipt",
                   "children", "release"} => work.job.kind = "submit"
  /\ \A a \in Assignment :
       /\ page[a].pc \in Outcome \cup {"away", "open", "enter", "panel", "parent", "input", "typed"}
       /\ page[a].pass \in 0..Retries
  /\ handoff \subseteq 0..campaign.prepare /\ resuming \subseteq Assignment
  /\ orphaned \in BOOLEAN

\* An uncertain submit is never replayed: a comment is clicked a second time only
\* after an operator said that the first click did not publish it, whatever
\* exceptions, lost leases, identity changes and worker restarts came between.
NoReplay == \A a \in Assignment : clicks[a] <= 1 + verdicts[a]

\* The click happens on what was approved: although pauses, rejections and other
\* handlers run between the commit of submit_assignment and its click, the row is
\* still the one the approval was given for, under the identity it was checked
\* with, and its parent comment is still verified.
ClickIsApproved ==
  At("click") =>
    /\ row[Target].status = "submitting"
    /\ row[Target].revision = work.job.revision + 1
    /\ row[Target].identity = work.ident /\ Bound(Target)
    /\ Parent[Target] # NoParent => VerifiedParent(Target)

\* No comment of a batch is left half prepared: when the next batch is started, each
\* one awaits approval or was taken out of preparation, by the job or an operator,
\* unless the whole batch was stopped.
NoCommentLeftBehind ==
  At("kick") /\ work.job.kind = "prepare" /\ work.fault = {} /\ ~Some("stopped") =>
    \A a \in work.batch : row[a].status \notin PreparingStatus

\* As long as Redis answers, an approval whose submit job RQ has accepted is settled: it is
\* spent by a click, or invalidated, by every way the job can end while the campaign is not
\* stopped.  (A job that finds Redis gone leaves its approval for an operator to reject.)
ApprovedIsSettled ==
  \A a \in Assignment :
    ApprovalUsable(a) /\ JobId(SubmitJob(a, row[a].revision)) \in accepted ~> ~ApprovalUsable(a)

\* No wakeup is lost: a comment that may be prepared in a running campaign is taken
\* by some prepare generation, whoever made it eligible (a submit job, an operator's
\* verdict) and whatever older generations are still queued.
EligibleIsTaken ==
  \A a \in Assignment :
    Eligible(a) /\ campaign.status = "running" ~> ~(Eligible(a) /\ campaign.status = "running")

\* The worker's processes keep their state well-typed and click only what was approved.
ExecutionSafe == ExecutionTypeOK /\ ClickIsApproved
===============================================================================
