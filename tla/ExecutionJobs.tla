------------------------------ MODULE ExecutionJobs ------------------------------
(* Execution V2 (src/execution_v2): jobs that run a strategy in AdsPower browsers, batch  *)
(* after batch, beside pickers, validations and calibrations that use a browser of their  *)
(* own. All coroutines share one event loop: what one does between two awaits is a step.  *)
(* Jobs and their rows are in SQLite and browsers outlive the process; leases, visits and *)
(* coroutines do not. Within a batch the order of the profiles is left open.              *)
EXTENDS Naturals, FiniteSets

CONSTANTS ExJob, Profile, Visitor, BatchSizes, Nobody, MaxExDeaths, MaxClosers

Kind == {"picker", "validate", "calibrate"}

\* The ids of jobs are none of those that the other owners of a browser have.
ASSUME ExecutionAssumption ==
  /\ BatchSizes \subseteq Nat \ {0} /\ MaxExDeaths \in Nat /\ MaxClosers \in Nat
  /\ Nobody \notin ExJob \cup (Kind \X Profile)
  /\ \A j \in ExJob : j \notin Kind \X Profile

VARIABLES
  job,      \* execution_jobs: status, cancel_requested, profiles, batch_size
  row,      \* execution_profiles.status; "working" stands for those between queued and final
  work,     \* the coroutine of a job: starting, running or recovering it
  held,     \* _profile_leases
  visit,    \* a picker, validation or calibration and the calls that close it
  browser,  \* who started the browser of a profile that is running
  ran,      \* history: how often the strategy was begun for a job's profile
  up,       \* the service: up, down, recovering jobs, or unable to do so
  deaths

jobVars == <<job, row, work, held, visit, browser, ran, up, deaths>>

Owner == ExJob \cup (Kind \X Profile)
Final == {"succeeded", "failed"}
RowStatus == {"queued", "working", "cleanup_failed"} \cup Final
TerminalJob == {"completed", "cancelled", "cleanup_blocked"}

NoJob == [status |-> "none", cancel |-> FALSE, profiles |-> {}, size |-> 1]
NoWork == [pc |-> "none", done |-> {}, batch |-> {}, started |-> {}, bound |-> {},
           opening |-> {}, connecting |-> {},  \* what an answer is awaited for: one profile
           record |-> [p \in Profile |-> "none"], cleaned |-> {}, blocked |-> FALSE]
NoVisit == [pc |-> "none", kind |-> "picker", profile |-> Nobody, closers |-> 0]

JobsTypeOK ==
  /\ \A j \in ExJob :
       /\ job[j].status \in {"none", "queued", "running"} \cup TerminalJob
       /\ job[j].cancel \in BOOLEAN /\ job[j].profiles \subseteq Profile
       /\ row[j] \in [Profile -> RowStatus]
       /\ work[j].pc \in {"none", "resolving", "submitted", "batches", "start", "execute",
                          "clean", "raised", "recover"}
       /\ work[j].record \in [Profile -> {"none"} \cup Final]
       /\ work[j].started \subseteq work[j].batch /\ work[j].bound \subseteq work[j].started
       /\ work[j].opening \cup work[j].connecting \subseteq work[j].started \ work[j].bound
       /\ work[j].pc # "recover" => work[j].cleaned \subseteq work[j].started
  /\ held \in [Profile -> Owner \cup {Nobody}] /\ browser \in [Profile -> Owner \cup {Nobody}]
  /\ \A v \in Visitor : visit[v].pc \in {"none", "held", "open", "closing"} /\ visit[v].closers \in 0..MaxClosers
  /\ ran \in [ExJob -> [Profile -> 0..2]]
  /\ up \in {"down", "recovering", "up", "failed"} /\ deaths \in 0..MaxExDeaths

JobsInit ==
  /\ job = [j \in ExJob |-> NoJob] /\ row = [j \in ExJob |-> [p \in Profile |-> "queued"]]
  /\ work = [j \in ExJob |-> NoWork] /\ visit = [v \in Visitor |-> NoVisit]
  /\ held = [p \in Profile |-> Nobody] /\ browser = [p \in Profile |-> Nobody]
  /\ ran = [j \in ExJob |-> [p \in Profile |-> 0]] /\ up = "up" /\ deaths = 0

ServiceUp == up # "down"
\* Fault: a queued job is not thought of.
RunningOnly == {j \in ExJob : job[j].status = "running"}

Recoverable == {j \in ExJob : job[j].status \in {"queued", "running"}}

Conflict(ps, o) == \E p \in ps : held[p] \notin {Nobody, o}
\* Fault: profiles are taken one by one until one is not free.
LeasedInPart(ps, o) == [p \in Profile |-> IF p \in ps /\ held[p] = Nobody THEN o ELSE held[p]]

Leased(ps, o) ==
  IF Conflict(ps, o) THEN held ELSE [p \in Profile |-> IF p \in ps THEN o ELSE held[p]]
Released(ps, o) == [p \in Profile |-> IF p \in ps /\ held[p] = o THEN Nobody ELSE held[p]]

\* What AdsPower makes of a start that o asks for: it may answer with an error and yet have
\* opened the browser.
Opens(p, o) == {[browser EXCEPT ![p] = o], browser}

\* stop_browser and get_browser_active, three times at most: the answer is TRUE only when
\* the browser was seen to be inactive.
StopAndConfirm(p) ==
  {<<TRUE, [browser EXCEPT ![p] = Nobody]>>, <<FALSE, browser>>, <<FALSE, [browser EXCEPT ![p] = Nobody]>>}

--------------------------------------------------------------------------------
(* Starting a job *)

CallStartJob(j) ==
  /\ ServiceUp /\ job[j].status = "none" /\ work[j].pc = "none"
  /\ work' = [work EXCEPT ![j].pc = "resolving"]
  /\ UNCHANGED <<job, row, held, visit, browser, ran, up, deaths>>

\* The profiles are resolved, after the recovery of jobs if need be; the rest has no await.
StartJob(j, ps, n) ==
  /\ up = "up" /\ work[j].pc = "resolving"
  /\ IF Recoverable # {}
     THEN work' = [work EXCEPT ![j] = NoWork] /\ UNCHANGED <<job, held>>
     ELSE /\ held' = Leased(ps, j)
          /\ IF Conflict(ps, j)
             THEN work' = [work EXCEPT ![j] = NoWork] /\ UNCHANGED job
             ELSE /\ work' = [work EXCEPT ![j].pc = "submitted"]
                  /\ job' = [job EXCEPT ![j] = [status |-> "queued", cancel |-> FALSE, profiles |-> ps, size |-> n]]
  /\ UNCHANGED <<row, visit, browser, ran, up, deaths>>

\* The database refuses the job, or the recovery of jobs has failed.
StartFails(j) ==
  /\ up \in {"up", "failed"} /\ work[j].pc = "resolving"
  /\ work' = [work EXCEPT ![j] = NoWork]
  /\ UNCHANGED <<job, row, held, visit, browser, ran, up, deaths>>

\* Of an ended job nobody reads the flag any more.
Cancel(j) ==
  /\ ServiceUp /\ j \in Recoverable /\ ~job[j].cancel
  /\ job' = [job EXCEPT ![j].cancel = TRUE]
  /\ UNCHANGED <<row, work, held, visit, browser, ran, up, deaths>>

--------------------------------------------------------------------------------
(* Running it *)

Claim(j) ==
  /\ work[j].pc = "submitted" /\ job[j].status = "queued"
  /\ job' = [job EXCEPT ![j].status = "running"] /\ work' = [work EXCEPT ![j].pc = "batches"]
  /\ UNCHANGED <<row, held, visit, browser, ran, up, deaths>>

\* _finish, and the end of _run_job in the same breath
JobEnds(j, status) ==
  /\ job' = [job EXCEPT ![j].status = status] /\ work' = [work EXCEPT ![j] = NoWork]
  /\ held' = Released(job[j].profiles, j)

\* Fault: a profile in which the strategy failed has its turn again.
Unsuccessful(j) == {p \in job[j].profiles : row[j][p] # "succeeded"}

Remaining(j) == job[j].profiles \ work[j].done
\* Fault: a job that ran all its batches is completed, cancelled or not.
EndOfLastBatch(j) == IF job[j].cancel /\ Remaining(j) # {} THEN "cancelled" ELSE "completed"

EndOfBatches(j) == IF job[j].cancel THEN "cancelled" ELSE "completed"

NextBatch(j) ==
  /\ work[j].pc = "batches"
  /\ IF job[j].cancel \/ Remaining(j) = {}
     THEN JobEnds(j, EndOfBatches(j))
     ELSE /\ \E b \in SUBSET Remaining(j) :
               /\ b # {} /\ Cardinality(b) <= job[j].size
               /\ Cardinality(b) = job[j].size \/ b = Remaining(j)
               /\ work' = [work EXCEPT ![j] = [NoWork EXCEPT !.pc = "start", !.done = @ \cup work[j].done, !.batch = b]]
          /\ UNCHANGED <<job, held>>
  /\ UNCHANGED <<row, visit, browser, ran, up, deaths>>

\* Fault: only once AdsPower has answered.
TrackedWhenAnswered(j, p, answer) ==
  IF answer = "yes" THEN work[j].started \cup {p} ELSE work[j].started

\* A profile counts as started from when AdsPower is asked, before its answer is known.
Tracked(j, p, answer) ==
  IF answer = "awaited" THEN work[j].started \cup {p} ELSE work[j].started

Waits(j) == work[j].opening \cup work[j].connecting # {}

\* _start_and_bind_batch looks whether the job was cancelled, and asks AdsPower to open the
\* next profile.
StartProfile(j) ==
  /\ work[j].pc = "start" /\ ~Waits(j) /\ ~job[j].cancel
  /\ \E p \in work[j].batch \ work[j].started :
       /\ row' = [row EXCEPT ![j][p] = "working"]
       /\ work' = [work EXCEPT ![j].started = Tracked(j, p, "awaited"), ![j].opening = {p}]
  /\ UNCHANGED <<job, held, visit, browser, ran, up, deaths>>

\* AdsPower has answered, whatever became of the job meanwhile: the browser is connected
\* next, or the profile has failed.
StartAnswered(j) ==
  /\ \E p \in work[j].opening :
       \/ /\ browser' = [browser EXCEPT ![p] = j] /\ UNCHANGED row
          /\ work' = [work EXCEPT ![j].started = Tracked(j, p, "yes"),
                                  ![j].opening = {}, ![j].connecting = {p}]
       \/ /\ browser' \in Opens(p, j) /\ row' = [row EXCEPT ![j][p] = "failed"]
          /\ work' = [work EXCEPT ![j].opening = {}, ![j].record[p] = "failed"]
  /\ UNCHANGED <<job, held, visit, ran, up, deaths>>

Connect(j) ==
  /\ \E p \in work[j].connecting :
       \/ /\ work' = [work EXCEPT ![j].connecting = {}, ![j].bound = @ \cup {p}]
          /\ UNCHANGED row
       \/ /\ work' = [work EXCEPT ![j].connecting = {}, ![j].record[p] = "failed"]
          /\ row' = [row EXCEPT ![j][p] = "failed"]
  /\ UNCHANGED <<job, held, visit, browser, ran, up, deaths>>

\* The windows are tiled, or all bound profiles fail; the strategy begins in each.
TileAndExecute(j) ==
  /\ work[j].pc = "start" /\ ~Waits(j) /\ (job[j].cancel \/ work[j].started = work[j].batch)
  /\ \/ /\ work' = [work EXCEPT ![j].pc = "execute"]
        /\ ran' = [ran EXCEPT ![j] = [p \in Profile |-> IF p \in work[j].bound THEN @[p] + 1 ELSE @[p]]]
        /\ UNCHANGED row
     \/ /\ work' = [work EXCEPT ![j].pc = "clean",
                                ![j].record = [p \in Profile |-> IF p \in work[j].bound THEN "failed" ELSE @[p]]]
        /\ row' = [row EXCEPT ![j] = [p \in Profile |-> IF p \in work[j].bound THEN "failed" ELSE @[p]]]
        /\ UNCHANGED ran
  /\ UNCHANGED <<job, held, visit, browser, up, deaths>>

\* All of the batch have ended, each well or not.
Executed(j) ==
  /\ work[j].pc = "execute"
  /\ \E good \in SUBSET work[j].bound :
       LET outcome(p, old) == IF p \in good THEN "succeeded" ELSE IF p \in work[j].bound THEN "failed" ELSE old IN
       /\ work' = [work EXCEPT ![j].pc = "clean", ![j].record = [p \in Profile |-> outcome(p, @[p])]]
       /\ row' = [row EXCEPT ![j] = [p \in Profile |-> outcome(p, @[p])]]
  /\ UNCHANGED <<job, held, visit, browser, ran, up, deaths>>

\* Fault: only those whose browser was started get one.
UnrecordedStarted(j) == {p \in work[j].started : work[j].record[p] = "none"}

\* Profiles that get a record when something unforeseen is raised in their batch.
Unrecorded(j) == {p \in work[j].batch : work[j].record[p] = "none"}

\* _mark_unhandled_batch_error, which may itself fail: then the error goes on to _run_job.
BatchRaises(j) ==
  /\ work[j].pc \in {"start", "execute"} /\ work[j].opening = {}
  /\ \/ /\ work' = [work EXCEPT ![j].pc = "clean", ![j].connecting = {},
                                ![j].record = [p \in Profile |-> IF p \in Unrecorded(j) THEN "failed" ELSE @[p]]]
        /\ row' = [row EXCEPT ![j] = [p \in Profile |-> IF p \in Unrecorded(j) THEN "failed" ELSE @[p]]]
     \/ /\ work' = [work EXCEPT ![j].pc = "raised", ![j].connecting = {}] /\ UNCHANGED row
  /\ UNCHANGED <<job, held, visit, browser, ran, up, deaths>>

\* _cleanup_batch for one profile, also on the way out of an error.
CleanProfile(j) ==
  /\ work[j].pc \in {"clean", "raised"}
  /\ \E p \in work[j].started \ work[j].cleaned : \E r \in StopAndConfirm(p) :
       /\ browser' = r[2]
       /\ row' = [row EXCEPT ![j][p] = IF ~r[1] THEN "cleanup_failed"
                                       ELSE IF work[j].record[p] = "none" THEN "failed" ELSE work[j].record[p]]
       /\ work' = [work EXCEPT ![j].cleaned = @ \cup {p}, ![j].blocked = @ \/ ~r[1]]
  /\ UNCHANGED <<job, held, visit, ran, up, deaths>>

\* The database refuses a row in the cleanup: what is left of it is not done.
CleanupRaises(j) ==
  /\ work[j].pc \in {"clean", "raised"} /\ work[j].started # work[j].cleaned
  /\ work' = [work EXCEPT ![j].pc = "raised", ![j].cleaned = work[j].started]
  /\ \E p \in work[j].started \ work[j].cleaned :
       /\ row' \in {row, [row EXCEPT ![j][p] = "working"]}
       /\ browser' \in {browser, [browser EXCEPT ![p] = Nobody]}
  /\ UNCHANGED <<job, held, visit, ran, up, deaths>>

BatchEnds(j) ==
  /\ work[j].pc = "clean" /\ work[j].cleaned = work[j].started
  /\ IF work[j].blocked THEN JobEnds(j, "cleanup_blocked")
     ELSE IF job[j].cancel THEN JobEnds(j, "cancelled")
     ELSE work' = [work EXCEPT ![j].pc = "batches", ![j].done = @ \cup work[j].batch] /\ UNCHANGED <<job, held>>
  /\ UNCHANGED <<row, visit, browser, ran, up, deaths>>

\* The database fails as the job is to be claimed, between two batches, or as it is to end.
EndRaises(j) ==
  /\ work[j].pc \in {"submitted", "batches", "clean"} /\ work[j].cleaned = work[j].started
  /\ work' = [work EXCEPT ![j] = [NoWork EXCEPT !.pc = "raised",
                                    !.done = work[j].done \cup work[j].batch]]
  /\ UNCHANGED <<job, row, held, visit, browser, ran, up, deaths>>

\* _run_job after an error: no row is left unsettled.
RunFails(j) ==
  /\ work[j].pc = "raised" /\ work[j].cleaned = work[j].started
  /\ row' = [row EXCEPT ![j] = [p \in Profile |->
       IF p \in job[j].profiles /\ @[p] \notin Final \cup {"cleanup_failed"} THEN "failed" ELSE @[p]]]
  /\ JobEnds(j, "cleanup_blocked")
  /\ UNCHANGED <<visit, browser, ran, up, deaths>>

\* The database refuses that, too: the leases are given back, and the job stays active.
RunIsLost(j) ==
  /\ work[j].pc = "raised" /\ work[j].cleaned = work[j].started
  /\ work' = [work EXCEPT ![j] = NoWork] /\ held' = Released(job[j].profiles, j)
  /\ UNCHANGED <<job, row, visit, browser, ran, up, deaths>>

--------------------------------------------------------------------------------
(* Pickers, validations and calibrations: each takes one profile *)

\* The owner of a picker or validation is named after the profile, that of a calibration after
\* its session: there is one of these at most.
BeginVisit(v, k, p) ==
  /\ up = "up" /\ visit[v].pc = "none"
  /\ k = "calibrate" => \A w \in Visitor : visit[w].pc = "none" \/ visit[w].kind # k
  /\ ~Conflict({p}, <<k, p>>) /\ held' = Leased({p}, <<k, p>>)
  /\ visit' = [visit EXCEPT ![v] = [pc |-> "held", kind |-> k, profile |-> p, closers |-> 0]]
  /\ UNCHANGED <<job, row, work, browser, ran, up, deaths>>

VisitOwner(v) == <<visit[v].kind, visit[v].profile>>

\* The browser is started and connected. A start that AdsPower answers with an error is not
\* undone; a later error is.
OpenVisit(v) ==
  /\ ServiceUp /\ visit[v].pc = "held"
  /\ \/ /\ browser' = [browser EXCEPT ![visit[v].profile] = VisitOwner(v)]
        /\ visit' = [visit EXCEPT ![v].pc = "open"] /\ UNCHANGED held
     \/ /\ browser' \in Opens(visit[v].profile, VisitOwner(v)) \cup {r[2] : r \in StopAndConfirm(visit[v].profile)}
        /\ visit' = [visit EXCEPT ![v] = NoVisit]
        /\ held' = Released({visit[v].profile}, VisitOwner(v))
  /\ UNCHANGED <<job, row, work, ran, up, deaths>>

\* A validation or calibration ends by itself.
EndVisit(v) ==
  /\ ServiceUp /\ visit[v].pc = "open" /\ visit[v].kind # "picker"
  /\ \E r \in StopAndConfirm(visit[v].profile) : browser' = r[2]
  /\ visit' = [visit EXCEPT ![v] = NoVisit] /\ held' = Released({visit[v].profile}, VisitOwner(v))
  /\ UNCHANGED <<job, row, work, ran, up, deaths>>

\* finish_picker or cancel_picker: the record is looked up, and dropped only at the end.
CallClose(v) ==
  /\ ServiceUp /\ visit[v].pc = "open" /\ visit[v].kind = "picker" /\ visit[v].closers < MaxClosers
  /\ visit' = [visit EXCEPT ![v].closers = @ + 1]
  /\ UNCHANGED <<job, row, work, held, browser, ran, up, deaths>>

\* One of these calls ends: it stops whatever browser the profile has and takes back
\* whatever lease there is.
CloseVisit(v) ==
  /\ ServiceUp /\ visit[v].closers > 0
  /\ \E r \in StopAndConfirm(visit[v].profile) : browser' = r[2]
  /\ held' = [held EXCEPT ![visit[v].profile] = Nobody]
  /\ visit' = [visit EXCEPT ![v] =
       IF visit[v].closers = 1 THEN NoVisit
       ELSE [visit[v] EXCEPT !.pc = "closing", !.closers = visit[v].closers - 1]]
  /\ UNCHANGED <<job, row, work, ran, up, deaths>>

--------------------------------------------------------------------------------
(* The process dies, and starts again *)

\* A browser that AdsPower was asked for may open all the same.  A service that could not
\* recover its jobs has to be ended by hand.
ServiceDies ==
  /\ ServiceUp /\ up' = "down"
  /\ IF up = "failed" THEN UNCHANGED deaths ELSE deaths < MaxExDeaths /\ deaths' = deaths + 1
  /\ \/ UNCHANGED browser
     \/ \E j \in ExJob : \E p \in work[j].opening : browser' = [browser EXCEPT ![p] = j]
  /\ work' = [j \in ExJob |-> NoWork] /\ visit' = [v \in Visitor |-> NoVisit]
  /\ held' = [p \in Profile |-> Nobody]
  /\ UNCHANGED <<job, row, ran>>

ServiceStarts ==
  /\ up = "down" /\ up' = "recovering"
  /\ work' = [j \in ExJob |-> IF j \in Recoverable THEN [NoWork EXCEPT !.pc = "recover"] ELSE NoWork]
  /\ UNCHANGED <<job, row, held, visit, browser, ran, deaths>>

\* cleanup_after_restart: every profile of an orphaned job is stopped, whatever became of it.
RecoverProfile(j) ==
  /\ work[j].pc = "recover"
  /\ \E p \in job[j].profiles \ work[j].cleaned : \E r \in StopAndConfirm(p) :
       /\ browser' = r[2] /\ row' = [row EXCEPT ![j][p] = IF r[1] THEN "failed" ELSE "cleanup_failed"]
       /\ work' = [work EXCEPT ![j].cleaned = @ \cup {p}, ![j].blocked = @ \/ ~r[1]]
  /\ UNCHANGED <<job, held, visit, ran, up, deaths>>

RecoverJob(j) ==
  /\ work[j].pc = "recover" /\ work[j].cleaned = job[j].profiles
  /\ job' = [job EXCEPT ![j].status = IF work[j].blocked THEN "cleanup_blocked" ELSE "cancelled"]
  /\ work' = [work EXCEPT ![j] = NoWork]
  /\ UNCHANGED <<row, held, visit, browser, ran, up, deaths>>

\* The database refuses a row or a job: the recovery is given up for good, and whoever waits
\* for it gets the error.
RecoveryFails(j) ==
  /\ work[j].pc = "recover" /\ up' = "failed"
  /\ \/ UNCHANGED <<row, browser>>
     \/ \E p \in job[j].profiles \ work[j].cleaned : \E r \in StopAndConfirm(p) :
          browser' = r[2] /\ row' = [row EXCEPT ![j][p] = "working"]
  /\ work' = [k \in ExJob |-> IF work[k].pc = "recover" THEN NoWork ELSE work[k]]
  /\ UNCHANGED <<job, held, visit, ran, deaths>>

Recovered ==
  /\ up = "recovering" /\ up' = "up" /\ \A j \in ExJob : work[j].pc # "recover"
  /\ UNCHANGED <<job, row, work, held, visit, browser, ran, deaths>>

--------------------------------------------------------------------------------
JobStep(j) ==
  \/ Claim(j) \/ NextBatch(j) \/ StartProfile(j) \/ StartAnswered(j) \/ Connect(j)
  \/ TileAndExecute(j) \/ Executed(j)
  \/ CleanProfile(j) \/ BatchEnds(j) \/ RunFails(j) \/ RecoverProfile(j) \/ RecoverJob(j)

JobsNext ==
  \/ \E j \in ExJob :
       \/ JobStep(j) \/ CallStartJob(j) \/ StartFails(j) \/ Cancel(j)
       \/ BatchRaises(j) \/ CleanupRaises(j) \/ EndRaises(j) \/ RunIsLost(j) \/ RecoveryFails(j)
       \/ \E ps \in (SUBSET Profile) \ {{}}, n \in BatchSizes : StartJob(j, ps, n)
  \/ \E v \in Visitor :
       \/ \E k \in Kind, p \in Profile : BeginVisit(v, k, p)
       \/ OpenVisit(v) \/ EndVisit(v) \/ CallClose(v) \/ CloseVisit(v)
  \/ ServiceDies \/ ServiceStarts \/ Recovered

\* The loop goes on with a job; whoever runs the service starts it again.
JobsFairness ==
  /\ \A j \in ExJob : WF_jobVars(JobStep(j))
  /\ WF_jobVars(ServiceStarts)

JobsSpec == JobsInit /\ [][JobsNext]_jobVars /\ JobsFairness

--------------------------------------------------------------------------------
(* What must hold *)

\* At most one job is queued or running, however many callers ask at once and whatever an
\* earlier process left behind.
OneActiveJob == \A j, k \in ExJob :
  job[j].status \in {"queued", "running"} /\ job[k].status \in {"queued", "running"} => j = k

\* A job that is called completed or cancelled has left no browser of its own running: of
\* the others it is said that their cleanup is blocked.
ClosedWhenEnded == \A j \in ExJob, p \in Profile :
  job[j].status \in {"completed", "cancelled"} => browser[p] # j

\* No row of an ended job stays at work. Those of a completed job are all decided, and a row
\* whose browser may still run is found only in a job whose cleanup is blocked.
RowsSettled == \A j \in ExJob : \A p \in job[j].profiles :
  /\ job[j].status \in TerminalJob => row[j][p] # "working"
  /\ job[j].status = "completed" => row[j][p] \in Final
  /\ job[j].status = "cancelled" => row[j][p] # "cleanup_failed"

\* No job begins its strategy twice in a profile, whatever failed and restarted.
RanOnce == \A j \in ExJob, p \in Profile : ran[j][p] <= 1

\* A leased profile is in the hands of someone still at work: no lease is left behind.
LeaseHasOwner == \A p \in Profile :
  \/ held[p] = Nobody
  \/ \E j \in ExJob : held[p] = j /\ work[j].pc \notin {"none", "resolving", "recover"}
  \/ \E v \in Visitor : visit[v].pc # "none" /\ held[p] = VisitOwner(v)

\* Once the cancellation of an active job is recorded the job turns to no further profile, and
\* no browser opens for it but the one that AdsPower was asked for before; and it does not end
\* as completed, also when it was cancelled in its last batch.
CancelHeeded == [][\A j \in ExJob : job[j].status \notin TerminalJob /\ job[j].cancel =>
                     /\ work'[j].started \subseteq work[j].started
                     /\ \A p \in Profile : browser[p] # j /\ browser'[p] = j => p \in work[j].opening
                     /\ job'[j].status # "completed"]_<<job, work, browser>>

\* Nobody works on the job: what would have settled it was refused by the database.
Abandoned(j) == job[j].status \in {"queued", "running"} /\ work[j].pc = "none" /\ ServiceUp

\* Every job ends, also when its process dies; if the database refuses to have it settled, it
\* has to wait until the service is started again.
JobsEnd == \A j \in ExJob : job[j].status = "queued" ~> job[j].status \in TerminalJob \/ Abandoned(j)

\* A service that has recovered from an earlier process leaves none of its jobs active.
RecoverySettles ==
  [][up = "recovering" /\ up' = "up" =>
       \A j \in ExJob : job'[j].status \notin {"queued", "running"}]_<<job, up>>

\* The rows of jobs tell the truth about browsers and strategies, and profiles are given
\* back, whichever await, write or process fails.
JobsSafe == /\ JobsTypeOK
            /\ OneActiveJob
            /\ ClosedWhenEnded
            /\ RowsSettled
            /\ RanOnce
            /\ LeaseHasOwner

\* A job ends, if need be by recovery, and as a cancelled one if it was cancelled before.
JobsEndWell == CancelHeeded /\ RecoverySettles /\ JobsEnd
================================================================================
