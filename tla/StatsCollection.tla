---------------------------- MODULE StatsCollection ----------------------------
(***************************************************************************)
(* Collection of TikTok statistics (tiktok_stats/worker.py, scheduler.py,  *)
(* store.py, collector.py).  Worker processes make a tick every 30         *)
(* seconds: they collect every account for each three-hour slot that is    *)
(* due, and calibrate once a day the accounts that lack a full snapshot.   *)
(* A job holds a lease in SQLite; every transaction of a collection        *)
(* commits only while the lease is held and has not expired.               *)
(***************************************************************************)
EXTENDS Naturals, FiniteSets, FiniteSetsExt

CONSTANTS
  StatWorker,     \* worker processes
  Account,        \* ids of tracked_accounts, all of them enabled
  MaxSlot,        \* bound on the three-hour slots
  SlotsPerDay,    \* 8 in the code
  MaxFullRuns,    \* bound on the runs of full calibrations
  MaxStatFaults   \* bound on leases that lapse, requests that fail, processes that die

ASSUME StatsAssumption ==
  /\ "gone" \notin StatWorker
  /\ Account \subseteq Nat /\ IsFiniteSet(Account)
  /\ MaxSlot \in Nat \ {0} /\ SlotsPerDay \in Nat \ {0}
  /\ MaxFullRuns \in Nat /\ MaxStatFaults \in Nat

VARIABLES
  now,        \* the latest slot that has begun
  slotRun,    \* collection_runs of type incremental, by slot
  fullRun,    \* collection_runs of type full, in the order of their insertion
  calibrated, \* daily_account_metrics with a full snapshot: pairs of account and date
  statLease,  \* worker_leases
  statWorker, \* what each process is doing
  snapshots,  \* account_snapshots: pairs of run and account
  statFaults

statVars == <<now, slotRun, fullRun, calibrated, statLease, statWorker, snapshots,
              statFaults>>

-------------------------------------------------------------------------------
Slot == 1..MaxSlot
Date(slot) == ((slot - 1) \div SlotsPerDay) + 1
Dates == {Date(s) : s \in Slot}
FullRun == 1..MaxFullRuns

Job == ({"incremental"} \X Slot) \cup ({"full"} \X Dates)
Run == ({"incremental"} \X Slot) \cup ({"full"} \X FullRun)
NoRun == <<"none", 0>>

Ended == {"completed", "partial", "failed"}
RunState == {"absent", "running"} \cup Ended

FullRow == [status : RunState, date : Dates \cup {0}]

Lease == [owner : StatWorker \cup {"nobody", "gone"}, live : BOOLEAN]

StatPc == {"down", "idle", "slots", "claim", "renew", "collect", "check", "finish", "calibrate"}

StatProcess ==
  [pc      : StatPc,
   at      : 0..MaxSlot,      \* the tick's now
   slots   : SUBSET Slot,     \* due_slots that are left
   job     : Job \cup {NoRun},  \* the lease's name
   run     : Run \cup {NoRun},
   left    : SUBSET Account,  \* accounts of the run that are left
   done    : 0..Cardinality(Account),   \* results that succeeded
   failed  : 0..Cardinality(Account)]

StatsTypeOK ==
  /\ now \in Slot
  /\ slotRun \in [Slot -> RunState]
  /\ fullRun \in [FullRun -> FullRow]
  /\ calibrated \subseteq Account \X Dates
  /\ statLease \in [Job -> Lease]
  /\ statWorker \in [StatWorker -> StatProcess]
  /\ snapshots \subseteq Run \X Account
  /\ statFaults \in 0..MaxStatFaults

AtRest == [pc |-> "idle", at |-> 0, slots |-> {}, job |-> NoRun, run |-> NoRun,
           left |-> {}, done |-> 0, failed |-> 0]
Stopped == [AtRest EXCEPT !.pc = "down"]

StatInit ==
  /\ now = 1
  /\ slotRun = [s \in Slot |-> "absent"]
  /\ fullRun = [f \in FullRun |-> [status |-> "absent", date |-> 0]]
  /\ calibrated = {} /\ snapshots = {}
  /\ statLease = [j \in Job |-> [owner |-> "nobody", live |-> FALSE]]
  /\ statWorker = [w \in StatWorker |-> AtRest]
  /\ statFaults = 0

StatFault == statFaults < MaxStatFaults /\ statFaults' = statFaults + 1

To(w, pc) == statWorker' = [statWorker EXCEPT ![w].pc = pc]

RunStatus(r) == IF r[1] = "incremental" THEN slotRun[r[2]] ELSE fullRun[r[2]].status

\* The lease of w's job is w's and has not expired.
Owns(w) == LET l == statLease[statWorker[w].job] IN l.owner = w /\ l.live

\* release_lease deletes the row if it is w's.
Released(w) == [statLease EXCEPT ![statWorker[w].job] =
                  IF @.owner = w THEN [owner |-> "nobody", live |-> FALSE] ELSE @]

-------------------------------------------------------------------------------
(* The tick *)

\* The slots that are over and done with, the latest of them: last_scheduled_slot.
LastSlot == LET over == {s \in Slot : slotRun[s] \in Ended} IN
            IF over = {} THEN 0 ELSE Max(over)

\* Fault: a run that somebody left running is not due any more.
DueUnstarted ==
  IF LastSlot = 0 THEN {now} ELSE {s \in Slot : LastSlot < s /\ s <= now}

\* due_incremental_slots and the slots that are still running; the first time only the
\* current one.
Due == (IF LastSlot = 0 THEN {now} ELSE {s \in Slot : LastSlot < s /\ s <= now})
       \cup {s \in Slot : slotRun[s] = "running"}

BeginCollecting(w) ==
  /\ statWorker[w].pc = "idle"
  /\ statWorker' = [statWorker EXCEPT ![w] =
                      [AtRest EXCEPT !.pc = "slots", !.at = now, !.slots = Due]]
  /\ UNCHANGED <<now, slotRun, fullRun, calibrated, statLease, snapshots,
                 statFaults>>

\* acquire_lease: free, expired, or w's own.
Acquirable(j, w) == ~statLease[j].live \/ statLease[j].owner = w

Acquired(j, w) == [statLease EXCEPT ![j] = [owner |-> w, live |-> TRUE]]

\* The next slot in order; one whose lease is held is skipped.
TakeSlot(w) ==
  /\ statWorker[w].pc = "slots" /\ statWorker[w].slots # {}
  /\ LET s == Min(statWorker[w].slots)
         j == <<"incremental", s>>
     IN IF Acquirable(j, w)
        THEN /\ statLease' = Acquired(j, w)
             /\ statWorker' = [statWorker EXCEPT ![w].pc = "claim", ![w].job = j,
                                 ![w].slots = @ \ {s}, ![w].left = Account,
                                 ![w].done = 0, ![w].failed = 0]
        ELSE /\ statWorker' = [statWorker EXCEPT ![w].slots = @ \ {s}]
             /\ UNCHANGED statLease
  /\ UNCHANGED <<now, slotRun, fullRun, calibrated, snapshots, statFaults>>

\* full_calibration_due
DueAccounts(date) == {a \in Account : <<a, date>> \notin calibrated}

RunningFull(date) == {f \in FullRun : fullRun[f] = [status |-> "running", date |-> date]}

\* The accounts that are due are read before the lease is asked for.
ListCalibrations(w) ==
  /\ statWorker[w].pc = "slots" /\ statWorker[w].slots = {}
  /\ LET date == Date(statWorker[w].at) IN
     statWorker' = [statWorker EXCEPT ![w] =
       IF DueAccounts(date) = {} /\ RunningFull(date) = {} THEN AtRest
       ELSE [@ EXCEPT !.pc = "calibrate", !.job = <<"full", date>>,
                      !.left = DueAccounts(date), !.done = 0, !.failed = 0]]
  /\ UNCHANGED <<now, slotRun, fullRun, calibrated, statLease, snapshots,
                 statFaults>>

TakeCalibration(w) ==
  /\ statWorker[w].pc = "calibrate"
  /\ LET j == statWorker[w].job IN
     IF Acquirable(j, w) THEN statLease' = Acquired(j, w) /\ To(w, "claim")
     ELSE /\ statWorker' = [statWorker EXCEPT ![w] = AtRest]
          /\ UNCHANGED statLease
  /\ UNCHANGED <<now, slotRun, fullRun, calibrated, snapshots, statFaults>>

-------------------------------------------------------------------------------
(* A job *)

\* The job ends, with or without a run: on with the tick.
Leave(w) ==
  /\ statLease' = Released(w)
  /\ statWorker' = [statWorker EXCEPT ![w] =
       IF @.job[1] = "full" THEN AtRest
       ELSE [@ EXCEPT !.pc = "slots", !.job = NoRun, !.run = NoRun, !.left = {},
                      !.done = 0, !.failed = 0]]

Begin(w, r) ==
  /\ statWorker' = [statWorker EXCEPT ![w].run = r,
                      ![w].pc = IF statWorker[w].left = {} THEN "finish" ELSE "renew"]
  /\ UNCHANGED statLease

\* claim_scheduled_run: a slot without a run, or whose run is running.
ClaimableSlot(s) == slotRun[s] \in {"absent", "running"}

ClaimSlot(w) ==
  /\ statWorker[w].pc = "claim" /\ statWorker[w].job[1] = "incremental"
  /\ LET s == statWorker[w].job[2] IN
     IF ClaimableSlot(s)
     THEN /\ slotRun' = [slotRun EXCEPT ![s] = "running"]
          /\ Begin(w, <<"incremental", s>>)
     ELSE Leave(w) /\ UNCHANGED slotRun
  /\ UNCHANGED <<now, fullRun, calibrated, snapshots, statFaults>>

\* claim_full_run: the run of that date that is running, or a new one if an account is due.
ClaimFull(w) ==
  /\ statWorker[w].pc = "claim" /\ statWorker[w].job[1] = "full"
  /\ LET date == statWorker[w].job[2]
         free == {f \in FullRun : fullRun[f].status = "absent"}
     IN IF RunningFull(date) # {}
        THEN Begin(w, <<"full", Min(RunningFull(date))>>) /\ UNCHANGED fullRun
        ELSE IF statWorker[w].left = {}
        THEN Leave(w) /\ UNCHANGED fullRun
        ELSE /\ free # {}
             /\ fullRun' = [fullRun EXCEPT ![Min(free)] =
                              [status |-> "running", date |-> date]]
             /\ Begin(w, <<"full", Min(free)>>)
  /\ UNCHANGED <<now, slotRun, calibrated, snapshots, statFaults>>

RunEnds(r, status) ==
  IF r[1] = "incremental"
  THEN slotRun' = [slotRun EXCEPT ![r[2]] = status] /\ UNCHANGED fullRun
  ELSE fullRun' = [fullRun EXCEPT ![r[2]].status = status] /\ UNCHANGED slotRun

\* Fault: a run is ended by whoever worked on it.
MayEndAnyRun(w) == TRUE

\* finish_run_if_lease_owner: its condition.
MayEndRun(w) == Owns(w)

\* An exception: the run has failed if it is still w's, and the process ends: nothing catches
\* what run_worker_once raises.
Raise(w) ==
  /\ IF MayEndRun(w) THEN RunEnds(statWorker[w].run, "failed")
     ELSE UNCHANGED <<slotRun, fullRun>>
  /\ statLease' = Released(w)
  /\ statWorker' = [statWorker EXCEPT ![w] = Stopped]

\* SQLite refuses a statement of the job.
JobRaises(w) ==
  /\ statWorker[w].pc \in {"renew", "check", "finish"} /\ StatFault /\ Raise(w)
  /\ UNCHANGED <<now, calibrated, snapshots>>

\* _renew_or_raise before an account, and after it.
Renew(w) ==
  /\ statWorker[w].pc \in {"renew", "check"}
  /\ IF ~Owns(w) THEN Raise(w)
     ELSE /\ To(w, IF statWorker[w].pc = "renew" THEN "collect"
                   ELSE IF statWorker[w].left = {} THEN "finish" ELSE "renew")
          /\ UNCHANGED <<slotRun, fullRun, statLease>>
  /\ UNCHANGED <<now, calibrated, snapshots, statFaults>>

\* Fault: what was collected is stored whoever holds the lease.
Unguarded(w) == TRUE

\* _assert_lease_write_guard, before each commit.
Guarded(w) == Owns(w)

\* collect_incremental, collect_full: what TikTok returned is stored in one transaction.  A
\* refused commit is a result that failed, like a refused request.
Collect(w, a) ==
  /\ statWorker[w].pc = "collect" /\ a = Min(statWorker[w].left)
  /\ LET r == statWorker[w].run IN
     IF Guarded(w)
     THEN /\ snapshots' = snapshots \cup {<<r, a>>}
          /\ calibrated' = IF r[1] = "full"
                           THEN calibrated \cup {<<a, statWorker[w].job[2]>>} ELSE calibrated
          /\ statWorker' = [statWorker EXCEPT ![w].pc = "check", ![w].left = @ \ {a},
                              ![w].done = @ + 1]
     ELSE /\ statWorker' = [statWorker EXCEPT ![w].pc = "check", ![w].left = @ \ {a},
                              ![w].failed = @ + 1]
          /\ UNCHANGED <<snapshots, calibrated>>
  /\ UNCHANGED <<now, slotRun, fullRun, statLease, statFaults>>

\* The cookie, the account or TikTok: whatever fails within collect_* is a failed result.
CollectFails(w, a) ==
  /\ statWorker[w].pc = "collect" /\ a = Min(statWorker[w].left) /\ StatFault
  /\ statWorker' = [statWorker EXCEPT ![w].pc = "check", ![w].left = @ \ {a},
                      ![w].failed = @ + 1]
  /\ UNCHANGED <<now, slotRun, fullRun, calibrated, statLease, snapshots>>

\* Fault: a run in which something succeeded is complete.
StatusLenient(w) == IF statWorker[w].done > 0 \/ statWorker[w].failed = 0
                    THEN "completed" ELSE "failed"

\* _collection_status
Status(w) == CASE statWorker[w].failed = 0 -> "completed"
               [] statWorker[w].failed > 0 /\ statWorker[w].done > 0 -> "partial"
               [] OTHER -> "failed"

FinishRun(w) ==
  /\ statWorker[w].pc = "finish"
  /\ IF MayEndRun(w) THEN RunEnds(statWorker[w].run, Status(w)) /\ Leave(w) ELSE Raise(w)
  /\ UNCHANGED <<now, calibrated, snapshots, statFaults>>

-------------------------------------------------------------------------------
(* The world around *)

NextSlotBegins ==
  /\ now < MaxSlot /\ now' = now + 1
  /\ UNCHANGED <<slotRun, fullRun, calibrated, statLease, statWorker, snapshots,
                 statFaults>>

\* The process and its heartbeat thread stall longer than the lease.
LeaseLapses(j) ==
  /\ statLease[j].live /\ statLease[j].owner # "gone" /\ StatFault
  /\ statLease' = [statLease EXCEPT ![j].live = FALSE]
  /\ UNCHANGED <<now, slotRun, fullRun, calibrated, statWorker, snapshots>>

\* The lease of a process that is gone.
DeadLeaseExpires(j) ==
  /\ statLease[j].live /\ statLease[j].owner = "gone"
  /\ statLease' = [statLease EXCEPT ![j].live = FALSE]
  /\ UNCHANGED <<now, slotRun, fullRun, calibrated, statWorker, snapshots,
                 statFaults>>

\* The process is killed, or an exception ends it outside a job, or a second one within: the
\* run keeps its status, and the lease expires. A process that is started later has another
\* owner id.
StatWorkerDies(w) ==
  /\ statWorker[w].pc # "down" /\ StatFault
  /\ statWorker' = [statWorker EXCEPT ![w] = Stopped]
  /\ statLease' = [j \in Job |-> IF statLease[j].owner = w
                     THEN [statLease[j] EXCEPT !.owner = "gone"] ELSE statLease[j]]
  /\ UNCHANGED <<now, slotRun, fullRun, calibrated, snapshots>>

\* The launcher is opened, or its button is pressed.
StatWorkerStarts(w) ==
  /\ statWorker[w].pc = "down"
  /\ statWorker' = [statWorker EXCEPT ![w] = AtRest]
  /\ UNCHANGED <<now, slotRun, fullRun, calibrated, statLease, snapshots,
                 statFaults>>

StatStep(w) ==
  \/ BeginCollecting(w) \/ TakeSlot(w) \/ ListCalibrations(w) \/ TakeCalibration(w)
  \/ ClaimSlot(w) \/ ClaimFull(w) \/ Renew(w) \/ FinishRun(w)
  \/ \E a \in Account : Collect(w, a)

StatNext ==
  \/ \E w \in StatWorker : \/ StatStep(w) \/ JobRaises(w)
                           \/ StatWorkerDies(w) \/ StatWorkerStarts(w)
                           \/ \E a \in Account : CollectFails(w, a)
  \/ NextSlotBegins
  \/ \E j \in Job : LeaseLapses(j) \/ DeadLeaseExpires(j)

\* serve goes on for ever, unless the process ends, and leases expire. Nothing starts a worker
\* but a person, who need not do so.
StatFairness ==
  /\ \A w \in StatWorker : WF_statVars(StatStep(w))
  /\ \A j \in Job : WF_statVars(DeadLeaseExpires(j))

StatSpec == StatInit /\ [][StatNext]_statVars /\ StatFairness

-------------------------------------------------------------------------------
\* A run that has ended keeps its status: neither a worker that lost its lease and fails
\* later nor a second tick that had the slot on its list touches it.
EndedRunStays ==
  [][\A r \in Run : RunStatus(r) \in Ended => RunStatus(r)' = RunStatus(r)]_statVars

\* Nothing is stored for a run once it has ended: a worker whose job was taken over goes on
\* collecting, and none of its results reaches the database.
StoredWhileRunning ==
  [][\A r \in Run, a \in Account :
       <<r, a>> \in snapshots' \ snapshots => RunStatus(r) = "running"]_statVars

\* A slot called completed has a snapshot of every account, taken over or not.
CompletedCovers == \A s \in Slot :
  slotRun[s] = "completed" => \A a \in Account : <<<<"incremental", s>>, a>> \in snapshots

NoWorkerLives == \A w \in StatWorker : statWorker[w].pc = "down"

\* A slot that was begun comes to its end, whoever dies on the way, unless no worker is left:
\* nothing but a person starts another.
SlotsEnd == \A s \in Slot : slotRun[s] = "running" ~> slotRun[s] \in Ended \/ NoWorkerLives

\* The worker that holds the lease, and only this one, decides what a run contains and how
\* it ended.
CollectionSafe == [](StatsTypeOK /\ CompletedCovers) /\ EndedRunStays /\ StoredWhileRunning
===============================================================================
