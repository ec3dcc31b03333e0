---------------------------- MODULE CentralDispatch ----------------------------
(***************************************************************************)
(* The task queue of the Central service (central/scheduler.py,            *)
(* assignment.py, leases.py, dependencies.py, human_review.py,             *)
(* account_states.py, tasks.py) and the agents that work it                *)
(* (agent/worker.py), of one tenant.                                       *)
(*                                                                         *)
(* A subtask waits for its parents, is leased to a device under a          *)
(* generation, answered, retried, reclaimed or given up.  The database is  *)
(* the default SQLite one: a session reads outside any transaction until   *)
(* its first write and holds the write lock from then to its commit.  A    *)
(* result is written first of all and is one action.  The scheduler tick   *)
(* and the operators' requests about dead letters read, decide and only    *)
(* then write, by primary key and whatever the row has become: they are    *)
(* several actions each, with what they read kept in `tick` and `review`.  *)
(***************************************************************************)
EXTENDS Integers, FiniteSets

CONSTANTS
  SubTask, Task, Account, Device,
  NoDevice, NoProfile,
  TaskOf,        \* [SubTask -> Task]
  AccountOf,     \* [SubTask -> Account]
  ProfileOf,     \* [Account -> a profile id, or NoProfile]
  Preferred,     \* [Account -> Device \cup {NoDevice}], authoritative_device_id
  ParentsOf,     \* [SubTask -> SUBSET SubTask], the dependency edges
  Probe,         \* the subtasks probe_tick may create
  Scheduled,     \* the tasks with a run_at or a deadline
  Rank,          \* [SubTask -> Nat], priority and then age
  DeviceRank,    \* [Device -> Nat], the devices' row ids
  TickRequest,   \* the calls of /scheduler/tick that may overlap
  Operator,      \* the operators whose requests about dead letters may overlap
  Limit,         \* how many queued subtasks a tick looks at
  MaxRetry,      \* MAX_RETRY_ATTEMPTS, and the 3 of submit_result
  CircuitBreaker,\* CIRCUIT_BREAKER_THRESHOLD
  Outcomes,      \* how executions may end, of "success", "retry" and "fatal"
  Evidence,      \* what successes may carry, of "VERIFIED", "UNVERIFIED" and "none"
  Reliable,      \* the devices whose agent keeps running
  Events,        \* what may happen besides the normal course
  MaxFaults      \* bound on those events

ASSUME DispatchAssumption ==
  /\ TaskOf \in [SubTask -> Task]
  /\ AccountOf \in [SubTask -> Account]
  /\ ParentsOf \in [SubTask -> SUBSET SubTask]
  /\ Preferred \in [Account -> Device \cup {NoDevice}]
  /\ NoDevice \notin Device
  /\ Probe \subseteq SubTask /\ Reliable \subseteq Device
  /\ \A s \in Probe : ParentsOf[s] = {}
  /\ Rank \in [SubTask -> Nat] /\ DeviceRank \in [Device -> Nat]
  /\ \A r, s \in SubTask : Rank[r] = Rank[s] => r = s
  /\ \A d, e \in Device : DeviceRank[d] = DeviceRank[e] => d = e
  /\ Outcomes \subseteq {"success", "retry", "fatal"}
  /\ Evidence \subseteq {"VERIFIED", "UNVERIFIED", "none"}
  /\ MaxRetry \in Nat /\ CircuitBreaker \in Nat /\ MaxFaults \in Nat
  /\ Limit \in Nat \ {0}

VARIABLES
  sub,       \* the subtasks rows
  task,      \* the tasks' status column
  account,   \* the accounts rows
  online,    \* the enabled devices whose heartbeat is recent
  handles,   \* the subtasks with a VERIFIED handle
  results,   \* the task_results rows
  tick,      \* the scheduler ticks in progress
  review,    \* the operators' requests that have read their dead letter
  agent,     \* the agents' main loops
  wire,      \* requests of agents that have not been answered yet
  holders,   \* history: the leases granted, <<subtask, generation, device>>
  requeued,  \* history: the generation at which a subtask last left the DLQ
  raced,     \* history: the subtasks written over what another request wrote meanwhile
  faults     \* history: how many bounded events happened

vars == <<sub, task, account, online, handles, results, tick, review, agent, wire,
          holders, requeued, raced, faults>>

-------------------------------------------------------------------------------
SubStatus == {"absent", "WAITING_DEPENDENCY", "QUEUED", "ASSIGNED",
              "SUCCESS", "FAILED", "DLQ", "CANCELLED"}

AccountStatus == {"ACTIVE", "CAPTCHA", "MANUAL_VERIFIED", "SUSPENDED", "MANUAL_REVIEW"}

\* `absent` is a row not yet inserted; RUNNING is written by nothing.
Row == [status   : SubStatus,
        owner    : Device \cup {NoDevice},  \* lease_owner and assigned_device_id
        gen      : Nat,                     \* lease_generation
        attempts : Nat,
        placed   : BOOLEAN,                 \* profile_id is that of the account
        late     : BOOLEAN]                 \* no progress for LEASE_TIMEOUT_SECONDS

AccountRow == [status   : AccountStatus,
               failures : Nat,              \* consecutive_failures
               cooling  : BOOLEAN]          \* now < cooldown_until

Job == SubTask \X Nat                       \* a pulled subtask and its generation

\* A POST /subtasks/result, and the row it leaves in task_results.
Result == [kind : {"result"}, job : Job, device : Device,
           outcome : Outcomes]
\* A POST /subtasks/handle, which names no generation and no device.
Handle == [kind : {"handle"}, subtask : SubTask, verified : BOOLEAN]

\* A tick: the rows its last query returned, and the first grant it decided on.
TickState == [pc : {"idle", "reclaim", "look", "write"}, list : SUBSET SubTask,
              rows : [SubTask -> Row], pick : SUBSET (SubTask \X Device)]

\* An operator's request: the dead letter and its generation, as read.
Review == [wants : {"requeue", "terminate"}, subtask : SubTask, gen : Nat]

TypeOK ==
  /\ sub \in [SubTask -> Row]
  /\ task \in [Task -> {"absent", "PENDING", "QUEUED", "MISSED"}]
  /\ account \in [Account -> AccountRow]
  /\ online \subseteq Device
  /\ handles \subseteq SubTask
  /\ results \subseteq Result
  /\ tick \in [TickRequest -> TickState]
  /\ review \in [Operator -> SUBSET Review]
  /\ agent \in [Device -> [pc : {"idle", "execute", "prove", "next"},
                           todo : SUBSET Job, cur : SUBSET Job,
                           sent : SUBSET (Result \cup Handle)]]
  /\ wire \subseteq Result \cup Handle
  /\ holders \subseteq SubTask \X Nat \X Device
  /\ requeued \in [SubTask -> Nat]
  /\ raced \subseteq SubTask
  /\ faults \in 0..MaxFaults

Leased(r) == r.status = "ASSIGNED"          \* ACTIVE_LEASES

Absent  == [status |-> "absent", owner |-> NoDevice, gen |-> 0, attempts |-> 0,
            placed |-> FALSE, late |-> FALSE]
Resting == [pc |-> "idle", todo |-> {}, cur |-> {}, sent |-> {}]

\* `cur` restricted to S, for a query that selects S.
Read(cur, S) == [s \in SubTask |-> IF s \in S THEN cur[s] ELSE Absent]
Over == [pc |-> "idle", list |-> {}, rows |-> Read(<<>>, {}), pick |-> {}]

Init ==
  /\ sub = [s \in SubTask |-> Absent]
  /\ task = [k \in Task |-> "absent"]
  /\ account = [a \in Account |-> [status |-> "ACTIVE", failures |-> 0, cooling |-> FALSE]]
  /\ online = Device
  /\ handles = {} /\ results = {} /\ wire = {}
  /\ tick = [t \in TickRequest |-> Over]
  /\ review = [o \in Operator |-> {}]
  /\ agent = [d \in Device |-> Resting]
  /\ holders = {} /\ requeued = [s \in SubTask |-> 0] /\ raced = {} /\ faults = 0

\* A bounded event of the environment.
Fault(event) == event \in Events /\ faults < MaxFaults /\ faults' = faults + 1

-------------------------------------------------------------------------------
(* Tasks *)

\* create_task: the rows of a task, its schedule notwithstanding, are queued
\* unless they depend on others.
CreateTask(k) ==
  /\ task[k] = "absent"
  /\ \E s \in SubTask \ Probe : TaskOf[s] = k
  /\ task' = [task EXCEPT ![k] = IF k \in Scheduled THEN "PENDING" ELSE "QUEUED"]
  /\ sub' = [s \in SubTask |->
       IF TaskOf[s] # k \/ s \in Probe THEN sub[s]
       ELSE [Absent EXCEPT !.status = IF ParentsOf[s] = {} THEN "QUEUED"
                                      ELSE "WAITING_DEPENDENCY"]]
  /\ UNCHANGED <<account, online, handles, results, tick, review, agent, wire, holders,
                 requeued, raced, faults>>

\* scheduled_tick: some pending tasks are due, some are overdue.
ScheduledTick ==
  \E due, missed \in SUBSET {k \in Task : task[k] = "PENDING"} :
    /\ due \cap missed = {} /\ due \cup missed # {}
    /\ task' = [k \in Task |-> CASE k \in due    -> "QUEUED"
                                 [] k \in missed -> "MISSED"
                                 [] OTHER        -> task[k]]
    /\ UNCHANGED <<sub, account, online, handles, results, tick, review, agent, wire,
                   holders, requeued, raced, faults>>

\* The accounts probe_tick has to try.
Due == {a \in Account :
          /\ account[a].status = "MANUAL_VERIFIED" /\ ~account[a].cooling
          /\ \A s \in Probe : AccountOf[s] = a =>
               sub[s].status \notin {"QUEUED", "ASSIGNED", "WAITING_DEPENDENCY"}}

\* probe_tick: one probe of each; Probe bounds how many there can be.  (A browse
\* task of the account would count as its probe too; the tasks here are others.)
ProbeTick ==
  \E new \in SUBSET {s \in SubTask : sub[s].status = "absent" /\ s \in Probe} :
    /\ new # {}
    /\ \A s \in new : AccountOf[s] \in Due
    /\ \A a \in Due : Cardinality({s \in new : AccountOf[s] = a}) = 1
    /\ sub' = [s \in SubTask |-> IF s \in new THEN [Absent EXCEPT !.status = "QUEUED"]
                                 ELSE sub[s]]
    /\ task' = [k \in Task |-> IF \E s \in new : TaskOf[s] = k THEN "QUEUED" ELSE task[k]]
    /\ UNCHANGED <<account, online, handles, results, tick, review, agent, wire,
                   holders, requeued, raced, faults>>

-------------------------------------------------------------------------------
(* scheduler_tick: reclaim_stale, activate_ready_dependents, dispatch_queued.  *)
(* Until it first writes, the tick holds no lock.                              *)

StartTick(t) ==
  /\ tick[t].pc = "idle"
  /\ LET leased == {s \in SubTask : Leased(sub[s])}
     IN  tick' = [tick EXCEPT ![t] = [pc |-> "reclaim", list |-> leased,
                                      rows |-> Read(sub, leased), pick |-> {}]]
  /\ UNCHANGED <<sub, task, account, online, handles, results, review, agent, wire,
                 holders, requeued, raced, faults>>

\* Fault: a lease whose device sends heartbeats is never stale.
StaleIfOffline(t) == {s \in tick[t].list : tick[t].rows[s].owner \notin online}

\* reclaim_stale, on the rows the tick read: its device is offline or the lease
\* saw no progress.
Stale(t) == {s \in tick[t].list :
               tick[t].rows[s].owner \notin online \/ tick[t].rows[s].late}

\* Fault: a reclaimed lease costs no attempt.
ReclaimedFree(t) ==
  [s \in SubTask |->
     IF s \notin Stale(t) THEN sub[s]
     ELSE [sub[s] EXCEPT !.status = "QUEUED", !.owner = NoDevice, !.late = FALSE,
                         !.gen = tick[t].rows[s].gen + 1]]

\* The columns written come from the row as it was read.
Reclaimed(t) ==
  [s \in SubTask |->
     IF s \notin Stale(t) THEN sub[s]
     ELSE LET read == tick[t].rows[s] IN
          [sub[s] EXCEPT !.status = IF read.attempts + 1 > MaxRetry THEN "DLQ" ELSE "QUEUED",
                         !.owner = NoDevice, !.late = FALSE,
                         !.gen = read.gen + 1, !.attempts = read.attempts + 1]]

\* Fault: the success of the parents is enough, their handles are not looked at.
ActivatedOnSuccess(cur) ==
  [s \in SubTask |->
     IF cur[s].status # "WAITING_DEPENDENCY" THEN cur[s]
     ELSE IF \E p \in ParentsOf[s] : cur[p].status \in {"FAILED", "CANCELLED"}
     THEN [cur[s] EXCEPT !.status = "FAILED"]
     ELSE IF \A p \in ParentsOf[s] : cur[p].status = "SUCCESS"
     THEN [cur[s] EXCEPT !.status = "QUEUED"]
     ELSE cur[s]]

\* activate_ready_dependents: the failure of a parent fails its children, one
\* generation of them in a pass.
Activated(cur) ==
  LET waits(s)  == cur[s].status = "WAITING_DEPENDENCY"
      failed(s) == \E p \in ParentsOf[s] : cur[p].status \in {"FAILED", "CANCELLED"}
      ready(s)  == \A p \in ParentsOf[s] : cur[p].status = "SUCCESS" /\ p \in handles
  IN  [s \in SubTask |->
         IF waits(s) /\ failed(s) THEN [cur[s] EXCEPT !.status = "FAILED"]
         ELSE IF waits(s) /\ ready(s) THEN [cur[s] EXCEPT !.status = "QUEUED"]
         ELSE cur[s]]

\* The queued subtasks dispatch_queued looks at, the first of them by rank.
Queued(cur) ==
  LET all == {s \in SubTask : cur[s].status = "QUEUED"}
  IN  {s \in all : Cardinality({r \in all : Rank[r] < Rank[s]}) < Limit}

\* Fault: probes, too, run for active accounts only.
MayRunIfActive(s) == account[AccountOf[s]].status = "ACTIVE"

MayRun(s) == s \in Probe \/ account[AccountOf[s]].status = "ACTIVE"

ProfileFor(s) == ProfileOf[AccountOf[s]]
SameProfile(r, s) == ProfileFor(r) = ProfileFor(s) /\ ProfileFor(s) # NoProfile

\* _profile_busy, on the rows `cur`
Busy(cur, s) == \E r \in SubTask \ {s} :
                  Leased(cur[r]) /\ cur[r].placed /\ SameProfile(r, s)

\* _pick_device: the authoritative device of the account, or the oldest online.
PickDevice(s) ==
  IF Preferred[AccountOf[s]] \in online THEN Preferred[AccountOf[s]]
  ELSE CHOOSE d \in online : \A e \in online : DeviceRank[d] <= DeviceRank[e]

Granted(r, read, d) ==
  [r EXCEPT !.status = "ASSIGNED", !.owner = d, !.gen = read.gen + 1,
            !.placed = TRUE, !.late = FALSE]

\* Fault: the profiles taken in this pass are not looked at.
ChosenAtOnce(cur, list) == {s \in list : MayRun(s) /\ ~Busy(cur, s) /\ online # {}}

\* Of the subtasks in `list`, those that could be assigned and whose profile no
\* earlier one takes.
Chosen(cur, list) ==
  LET Claims == {s \in list : MayRun(s) /\ ~Busy(cur, s) /\ online # {}}
  IN  {s \in Claims : \A r \in Claims \ {s} : SameProfile(r, s) => Rank[s] < Rank[r]}

\* dispatch_queued under the write lock, for the rows it read.
Dispatched(cur, list, rows) ==
  [s \in SubTask |->
     IF s \in Chosen(cur, list) THEN Granted(cur[s], rows[s], PickDevice(s))
     ELSE IF s \in list /\ MayRun(s) THEN [cur[s] EXCEPT !.placed = TRUE]
     ELSE cur[s]]

\* The subtasks of S whose generation moved on since `rows` was read: a compare-and-set
\* would refuse to write them.
Moved(cur, rows, S) == {s \in S : cur[s].gen # rows[s].gen}

\* Dispatch and end the tick.
Finish(t, cur, list, rows, granted) ==
  /\ sub' = Dispatched(cur, list, rows)
  /\ holders' = holders \cup granted
                  \cup {<<s, rows[s].gen + 1, PickDevice(s)>> : s \in Chosen(cur, list)}
  /\ tick' = [tick EXCEPT ![t] = Over]

\* If nothing is reclaimed or activated the tick goes on without the lock.
Reclaim(t) ==
  /\ tick[t].pc = "reclaim"
  /\ LET next == Activated(Reclaimed(t))
     IN  IF Stale(t) = {} /\ next = sub
         THEN /\ tick' = [tick EXCEPT ![t] = [pc |-> "look", list |-> Queued(sub),
                                              rows |-> Read(sub, Queued(sub)), pick |-> {}]]
              /\ UNCHANGED <<sub, holders, raced>>
         ELSE /\ Finish(t, next, Queued(next), next, {})
              /\ raced' = raced \cup Moved(sub, tick[t].rows, Stale(t))
  /\ UNCHANGED <<task, account, online, handles, results, review, agent, wire, requeued,
                 faults>>

\* The candidates after `s`.
After(list, s) == {r \in list : Rank[r] > Rank[s]}

\* The first candidate that may run.  Writing its profile takes the lock; if the
\* row has it already, the decision is made without.
Look(t) ==
  /\ tick[t].pc = "look"
  /\ LET list == tick[t].list
         rows == tick[t].rows
         able == {s \in list : MayRun(s)}
     IN  \/ /\ able = {}
            /\ tick' = [tick EXCEPT ![t] = Over]
            /\ UNCHANGED <<sub, holders, raced>>
         \/ \E s \in able :
              /\ \A r \in able : Rank[s] <= Rank[r]
              /\ \/ /\ ~rows[s].placed /\ ProfileFor(s) # NoProfile
                    /\ Finish(t, sub, able, rows, {})
                    /\ raced' = raced \cup Moved(sub, rows, Chosen(sub, able))
                 \/ /\ rows[s].placed \/ ProfileFor(s) = NoProfile
                    /\ tick' = IF Busy(sub, s) \/ online = {}
                               THEN [tick EXCEPT ![t].list = After(list, s)]
                               ELSE [tick EXCEPT ![t].pc = "write", ![t].list = After(list, s),
                                                 ![t].pick = {<<s, PickDevice(s)>>}]
                    /\ UNCHANGED <<sub, holders, raced>>
  /\ UNCHANGED <<task, account, online, handles, results, review, agent, wire, requeued,
                 faults>>

\* The first grant is written, whether or not its profile has been taken since, and the
\* others are decided under the lock.
Write(t) ==
  /\ tick[t].pc = "write"
  /\ \E g \in tick[t].pick :
       LET s    == g[1]
           rows == tick[t].rows
           list == tick[t].list
           next == [sub EXCEPT ![s] = Granted(@, rows[s], g[2])]
       IN  /\ Finish(t, next, list, rows, {<<s, rows[s].gen + 1, g[2]>>})
           /\ raced' = raced \cup Moved(sub, rows, {s} \cup Chosen(next, list))
                        \cup {r \in {s} : Busy(sub, r)}
  /\ UNCHANGED <<task, account, online, handles, results, review, agent, wire, requeued,
                 faults>>

-------------------------------------------------------------------------------
(* Requests of the agents *)

\* Fault: a result is awaited whatever its generation.
AcceptsAnyGeneration(m) == m \notin results /\ Leased(sub[m.job[1]])

\* submit_result, one transaction from its inbox row on.  A result whose
\* generation is not the subtask's, or that is not awaited, changes nothing: the
\* request fails and its transaction is rolled back.
Accepts(m) == /\ m \notin results                     \* try_dedupe
              /\ sub[m.job[1]].gen = m.job[2]
              /\ Leased(sub[m.job[1]])

Answered(r, outcome) ==
  IF outcome = "success" THEN [r EXCEPT !.status = "SUCCESS", !.late = FALSE]
  ELSE IF outcome = "retry" /\ r.attempts + 1 <= MaxRetry
  THEN [r EXCEPT !.status = "QUEUED", !.attempts = @ + 1, !.owner = NoDevice,
                 !.gen = @ + 1, !.late = FALSE]
  ELSE [r EXCEPT !.status = "DLQ", !.attempts = @ + 1, !.late = FALSE]

\* Successes clear the failure count, the third failure in a row suspends the
\* account, and a probe decides about its account.
Judged(a, s, outcome) ==
  LET probed   == s \in Probe /\ a.status = "MANUAL_VERIFIED"
      failures == IF outcome = "success" THEN 0 ELSE a.failures + 1
  IN  [a EXCEPT !.failures = failures,
                !.status = CASE outcome # "success" /\ failures >= CircuitBreaker -> "SUSPENDED"
                             [] outcome = "success" /\ probed -> "ACTIVE"
                             [] outcome # "success" /\ failures < CircuitBreaker /\ probed
                                  -> "CAPTCHA"
                             [] OTHER -> @]

SubmitResult(m) ==
  /\ IF Accepts(m)
     THEN LET s == m.job[1] IN
          /\ sub' = [sub EXCEPT ![s] = Answered(@, m.outcome)]
          /\ account' = [account EXCEPT ![AccountOf[s]] = Judged(@, s, m.outcome)]
          /\ results' = results \cup {m}
     ELSE UNCHANGED <<sub, account, results>>
  /\ UNCHANGED handles

\* submit_handle: whatever became of the subtask, it is a success now.
SubmitHandle(m) ==
  /\ sub' = [sub EXCEPT ![m.subtask].status = "SUCCESS", ![m.subtask].late = FALSE]
  /\ handles' = IF m.verified THEN handles \cup {m.subtask} ELSE handles
  /\ UNCHANGED <<account, results>>

\* A request reaches Central; a proxy may deliver it again.
Deliver(m) ==
  /\ m \in wire
  /\ IF m.kind = "result" THEN SubmitResult(m) ELSE SubmitHandle(m)
  /\ \/ wire' = wire \ {m} /\ UNCHANGED faults
     \/ Fault("duplicate") /\ UNCHANGED wire
  /\ UNCHANGED <<task, online, tick, review, agent, holders, requeued, raced>>

Lose(m) ==
  /\ m \in wire
  /\ \/ m.kind = "result" /\ Fault("lost result")
     \/ m.kind = "handle" /\ Fault("lost handle")
  /\ wire' = wire \ {m}
  /\ UNCHANGED <<sub, task, account, online, handles, results, tick, review, agent,
                 holders, requeued, raced>>

-------------------------------------------------------------------------------
(* The agent's main loop.  It waits for the answer of a request, whatever the  *)
(* answer is, or for its timeout, after which the request may still arrive.    *)

\* The next pulled subtask, or none.
Onward(jobs) ==
  IF jobs = {} THEN {Resting}
  ELSE {[pc |-> "execute", todo |-> jobs \ {j}, cur |-> {j}, sent |-> {}] : j \in jobs}

\* run_once: agent_pull_subtasks, in any order.
Pull(d) ==
  /\ agent[d].pc = "idle"
  /\ LET jobs == {<<s, sub[s].gen>> : s \in {r \in SubTask : Leased(sub[r]) /\ sub[r].owner = d}}
     IN  /\ jobs # {}
         /\ \E next \in Onward(jobs) : agent' = [agent EXCEPT ![d] = next]
  /\ UNCHANGED <<sub, task, account, online, handles, results, tick, review, wire,
                 holders, requeued, raced, faults>>

\* renew_lease, called between the stages of an execution.
Renew(d) ==
  /\ agent[d].pc = "execute"
  /\ \E j \in agent[d].cur :
       /\ Leased(sub[j[1]]) /\ sub[j[1]].gen = j[2] /\ sub[j[1]].owner = d
       /\ sub[j[1]].late
       /\ sub' = [sub EXCEPT ![j[1]].late = FALSE]
  /\ UNCHANGED <<task, account, online, handles, results, tick, review, agent, wire,
                 holders, requeued, raced, faults>>

\* Send `m` and wait in `pc`.
Send(d, m, pc) ==
  /\ wire' = wire \cup {m}
  /\ agent' = [agent EXCEPT ![d].pc = pc, ![d].sent = {m}]

\* The answer came, or the request timed out.
Unblocked(d) ==
  \/ agent[d].sent \cap wire = {} /\ UNCHANGED faults
  \/ agent[d].sent \cap wire # {} /\ Fault("timeout")

\* The end of an execution: report it; a success may have a handle to send.
Report(d) ==
  /\ agent[d].pc = "execute"
  /\ \E j \in agent[d].cur, outcome \in Outcomes, pc \in {"prove", "next"} :
       /\ pc = "prove" => outcome = "success" /\ Evidence # {"none"}
       /\ pc = "next" => outcome # "success" \/ "none" \in Evidence
       /\ Send(d, [kind |-> "result", job |-> j, device |-> d, outcome |-> outcome], pc)
  /\ UNCHANGED <<sub, task, account, online, handles, results, tick, review, holders,
                 requeued, raced, faults>>

SendHandle(d) ==
  /\ agent[d].pc = "prove" /\ Unblocked(d)
  /\ \E j \in agent[d].cur, e \in Evidence \ {"none"} :
       Send(d, [kind |-> "handle", subtask |-> j[1], verified |-> e = "VERIFIED"], "next")
  /\ UNCHANGED <<sub, task, account, online, handles, results, tick, review, holders,
                 requeued, raced>>

GoOn(d) ==
  /\ agent[d].pc = "next" /\ Unblocked(d)
  /\ \E next \in Onward(agent[d].todo) : agent' = [agent EXCEPT ![d] = next]
  /\ UNCHANGED <<sub, task, account, online, handles, results, tick, review, wire,
                 holders, requeued, raced>>

-------------------------------------------------------------------------------
(* Devices, time and operators *)

\* heartbeat: the thread of the agent sends one every 30 seconds; or an operator
\* enables the device again.
Heartbeat(d) ==
  /\ d \notin online
  /\ online' = online \cup {d}
  /\ UNCHANGED <<sub, task, account, handles, results, tick, review, agent, wire,
                 holders, requeued, raced, faults>>

\* 90 seconds without a heartbeat, or update_device disables the device.
GoSilent(d) ==
  /\ d \in online /\ Fault("silence")
  /\ online' = online \ {d}
  /\ UNCHANGED <<sub, task, account, handles, results, tick, review, agent, wire,
                 holders, requeued, raced>>

\* The agent's process restarts; nothing of what it did is remembered.
Crash(d) ==
  /\ agent[d] # Resting /\ Fault("crash")
  /\ agent' = [agent EXCEPT ![d] = Resting]
  /\ UNCHANGED <<sub, task, account, online, handles, results, tick, review, wire,
                 holders, requeued, raced>>

\* LEASE_TIMEOUT_SECONDS since the last progress: of a slow execution, or of an
\* agent that hangs.
Expire(s) ==
  /\ Leased(sub[s]) /\ ~sub[s].late
  /\ \/ Fault("expiry")
     \/ sub[s].owner \notin Reliable /\ UNCHANGED faults
  /\ sub' = [sub EXCEPT ![s].late = TRUE]
  /\ UNCHANGED <<task, account, online, handles, results, tick, review, agent, wire,
                 holders, requeued, raced>>

\* requeue_dlq and terminate_dlq, as far as they read the row and find a dead letter.
OpenLetter(o, s, wants) ==
  /\ review[o] = {} /\ sub[s].status = "DLQ" /\ Fault(wants)
  /\ review' = [review EXCEPT ![o] =
                  {[wants |-> wants, subtask |-> s, gen |-> sub[s].gen]}]
  /\ UNCHANGED <<sub, task, account, online, handles, results, tick, agent, wire,
                 holders, requeued, raced>>

\* Fault: the generation starts anew, as the attempts do.
RequeueFresh(o) ==
  /\ \E q \in review[o] :
       LET s == q.subtask IN
       /\ q.wants = "requeue"
       /\ sub' = [sub EXCEPT ![s].status = "QUEUED", ![s].gen = 0,
                             ![s].attempts = 0, ![s].owner = NoDevice]
       /\ requeued' = [requeued EXCEPT ![s] = q.gen]
       /\ raced' = IF sub[s].gen # q.gen THEN raced \cup {s} ELSE raced
  /\ review' = [review EXCEPT ![o] = {}]
  /\ UNCHANGED <<task, account, online, handles, results, tick, agent, wire, holders,
                 faults>>

\* Fault: the attempts are not given back.
RequeueSpent(o) ==
  /\ \E q \in review[o] :
       LET s == q.subtask IN
       /\ q.wants = "requeue"
       /\ sub' = [sub EXCEPT ![s].status = "QUEUED", ![s].gen = q.gen + 1,
                             ![s].owner = NoDevice]
       /\ requeued' = [requeued EXCEPT ![s] = q.gen]
       /\ raced' = IF sub[s].gen # q.gen THEN raced \cup {s} ELSE raced
  /\ review' = [review EXCEPT ![o] = {}]
  /\ UNCHANGED <<task, account, online, handles, results, tick, agent, wire, holders,
                 faults>>

\* The rest of requeue_dlq: its row is updated, whatever became of it since.
Requeue(o) ==
  /\ \E q \in review[o] :
       LET s == q.subtask IN
       /\ q.wants = "requeue"
       /\ sub' = [sub EXCEPT ![s].status = "QUEUED", ![s].gen = q.gen + 1,
                             ![s].attempts = 0, ![s].owner = NoDevice]
       /\ requeued' = [requeued EXCEPT ![s] = q.gen]
       /\ raced' = IF sub[s].gen # q.gen THEN raced \cup {s} ELSE raced
  /\ review' = [review EXCEPT ![o] = {}]
  /\ UNCHANGED <<task, account, online, handles, results, tick, agent, wire, holders,
                 faults>>

\* The rest of terminate_dlq, which leaves the generation alone.
Terminate(o) ==
  /\ \E q \in review[o] :
       /\ q.wants = "terminate"
       /\ sub' = [sub EXCEPT ![q.subtask].status = "CANCELLED",
                             ![q.subtask].owner = NoDevice]
  /\ review' = [review EXCEPT ![o] = {}]
  /\ UNCHANGED <<task, account, online, handles, results, tick, agent, wire, holders,
                 requeued, raced, faults>>

AccountTransitions ==
  [ACTIVE          |-> {"CAPTCHA", "SUSPENDED"},
   CAPTCHA         |-> {"MANUAL_VERIFIED", "MANUAL_REVIEW", "SUSPENDED"},
   MANUAL_VERIFIED |-> {"CAPTCHA", "SUSPENDED"},
   SUSPENDED       |-> {"MANUAL_REVIEW"},
   MANUAL_REVIEW   |-> {"ACTIVE", "SUSPENDED", "CAPTCHA"}]

\* apply_account_transition
MoveAccount(a) ==
  /\ Fault("account")
  /\ \E target \in AccountTransitions[account[a].status] :
       account' = [account EXCEPT ![a].status = target,
                                  ![a].cooling = @ \/ target = "MANUAL_VERIFIED"]
  /\ UNCHANGED <<sub, task, online, handles, results, tick, review, agent, wire,
                 holders, requeued, raced>>

\* ACCOUNT_COOLDOWN_SECONDS have passed.
CoolDown(a) ==
  /\ account[a].cooling
  /\ account' = [account EXCEPT ![a].cooling = FALSE]
  /\ UNCHANGED <<sub, task, online, handles, results, tick, review, agent, wire,
                 holders, requeued, raced, faults>>

-------------------------------------------------------------------------------
TickStep(t)  == StartTick(t) \/ Reclaim(t) \/ Look(t) \/ Write(t)
AgentStep(d) == Pull(d) \/ Report(d) \/ SendHandle(d) \/ GoOn(d)

Next ==
  \/ \E k \in Task : CreateTask(k)
  \/ ScheduledTick \/ ProbeTick
  \/ \E t \in TickRequest : TickStep(t)
  \/ \E m \in wire : Deliver(m) \/ Lose(m)
  \/ \E d \in Device : AgentStep(d) \/ Renew(d) \/ Heartbeat(d) \/ GoSilent(d) \/ Crash(d)
  \/ \E s \in SubTask : Expire(s)
  \/ \E o \in Operator :
       \/ \E s \in SubTask, wants \in {"requeue", "terminate"} : OpenLetter(o, s, wants)
       \/ Requeue(o) \/ Terminate(o)
  \/ \E a \in Account : MoveAccount(a) \/ CoolDown(a)

Spec == Init /\ [][Next]_vars

\* The ticks are called again and again, the reliable agents run their loop and
\* their heartbeat thread, the network delivers what it does not lose, and time
\* passes.  Any other agent may hang in an execution or stay away for ever, but
\* not between a result and its handle: nothing would repair that.  An execution
\* has finitely many stages to renew its lease at.
Fairness ==
  /\ \A t \in TickRequest : WF_vars(TickStep(t))
  /\ \A d \in Reliable : WF_vars(AgentStep(d)) /\ WF_vars(Heartbeat(d))
  /\ WF_vars(\E m \in wire : Deliver(m) /\ wire' # wire)
  /\ WF_vars(ProbeTick) /\ \A a \in Account : WF_vars(CoolDown(a))
  /\ \A s \in SubTask : WF_vars(Expire(s))
  /\ \A d \in Device : WF_vars(SendHandle(d) \/ GoOn(d)) /\ <>[][~Renew(d)]_vars

FairSpec == Spec /\ Fairness

-------------------------------------------------------------------------------
(* Properties *)

\* Ticks and operators' requests write back by key what they read without a lock, and no
\* compare-and-set stops them (`raced`).  But for that, two leases never use one browser
\* profile at the same time (_profile_busy), however many requests overlap.
ProfileExclusive ==
  \A r, s \in SubTask \ raced :
    r # s /\ Leased(sub[r]) /\ Leased(sub[s]) => ~SameProfile(r, s)

\* A subtask that was ever queued after waiting has the verified handle of each
\* of its parents (activate_ready_dependents), whatever happened since.
DependentsWait ==
  \A s \in SubTask :
    sub[s].status \in {"QUEUED", "ASSIGNED", "DLQ", "CANCELLED"} => ParentsOf[s] \subseteq handles

\* The leases of a subtask since an operator last requeued it.
Leases(s) == {h \in holders : h[1] = s /\ h[2] > requeued[s]}

\* Every lease but the current one cost an attempt, whichever of the device, the
\* reclaimer or the operator ended it, so a subtask cannot be leased for ever.
LeasesAreCounted ==
  \A s \in SubTask \ raced : /\ sub[s].attempts <= MaxRetry + 1
                             /\ Cardinality(Leases(s)) <= sub[s].attempts + 1

\* The queue hands out what is ready, to one device and one profile at a time, and not
\* for ever; of a subtask that two requests wrote over each other nothing is promised.
LeasesSafe == TypeOK /\ ProfileExclusive /\ LeasesAreCounted

\* The leases and the results kept are those of a fenced queue that has lost what raced.
LedgerOf(rs) == {<<m.job[1], m.job[2], m.device>> : m \in rs}
Ledger == INSTANCE LeaseLedger WITH Item <- SubTask, Holder <- Device, leases <- holders,
                                    answers <- LedgerOf(results), lost <- raced
FencedQueue == Ledger!Spec

\* A subtask is over, or waits for an account or for an operator.
Settled(s) ==
  \/ sub[s].status \in {"SUCCESS", "FAILED", "DLQ", "CANCELLED"}
  \/ s \notin Probe /\ account[AccountOf[s]].status # "ACTIVE"
  \/ \E p \in ParentsOf[s] : sub[p].status = "DLQ"

\* Behind as many queued subtasks as a tick looks at, none of which may run: the accounts
\* of all of them are not active, and the tick never comes to `s`.
Starved(s) ==
  /\ sub[s].status = "QUEUED" /\ s \notin Queued(sub)
  /\ \A r \in Queued(sub) : ~MayRun(r)

\* Whatever is created gets settled, through devices that hang or fall silent for
\* ever, expired leases and lost results; or it is starved from some time on.
EverySubTaskSettles ==
  \A s \in SubTask : sub[s].status # "absent" ~> Settled(s) \/ []Starved(s)

\* An account an operator verified is decided by its probe in the end: the probe
\* is created, dispatched although its account is not active, and judged.  Or no
\* probe is left to create: the leases of all of them ran out, or they were
\* answered while the account had another status.  Or a probe is starved for good.
ProbeDecides ==
  \A a \in Account :
    account[a].status = "MANUAL_VERIFIED" ~>
      \/ account[a].status # "MANUAL_VERIFIED"
      \/ \A s \in Probe : AccountOf[s] = a =>
           sub[s].status \in {"SUCCESS", "FAILED", "DLQ", "CANCELLED"}
      \/ \E s \in Probe : AccountOf[s] = a /\ []Starved(s)

===============================================================================
