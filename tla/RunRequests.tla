------------------------------ MODULE RunRequests ------------------------------
(***************************************************************************)
(* "Run now" (selector_probe/blueprint.py, the run requests and the        *)
(* idempotency cache of store.py).  A call of the route reserves its       *)
(* operation, looks for an active request, takes the process's own lock,   *)
(* writes its request and asks Redis for the key under which a thread runs *)
(* one tick.  Each of these is a store of its own; any of them may fail.   *)
(***************************************************************************)
EXTENDS Naturals, FiniteSets

CONSTANTS
  Call,        \* calls of the route; a call's id is also the id of the request it proposes
  KeyChoice,   \* the idempotency keys the calls may have: a browser's repetition has the same one
  WebProcess,  \* the processes that serve the route
  Nobody,      \* no call
  Refusal,     \* the answer of a call that failed
  MaxRunFaults \* bound on dying processes, unreachable stores and requests that grow stale

ASSUME RunRequestsAssumption == Nobody \notin Call \cup WebProcess

VARIABLES
  key,       \* the key of each call
  operation, \* management_idempotency_cache
  request,   \* management_run_requests
  owner,     \* run_owner, in each process
  runKey,    \* Redis: who holds the key of the run
  call,      \* the calls of the route
  thread,    \* the thread that runs the tick of an accepted call
  takenOver, \* history: keys whose reservation lapsed and was taken over
  unrecorded,\* history: requests whose end the store did not take
  runFaults

reqVars == <<key, operation, request, owner, runKey, call, thread, takenOver, unrecorded,
             runFaults>>

Keys == {key[c] : c \in Call}

Terminal == {"completed", "failed", "dispatch_failed"}
Active   == {"queued", "running"}

Operation == [state : {"none", "pending", "completed", "failed"},
              answer : Call \cup {Nobody, Refusal}, lapsed : BOOLEAN]
Request == [status : {"none"} \cup Active \cup Terminal, stale : BOOLEAN]
CallState == [pc : {"new", "look", "own", "create", "dispatch", "exists", "busy", "record", "answered",
                     "lost"},
              web : WebProcess \cup {Nobody}, answer : Call \cup {Nobody, Refusal}]

RunRequestsTypeOK ==
  /\ key \in KeyChoice
  /\ operation \in [Keys -> Operation]
  /\ request \in [Call -> Request]
  /\ owner \in [WebProcess -> Call \cup {Nobody}] /\ runKey \in Call \cup {Nobody}
  /\ call \in [Call -> CallState]
  /\ thread \in [Call -> {"none", "tick", "running", "completed", "failed", "release", "done",
                              "lost"}]
  /\ unrecorded \subseteq Call

ReqInit ==
  /\ key \in KeyChoice
  /\ operation = [k \in Keys |-> [state |-> "none", answer |-> Nobody, lapsed |-> FALSE]]
  /\ request = [c \in Call |-> [status |-> "none", stale |-> FALSE]]
  /\ owner = [w \in WebProcess |-> Nobody] /\ runKey = Nobody
  /\ call = [c \in Call |-> [pc |-> "new", web |-> Nobody, answer |-> Nobody]]
  /\ thread = [c \in Call |-> "none"]
  /\ takenOver = {} /\ unrecorded = {} /\ runFaults = 0

RunFault == runFaults < MaxRunFaults /\ runFaults' = runFaults + 1

ActiveRequests == {r \in Call : request[r].status \in Active}

Move(c, pc) == call' = [call EXCEPT ![c].pc = pc]
Answer(c, pc, answer) == call' = [call EXCEPT ![c].pc = pc, ![c].answer = answer]

-------------------------------------------------------------------------------
(* The route *)

\* Fault: a pending reservation does not keep out a repetition.
FreeToAll(k) == operation[k].state \in {"none", "pending"}

\* A reservation that is pending for five minutes may be taken over.
Free(k) == \/ operation[k].state = "none"
           \/ operation[k].state = "pending" /\ operation[k].lapsed

\* reserve_management_operation: a key that is not free answers with what the cache holds,
\* while it is pending with the request that its first call proposed.
Reserve(c, w) ==
  LET k == key[c] IN
  /\ call[c].pc = "new"
  /\ IF Free(k)
     THEN /\ operation' = [operation EXCEPT ![k] =
                             [state |-> "pending", answer |-> c, lapsed |-> FALSE]]
          /\ takenOver' = IF operation[k].lapsed THEN takenOver \cup {k} ELSE takenOver
          /\ call' = [call EXCEPT ![c].pc = "look", ![c].web = w]
     ELSE /\ Answer(c, "answered", operation[k].answer)
          /\ UNCHANGED <<operation, takenOver>>
  /\ UNCHANGED <<key, request, owner, runKey, thread, unrecorded, runFaults>>

\* active_management_run_request
Look(c) ==
  /\ call[c].pc = "look"
  /\ IF ActiveRequests = {} THEN Move(c, "own")
     ELSE \E r \in ActiveRequests : Answer(c, "record", r)
  /\ UNCHANGED <<key, operation, request, owner, runKey, thread, takenOver, unrecorded,
                 runFaults>>

\* run_lock: another call of the process may be at work.
Own(c) ==
  LET w == call[c].web IN
  /\ call[c].pc = "own"
  /\ IF owner[w] # Nobody THEN Answer(c, "record", owner[w]) /\ UNCHANGED owner
     ELSE owner' = [owner EXCEPT ![w] = c] /\ Move(c, "create")
  /\ UNCHANGED <<key, operation, request, runKey, thread, takenOver, unrecorded, runFaults>>

\* Fault: the lock is kept.
KeptBy(c) == owner

\* release_run
ReleasedBy(c) == [w \in WebProcess |-> IF owner[w] = c THEN Nobody ELSE owner[w]]

\* expire_stale_management_run_requests: 30 minutes without progress
Expired == [r \in Call |-> IF request[r].status \in Active /\ request[r].stale
                           THEN [request[r] EXCEPT !.status = "failed"] ELSE request[r]]

\* create_management_run_request; of two insertions at once the index admits one.
Create(c) ==
  /\ call[c].pc = "create"
  /\ LET ongoing == {r \in Call : Expired[r].status \in Active} IN
     IF ongoing = {}
     THEN /\ request' = [Expired EXCEPT ![c] = [status |-> "queued", stale |-> FALSE]]
          /\ Move(c, "dispatch") /\ UNCHANGED owner
     ELSE /\ request' = Expired
          /\ owner' = ReleasedBy(c)
          /\ \E r \in ongoing : Answer(c, "exists", r)
  /\ UNCHANGED <<key, operation, runKey, thread, takenOver, unrecorded, runFaults>>

\* RedisRunDispatcher: the key is set if nobody has it, and a thread started.
Dispatch(c) ==
  /\ call[c].pc = "dispatch"
  /\ IF runKey = Nobody
     THEN /\ runKey' = c /\ thread' = [thread EXCEPT ![c] = "tick"]
          /\ Answer(c, "record", c) /\ UNCHANGED owner
     ELSE /\ owner' = ReleasedBy(c)
          /\ Answer(c, "busy", runKey)
          /\ UNCHANGED <<runKey, thread>>
  /\ UNCHANGED <<key, operation, request, takenOver, unrecorded, runFaults>>

\* Fault: a terminal request is written again.
Ends(c, status) == [request EXCEPT ![c].status = status]

\* Fault: a request that is running is not ended.
EndsQueued(c, status) ==
  IF request[c].status = "queued" THEN [request EXCEPT ![c].status = status] ELSE request

\* Only an active request is ended.
EndedAs(c, status) ==
  IF request[c].status \in Active THEN [request EXCEPT ![c].status = status] ELSE request

\* Fault: whoever comes last is remembered.
LastAnswer(c, state, answer) ==
  [operation EXCEPT ![key[c]].state = state, ![key[c]].answer = answer]

\* complete_management_operation: only a pending operation is completed.
Remembered(c, state, answer) ==
  IF operation[key[c]].state # "pending" THEN operation
  ELSE [operation EXCEPT ![key[c]].state = state, ![key[c]].answer = answer]

Record(c) ==
  /\ call[c].pc \in {"record", "exists", "busy"}
  /\ operation' = Remembered(c, "completed", call[c].answer)
  /\ request' = IF call[c].pc = "busy" THEN EndedAs(c, "dispatch_failed") ELSE request
  /\ Move(c, "answered")
  /\ UNCHANGED <<key, owner, runKey, thread, takenOver, unrecorded, runFaults>>

\* The store does not take the end of a request: it stays active.
EndIsLost(c) ==
  /\ request' = request
  /\ unrecorded' = IF request[c].status \in Active THEN unrecorded \cup {c} ELSE unrecorded

\* The store fails as the outcome is looked for or recorded: the reservation stays pending,
\* and a request that was found busy may stay queued.  In the handler of the insertion the
\* failure is remembered, if the store takes that.
RecordFails(c) ==
  /\ call[c].pc \in {"look", "record", "exists", "busy"} /\ RunFault
  /\ \/ UNCHANGED operation
     \/ call[c].pc = "exists" /\ operation' = Remembered(c, "failed", Refusal)
  /\ \/ call[c].pc # "busy" /\ UNCHANGED <<request, unrecorded>>
     \/ call[c].pc = "busy" /\ EndIsLost(c)
     \/ call[c].pc = "busy" /\ request' = EndedAs(c, "dispatch_failed") /\ UNCHANGED unrecorded
  /\ Answer(c, "answered", IF thread[c] = "none" THEN Refusal ELSE call[c].answer)
  /\ UNCHANGED <<key, owner, runKey, thread, takenOver>>

\* The store fails before, or Redis while, the call is dispatched; to note that, the store
\* is asked again, and a failure of this is swallowed.
CallFails(c) ==
  /\ call[c].pc \in {"create", "dispatch"} /\ RunFault
  /\ owner' = ReleasedBy(c)
  /\ \/ /\ request' = EndedAs(c, "dispatch_failed") /\ UNCHANGED unrecorded
        /\ operation' \in {operation, Remembered(c, "failed", Refusal)}
     \/ EndIsLost(c) /\ UNCHANGED operation
  /\ Answer(c, "answered", Refusal)
  /\ UNCHANGED <<key, runKey, thread, takenOver>>

-------------------------------------------------------------------------------
(* The thread *)

\* start_run takes an active request only.
MayStart(c) == request[c].status \in Active

\* The tick gets the probe's lease and starts its run, or it does not.
TickStartsFor(c) ==
  /\ thread[c] = "tick"
  /\ \/ /\ MayStart(c)
        /\ request' = [request EXCEPT ![c] = [status |-> "running", stale |-> FALSE]]
        /\ thread' = [thread EXCEPT ![c] = "running"]
     \/ thread' = [thread EXCEPT ![c] = "failed"] /\ UNCHANGED request
  /\ UNCHANGED <<key, operation, owner, runKey, call, takenOver, unrecorded, runFaults>>

\* update_run_progress
Progress(c) ==
  /\ thread[c] = "running" /\ request[c].status = "running" /\ request[c].stale
  /\ request' = [request EXCEPT ![c].stale = FALSE]
  /\ UNCHANGED <<key, operation, owner, runKey, call, thread, takenOver, unrecorded, runFaults>>

\* finish_run, at the end of the tick; a lost key makes it stop early and fail, and so does
\* a store that does not take its end.
TickEndsFor(c, status) ==
  /\ thread[c] = "running" /\ status \in {"completed", "failed"}
  /\ \/ /\ request' = EndedAs(c, status) /\ UNCHANGED runFaults
        /\ thread' = [thread EXCEPT ![c] = status]
     \/ /\ RunFault /\ UNCHANGED request
        /\ thread' = [thread EXCEPT ![c] = "failed"]
  /\ UNCHANGED <<key, operation, owner, runKey, call, takenOver, unrecorded>>

\* terminal_callback, whose failure is swallowed
Callback(c) ==
  /\ thread[c] \in {"completed", "failed"}
  /\ \/ request' = EndedAs(c, thread[c]) /\ UNCHANGED <<unrecorded, runFaults>>
     \/ RunFault /\ EndIsLost(c)
  /\ thread' = [thread EXCEPT ![c] = "release"]
  /\ UNCHANGED <<key, operation, owner, runKey, call, takenOver>>

\* The key, if it is still its own, and the lock
ReleaseRun(c) ==
  /\ thread[c] = "release"
  /\ runKey' = IF runKey = c THEN Nobody ELSE runKey
  /\ owner' = ReleasedBy(c)
  /\ thread' = [thread EXCEPT ![c] = "done"]
  /\ UNCHANGED <<key, operation, request, call, takenOver, unrecorded, runFaults>>

-------------------------------------------------------------------------------
(* Time and faults *)

ReservationLapses(k) ==
  /\ operation[k].state = "pending" /\ ~operation[k].lapsed /\ RunFault
  /\ operation' = [operation EXCEPT ![k].lapsed = TRUE]
  /\ UNCHANGED <<key, request, owner, runKey, call, thread, takenOver, unrecorded>>

GrowsStale(c) ==
  /\ request[c].status \in Active /\ ~request[c].stale /\ RunFault
  /\ request' = [request EXCEPT ![c].stale = TRUE]
  /\ UNCHANGED <<key, operation, owner, runKey, call, thread, takenOver, unrecorded>>

\* The key runs out after 15 minutes without a heartbeat.
KeyExpires ==
  /\ runKey # Nobody /\ RunFault
  /\ runKey' = Nobody
  /\ UNCHANGED <<key, operation, request, owner, call, thread, takenOver, unrecorded>>

\* run_busy_until: the lock runs out, too.
LockExpires(w) ==
  /\ owner[w] # Nobody /\ RunFault
  /\ owner' = [owner EXCEPT ![w] = Nobody]
  /\ UNCHANGED <<key, operation, request, runKey, call, thread, takenOver, unrecorded>>

WebDies(w) ==
  /\ \E c \in Call : call[c].web = w /\ RunFault
  /\ owner' = [owner EXCEPT ![w] = Nobody]
  /\ call' = [c \in Call |-> IF call[c].web = w /\ call[c].pc # "answered"
                             THEN [call[c] EXCEPT !.pc = "lost"] ELSE call[c]]
  /\ thread' = [c \in Call |-> IF call[c].web = w /\ thread[c] \notin {"none", "done"} THEN "lost"
                               ELSE thread[c]]
  /\ UNCHANGED <<key, operation, request, runKey, takenOver, unrecorded>>

CallStep(c)   == Look(c) \/ Own(c) \/ Create(c) \/ Dispatch(c) \/ Record(c)
ThreadStep(c) == TickStartsFor(c) \/ TickEndsFor(c, "completed") \/ TickEndsFor(c, "failed")
                 \/ Callback(c) \/ ReleaseRun(c)

ReqNext ==
  \/ \E c \in Call : \/ \E w \in WebProcess : Reserve(c, w)
                     \/ CallStep(c) \/ RecordFails(c) \/ CallFails(c)
                     \/ ThreadStep(c) \/ Progress(c)
                     \/ GrowsStale(c)
  \/ \E k \in Keys : ReservationLapses(k)
  \/ \E w \in WebProcess : LockExpires(w) \/ WebDies(w)
  \/ KeyExpires

ReqSpec == ReqInit /\ [][ReqNext]_reqVars

ReqFairness == \A c \in Call : WF_reqVars(CallStep(c)) /\ WF_reqVars(ThreadStep(c))

-------------------------------------------------------------------------------
(* Properties *)

\* What a process locks it is working on: no lost call or finished thread keeps the lock.
LockIsAtWork ==
  \A w \in WebProcess : owner[w] # Nobody =>
    \/ call[owner[w]].pc \in {"create", "dispatch"} /\ call[owner[w]].web = w
    \/ thread[owner[w]] \notin {"none", "done", "lost"}

\* A request is started, and reported, by its own thread only while it is active: once it
\* failed to be dispatched, expired or ended, it stays as it is.
EndedRequestStays ==
  [][\A c \in Call : request[c].status \in Terminal => request'[c] = request[c]]_reqVars

\* However often a browser repeats a call, one request is written for it, unless the
\* reservation of the first call lapsed.
OneRequestPerKey ==
  \A c, d \in Call : /\ c # d /\ key[c] = key[d] /\ key[c] \notin takenOver
                     /\ request[c].status # "none"
                     => request[d].status = "none"

\* What a repetition was once told as the outcome, every later one is told.
OutcomeStays ==
  [][\A k \in Keys : operation[k].state \in {"completed", "failed"}
                       => operation'[k] = operation[k]]_reqVars

Died(c) == call[c].pc = "lost" \/ thread[c] = "lost"

\* A request whose process lives ends; unless the store did not take its end, which nobody
\* tries to write again.
RequestsEnd ==
  \A c \in Call : request[c].status \in Active
    ~> (request[c].status \in Terminal \/ Died(c) \/ c \in unrecorded)

\* The lock, the requests and the reservations of run-now belong together.
RequestsSafe == RunRequestsTypeOK /\ LockIsAtWork /\ OneRequestPerKey

\* A request ends, in one way, and what was answered about it stays true.
RequestsEndOnce == EndedRequestStays /\ OutcomeStays /\ RequestsEnd
================================================================================
