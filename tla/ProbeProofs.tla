----------------------------- MODULE ProbeProofs ------------------------------
(***************************************************************************)
(* The safety of the selector probe's other stores, proved for any number  *)
(* of processes, calls, rows and faults: run requests, the deliveries of   *)
(* alerts, and the effects of runs on gates and alerts.  LeastIsOne is     *)
(* proved with the publication's theorems.                                 *)
(***************************************************************************)
EXTENDS RunRequests, WebhookDelivery, ProbeEffects, PublicationProofs, SequenceTheorems

(* Run requests.  A call is named by its request: a request was written by a call that   *)
(* reserved its key in some process, and what a process locks belongs to that process.   *)

\* A call that has not come to its request has none, nor a thread.
NotYet(c) == call[c].pc \in {"new", "look", "own", "create"} =>
               request[c].status = "none" /\ thread[c] = "none"

\* A call is in the process that reserved its key, and in none before.
Placed(c) == /\ call[c].pc = "new" => call[c].web = Nobody
             /\ call[c].pc \in {"look", "own", "create"} => call[c].web # Nobody
             /\ request[c].status # "none" => call[c].web # Nobody

\* A key is reserved by one call, unless its reservation lapsed.
ReservedOnce ==
  /\ \A c \in Call : call[c].web # Nobody => operation[key[c]].state # "none"
  /\ \A c, d \in Call : /\ c # d /\ key[c] = key[d]
                        /\ call[c].web # Nobody /\ call[d].web # Nobody
                        => key[c] \in takenOver

\* A process is locked by a call of its own.
LockedByOwn == \A w \in WebProcess : owner[w] # Nobody => call[owner[w]].web = w

CallsPlaced == \A c \in Call : NotYet(c) /\ Placed(c)

RequestsInv == /\ RunRequestsTypeOK /\ CallsPlaced /\ ReservedOnce
               /\ LockedByOwn /\ LockIsAtWork

\* What a step may do to a call: reserve its key, or go on towards its answer.
CallGoes(x) ==
  \/ call'[x] = call[x]
  \/ call[x].pc = "new" /\ call'[x].pc = "look" /\ call'[x].web # Nobody
  \/ /\ call'[x].web = call[x].web /\ call'[x].pc \notin {"new", "look"}
     /\ call'[x].pc = "own" => call[x].pc = "look"
     /\ call'[x].pc = "create" => call[x].pc = "own"

\* A request is written by its own call, and changed while it is active.
RequestGoes(x) ==
  \/ request'[x] = request[x]
  \/ request[x].status \in Active /\ request'[x].status # "none"
  \/ call[x].pc = "create" /\ call'[x].pc = "dispatch"

\* A thread is started by its own call.
ThreadGoes(x) ==
  \/ thread'[x] = thread[x]
  \/ thread[x] # "none"
  \/ call[x].pc = "dispatch" /\ call'[x].pc = "record"

CallsGo == \A x \in Call : CallGoes(x) /\ RequestGoes(x) /\ ThreadGoes(x)

\* A key stays reserved, and what a repetition was told stays.
OperationsGo ==
  /\ key' = key /\ takenOver \subseteq takenOver'
  /\ \A k \in Keys : operation[k].state # "none" => operation'[k].state # "none"
  /\ \A k \in Keys : operation[k].state \in {"completed", "failed"} => operation'[k] = operation[k]

\* A process takes a call that reserves a key that is free, or whose reservation lapsed.
OneIsPlaced ==
  \A x \in Call : call'[x].web # call[x].web =>
    /\ operation'[key[x]].state # "none"
    /\ \A y \in Call \ {x} : call'[y].web = call[y].web
    /\ key[x] \in takenOver' \/ operation[key[x]].state = "none"

AtWork(x, w) == \/ call[x].pc \in {"create", "dispatch"} /\ call[x].web = w
                \/ thread[x] \notin {"none", "done", "lost"}

\* A lock is taken by a call of the process that goes to work, and kept while it is at work.
OwnersGo ==
  \A w \in WebProcess : owner'[w] # Nobody =>
    \/ call'[owner'[w]].pc = "create" /\ call'[owner'[w]].web = w
    \/ /\ owner'[w] = owner[w]
       /\ AtWork(owner[w], w) /\ call[owner[w]].web = w => AtWork(owner[w], w)'

RequestsGo == CallsGo /\ OperationsGo /\ OneIsPlaced /\ OwnersGo

LEMMA CallFields ==
  ASSUME NEW r \in CallState
  PROVE  \A pc, a : /\ [r EXCEPT !.pc = pc].pc = pc /\ [r EXCEPT !.pc = pc].web = r.web
                    /\ [r EXCEPT !.pc = pc, !.answer = a].pc = pc
                    /\ [r EXCEPT !.pc = pc, !.answer = a].web = r.web
BY DEF CallState


Pcs     == {"new", "look", "own", "create", "dispatch", "exists", "busy", "record",
            "answered", "lost"}
Answers == Call \cup {Nobody, Refusal}

LEMMA CallTyped ==
  ASSUME call \in [Call -> CallState], NEW c \in Call, NEW pc \in Pcs, NEW answer \in Answers
  PROVE  /\ Move(c, pc) => call' \in [Call -> CallState]
         /\ Answer(c, pc, answer) => call' \in [Call -> CallState]
<1>1. call[c] \in CallState
    OBVIOUS
<1>2. /\ [call[c] EXCEPT !.pc = pc] \in CallState
      /\ [call[c] EXCEPT !.pc = pc, !.answer = answer] \in CallState
    BY <1>1 DEF CallState, Pcs, Answers
<1>3. Answer(c, pc, answer) =>
        call' = [call EXCEPT ![c] = [call[c] EXCEPT !.pc = pc, !.answer = answer]]
    BY DEF Answer
<1> QED
    BY <1>2, <1>3 DEF Move

LEMMA RequestTyped ==
  ASSUME request \in [Call -> Request], NEW c \in Call, NEW s \in Terminal
  PROVE  EndedAs(c, s) \in [Call -> Request]
<1>1. [request[c] EXCEPT !.status = s] \in Request
    BY DEF Request
<1> QED
    BY <1>1 DEF EndedAs

LEMMA ExpiredTyped ==
  ASSUME request \in [Call -> Request]
  PROVE  /\ Expired \in [Call -> Request]
         /\ \A x \in Call : \/ Expired[x] = request[x]
                            \/ request[x].status \in Active /\ Expired[x].status = "failed"
<1>1. ASSUME NEW x \in Call
      PROVE  /\ [request[x] EXCEPT !.status = "failed"] \in Request
             /\ [request[x] EXCEPT !.status = "failed"].status = "failed"
    BY DEF Request, Terminal
<1> QED
    BY <1>1 DEF Expired

LEMMA OperationTyped ==
  ASSUME operation \in [Keys -> Operation], NEW c \in Call,
         NEW state \in {"completed", "failed"}, NEW answer \in Answers
  PROVE  Remembered(c, state, answer) \in [Keys -> Operation]
<1>1. key[c] \in Keys
    BY DEF Keys
<1>2. [operation[key[c]] EXCEPT !.state = state, !.answer = answer] \in Operation
    BY <1>1 DEF Operation, Answers
<1>3. Remembered(c, state, answer) =
        IF operation[key[c]].state # "pending" THEN operation
        ELSE [operation EXCEPT ![key[c]] = [operation[key[c]] EXCEPT !.state = state, !.answer = answer]]
    BY <1>1 DEF Remembered
<1> QED
    BY <1>1, <1>2, <1>3


LEMMA ReserveGoes ==
  ASSUME RunRequestsTypeOK, NEW c \in Call, NEW w \in WebProcess, Reserve(c, w)
  PROVE  RunRequestsTypeOK' /\ RequestsGo
<1>1. RunRequestsTypeOK'
  <2>1. key[c] \in Keys /\ Keys' = Keys
      BY DEF Keys, Reserve
  <2>2. CASE Free(key[c])
    <3>1. [call[c] EXCEPT !.pc = "look", !.web = w] \in CallState
      <4>1. call[c] \in CallState
          BY DEF RunRequestsTypeOK
      <4>2. "look" \in {"new", "look", "own", "create", "dispatch", "exists", "busy", "record",
                         "answered", "lost"}
          OBVIOUS
      <4> QED
          BY ONLY <4>1, <4>2, w \in WebProcess DEF CallState
    <3>2. call' = [call EXCEPT ![c] = [call[c] EXCEPT !.pc = "look", !.web = w]]
        BY <2>2 DEF Reserve
    <3>3. [state |-> "pending", answer |-> c, lapsed |-> FALSE] \in Operation
        BY DEF Operation
    <3> QED
        BY <2>1, <2>2, <3>1, <3>2, <3>3 DEF Reserve, RunRequestsTypeOK
  <2>3. CASE ~Free(key[c])
    <3>1. operation[key[c]].answer \in Answers
        BY <2>1 DEF RunRequestsTypeOK, Operation, Answers
    <3> QED
        BY <2>1, <2>3, <3>1, CallTyped DEF Reserve, RunRequestsTypeOK, Pcs
  <2> QED
      BY <2>2, <2>3
<1>2. CallsGo
    BY RunRequestsAssumption DEF Reserve, Answer, Free, RunRequestsTypeOK, Keys, CallsGo,
       CallGoes, RequestGoes, ThreadGoes, CallState, Request, Active
<1>3. OperationsGo
    BY RunRequestsAssumption DEF Reserve, Answer, Free, RunRequestsTypeOK, Keys, OperationsGo,
       Operation
<1>4. OneIsPlaced
    BY RunRequestsAssumption DEF Reserve, Answer, Free, RunRequestsTypeOK, Keys, OneIsPlaced,
       CallState, Operation
<1>5. OwnersGo
    BY RunRequestsAssumption DEF Reserve, Answer, Free, RunRequestsTypeOK, Keys, OwnersGo, AtWork,
       CallState
<1> QED
    BY <1>1, <1>2, <1>3, <1>4, <1>5 DEF RequestsGo

LEMMA LookGoes ==
  ASSUME RunRequestsTypeOK, NEW c \in Call, Look(c)
  PROVE  RunRequestsTypeOK' /\ RequestsGo
<1>1. RunRequestsTypeOK'
    BY CallTyped DEF Look, ActiveRequests, RunRequestsTypeOK, Keys, Pcs, Answers
<1>2. CallsGo
    BY RunRequestsAssumption DEF Look, Move, Answer, ActiveRequests, RunRequestsTypeOK, Keys,
       CallsGo, CallGoes, RequestGoes, ThreadGoes, CallState, Request, Active
<1>3. OperationsGo
    BY RunRequestsAssumption DEF Look, Move, Answer, ActiveRequests, RunRequestsTypeOK, Keys,
       OperationsGo, Operation
<1>4. OneIsPlaced
    BY RunRequestsAssumption DEF Look, Move, Answer, ActiveRequests, RunRequestsTypeOK, Keys,
       OneIsPlaced, CallState, Operation
<1>5. OwnersGo
    BY RunRequestsAssumption DEF Look, Move, Answer, ActiveRequests, RunRequestsTypeOK, Keys,
       OwnersGo, AtWork, CallState
<1> QED
    BY <1>1, <1>2, <1>3, <1>4, <1>5 DEF RequestsGo

LEMMA OwnGoes ==
  ASSUME RunRequestsTypeOK, CallsPlaced, NEW c \in Call, Own(c)
  PROVE  RunRequestsTypeOK' /\ RequestsGo
<1>1. RunRequestsTypeOK'
  <2>1. call[c].web \in WebProcess
      BY RunRequestsAssumption DEF Own, RunRequestsTypeOK, CallsPlaced, Placed, CallState
  <2>2. owner[call[c].web] \in Call \cup {Nobody}
      BY <2>1 DEF RunRequestsTypeOK
  <2>3. call' \in [Call -> CallState]
      BY <2>2, CallTyped DEF Own, RunRequestsTypeOK, Pcs, Answers
  <2> QED
      BY <2>1, <2>3 DEF Own, RunRequestsTypeOK, Keys
<1>2. CallsGo
    BY RunRequestsAssumption DEF Own, Move, Answer, RunRequestsTypeOK, Keys, CallsGo, CallGoes,
       RequestGoes, ThreadGoes, CallState, Request, Active
<1>3. OperationsGo
    BY RunRequestsAssumption DEF Own, Move, Answer, RunRequestsTypeOK, Keys, OperationsGo,
       Operation
<1>4. OneIsPlaced
    BY RunRequestsAssumption DEF Own, Move, Answer, RunRequestsTypeOK, Keys, OneIsPlaced,
       CallState, Operation
<1>5. OwnersGo
    BY RunRequestsAssumption DEF Own, Move, Answer, RunRequestsTypeOK, Keys, OwnersGo, AtWork,
       CallState
<1> QED
    BY <1>1, <1>2, <1>3, <1>4, <1>5 DEF RequestsGo

LEMMA CreateGoes ==
  ASSUME RunRequestsTypeOK, NEW c \in Call, Create(c)
  PROVE  RunRequestsTypeOK' /\ RequestsGo
<1> DEFINE ongoing == {r \in Call : Expired[r].status \in Active}
<1>a. /\ call[c].pc = "create" /\ Expired \in [Call -> Request]
      /\ [status |-> "queued", stale |-> FALSE] \in Request
    BY ExpiredTyped DEF Create, RunRequestsTypeOK, Request, Active
<1>b. \/ /\ request' = [Expired EXCEPT ![c] = [status |-> "queued", stale |-> FALSE]]
         /\ Move(c, "dispatch") /\ owner' = owner
      \/ /\ request' = Expired /\ owner' = ReleasedBy(c)
         /\ \E r \in Call : Answer(c, "exists", r)
    BY DEF Create
<1>c. /\ \A x \in Call \ {c} : call'[x] = call[x]
      /\ call'[c].web = call[c].web
      /\ \/ call'[c].pc = "dispatch" /\ owner' = owner
         \/ /\ call'[c].pc = "exists" /\ owner' = ReleasedBy(c)
            /\ request' = Expired
  <2>1. call[c] \in CallState
      BY DEF RunRequestsTypeOK
  <2>2. \A pc : Move(c, pc) => /\ \A x \in Call \ {c} : call'[x] = call[x]
                               /\ call'[c].web = call[c].web /\ call'[c].pc = pc
      BY <2>1, CallFields DEF Move, RunRequestsTypeOK
  <2>3. \A pc, r : Answer(c, pc, r) => /\ \A x \in Call \ {c} : call'[x] = call[x]
                                       /\ call'[c].web = call[c].web /\ call'[c].pc = pc
      BY <2>1, CallFields DEF Answer, RunRequestsTypeOK
  <2> QED
      BY <1>b, <2>2, <2>3
<1>d. \A x \in Call \ {c} : request'[x] = Expired[x]
    BY <1>a, <1>b
<1>1. RunRequestsTypeOK'
  <2>1. call' \in [Call -> CallState]
      BY <1>b, CallTyped DEF RunRequestsTypeOK, Pcs, Answers
  <2>2. request' \in [Call -> Request]
      BY <1>a, <1>b
  <2> QED
      BY <1>b, <2>1, <2>2 DEF Create, ReleasedBy, RunRequestsTypeOK, Keys
<1>2. CallsGo
    BY <1>a, <1>c, <1>d, ExpiredTyped DEF Create, RunRequestsTypeOK, CallsGo, CallGoes,
       RequestGoes,
       ThreadGoes
<1>3. OperationsGo
    BY DEF Create, OperationsGo
<1>4. OneIsPlaced
    BY <1>c DEF OneIsPlaced
<1>5. OwnersGo
    BY <1>a, <1>c DEF Create, ReleasedBy, RunRequestsTypeOK, OwnersGo, AtWork
<1> QED
    BY <1>1, <1>2, <1>3, <1>4, <1>5 DEF RequestsGo

LEMMA DispatchGoes ==
  ASSUME RunRequestsTypeOK, NEW c \in Call, Dispatch(c)
  PROVE  RunRequestsTypeOK' /\ RequestsGo
<1>1. RunRequestsTypeOK'
    BY RunRequestsAssumption, CallTyped DEF Dispatch, ReleasedBy, RunRequestsTypeOK, Keys, Pcs,
       Answers, Terminal
<1>2. CallsGo
    BY RunRequestsAssumption DEF Dispatch, Answer, ReleasedBy, RunRequestsTypeOK, Keys, CallsGo,
       CallGoes, RequestGoes, ThreadGoes, CallState, Request, Active
<1>3. OperationsGo
    BY RunRequestsAssumption DEF Dispatch, Answer, ReleasedBy, RunRequestsTypeOK, Keys,
       OperationsGo, Operation
<1>4. OneIsPlaced
    BY RunRequestsAssumption DEF Dispatch, Answer, ReleasedBy, RunRequestsTypeOK, Keys,
       OneIsPlaced, CallState, Operation
<1>5. OwnersGo
    BY RunRequestsAssumption DEF Dispatch, Answer, ReleasedBy, RunRequestsTypeOK, Keys, OwnersGo,
       AtWork, CallState
<1> QED
    BY <1>1, <1>2, <1>3, <1>4, <1>5 DEF RequestsGo

LEMMA RecordGoes ==
  ASSUME RunRequestsTypeOK, NEW c \in Call, Record(c)
  PROVE  RunRequestsTypeOK' /\ RequestsGo
<1>1. RunRequestsTypeOK'
  <2>1. call[c].answer \in Answers
      BY DEF RunRequestsTypeOK, CallState, Answers
  <2>2. call' \in [Call -> CallState]
      BY <2>1, CallTyped DEF Record, RunRequestsTypeOK, Pcs
  <2>3. request' \in [Call -> Request]
      BY RequestTyped DEF Record, RunRequestsTypeOK, Terminal
  <2>4. operation' \in [Keys -> Operation]
      BY <2>1, OperationTyped DEF Record, RunRequestsTypeOK
  <2> QED
      BY <2>2, <2>3, <2>4 DEF Record, RunRequestsTypeOK, Keys
<1>2. CallsGo
    BY RunRequestsAssumption DEF Record, Move, Remembered, EndedAs, RunRequestsTypeOK, Keys,
       CallsGo, CallGoes, RequestGoes, ThreadGoes, CallState, Request, Active
<1>3. OperationsGo
    BY RunRequestsAssumption DEF Record, Move, Remembered, EndedAs, RunRequestsTypeOK, Keys,
       OperationsGo, Operation
<1>4. OneIsPlaced
    BY RunRequestsAssumption DEF Record, Move, Remembered, EndedAs, RunRequestsTypeOK, Keys,
       OneIsPlaced, CallState, Operation
<1>5. OwnersGo
    BY RunRequestsAssumption DEF Record, Move, Remembered, EndedAs, RunRequestsTypeOK, Keys,
       OwnersGo, AtWork, CallState
<1> QED
    BY <1>1, <1>2, <1>3, <1>4, <1>5 DEF RequestsGo

LEMMA RecordFailsGoes ==
  ASSUME RunRequestsTypeOK, NEW c \in Call, RecordFails(c)
  PROVE  RunRequestsTypeOK' /\ RequestsGo
<1>0. /\ \/ operation' = operation
         \/ operation' = Remembered(c, "failed", Refusal)
      /\ \/ request' = request
         \/ request' = EndedAs(c, "dispatch_failed")
      /\ unrecorded' \in {unrecorded, unrecorded \cup {c}}
      /\ UNCHANGED <<key, owner, runKey, thread, takenOver>>
    BY DEF RecordFails, EndIsLost
<1>1. RunRequestsTypeOK'
  <2>1. call[c].answer \in Answers
      BY DEF RunRequestsTypeOK, CallState, Answers
  <2>2. call' \in [Call -> CallState]
      BY <2>1, CallTyped DEF RecordFails, RunRequestsTypeOK, Pcs, Answers
  <2>3. request' \in [Call -> Request]
      BY <1>0, RequestTyped DEF RunRequestsTypeOK, Terminal
  <2>4. operation' \in [Keys -> Operation]
      BY <1>0, OperationTyped DEF RunRequestsTypeOK, Answers
  <2> QED
      BY <1>0, <2>2, <2>3, <2>4 DEF RunRequestsTypeOK, Keys
<1>2. CallsGo
    BY <1>0, RunRequestsAssumption DEF RecordFails, Answer, EndedAs, RunRequestsTypeOK, Keys,
       CallsGo, CallGoes, RequestGoes, ThreadGoes, CallState, Request, Active
<1>3. OperationsGo
    BY <1>0, RunRequestsAssumption DEF Remembered, RunRequestsTypeOK, Keys, OperationsGo, Operation
<1>4. OneIsPlaced
    BY <1>0, RunRequestsAssumption DEF RecordFails, Answer, RunRequestsTypeOK, Keys, OneIsPlaced,
       CallState
<1>5. OwnersGo
    BY <1>0, RunRequestsAssumption DEF RecordFails, Answer, RunRequestsTypeOK, Keys, OwnersGo,
       AtWork, CallState
<1> QED
    BY <1>1, <1>2, <1>3, <1>4, <1>5 DEF RequestsGo

LEMMA CallFailsGoes ==
  ASSUME RunRequestsTypeOK, NEW c \in Call, CallFails(c)
  PROVE  RunRequestsTypeOK' /\ RequestsGo
<1>0. /\ \/ operation' = operation
         \/ operation' = Remembered(c, "failed", Refusal)
      /\ \/ request' = request
         \/ request' = EndedAs(c, "dispatch_failed")
      /\ unrecorded' \in {unrecorded, unrecorded \cup {c}}
      /\ owner' = ReleasedBy(c)
      /\ UNCHANGED <<key, runKey, thread, takenOver>>
    BY DEF CallFails, EndIsLost
<1>1. RunRequestsTypeOK'
  <2>1. call' \in [Call -> CallState]
      BY CallTyped DEF CallFails, RunRequestsTypeOK, Pcs, Answers
  <2>2. request' \in [Call -> Request]
      BY <1>0, RequestTyped DEF RunRequestsTypeOK, Terminal
  <2>3. operation' \in [Keys -> Operation]
      BY <1>0, OperationTyped DEF RunRequestsTypeOK, Answers
  <2> QED
      BY <1>0, <2>1, <2>2, <2>3 DEF ReleasedBy, RunRequestsTypeOK, Keys
<1>2. CallsGo
    BY <1>0, RunRequestsAssumption DEF CallFails, Answer, Remembered, EndedAs, ReleasedBy,
       RunRequestsTypeOK, Keys, CallsGo, CallGoes, RequestGoes, ThreadGoes, CallState, Request,
       Active
<1>3. OperationsGo
    BY <1>0, RunRequestsAssumption DEF CallFails, Answer, Remembered, EndedAs, ReleasedBy,
       RunRequestsTypeOK, Keys, OperationsGo, Operation
<1>4. OneIsPlaced
    BY <1>0, RunRequestsAssumption DEF CallFails, Answer, Remembered, EndedAs, ReleasedBy,
       RunRequestsTypeOK, Keys, OneIsPlaced, CallState, Operation
<1>5. OwnersGo
    BY <1>0, RunRequestsAssumption DEF CallFails, Answer, Remembered, EndedAs, ReleasedBy,
       RunRequestsTypeOK, Keys, OwnersGo, AtWork, CallState
<1> QED
    BY <1>1, <1>2, <1>3, <1>4, <1>5 DEF RequestsGo

LEMMA TickStartsGoes ==
  ASSUME RunRequestsTypeOK, NEW c \in Call, TickStartsFor(c)
  PROVE  RunRequestsTypeOK' /\ RequestsGo
<1>1. RunRequestsTypeOK'
  <2>1. [status |-> "running", stale |-> FALSE] \in Request
      BY DEF Request, Active
  <2>2. request' \in [Call -> Request]
      BY <2>1 DEF TickStartsFor, RunRequestsTypeOK
  <2>3. thread' \in [Call -> {"none", "tick", "running", "completed", "failed", "release",
                              "done", "lost"}]
      BY DEF TickStartsFor, RunRequestsTypeOK
  <2> QED
      BY <2>2, <2>3 DEF TickStartsFor, RunRequestsTypeOK, Keys
<1>2. CallsGo
    BY RunRequestsAssumption DEF TickStartsFor, MayStart, RunRequestsTypeOK, Keys, CallsGo,
       CallGoes, RequestGoes, ThreadGoes, CallState, Request, Active
<1>3. OperationsGo
    BY RunRequestsAssumption DEF TickStartsFor, MayStart, RunRequestsTypeOK, Keys, OperationsGo,
       Operation
<1>4. OneIsPlaced
    BY RunRequestsAssumption DEF TickStartsFor, MayStart, RunRequestsTypeOK, Keys, OneIsPlaced,
       CallState, Operation
<1>5. OwnersGo
    BY RunRequestsAssumption DEF TickStartsFor, MayStart, RunRequestsTypeOK, Keys, OwnersGo,
       AtWork, CallState
<1> QED
    BY <1>1, <1>2, <1>3, <1>4, <1>5 DEF RequestsGo

LEMMA TickEndsGoes ==
  ASSUME RunRequestsTypeOK, NEW c \in Call, NEW s, TickEndsFor(c, s)
  PROVE  RunRequestsTypeOK' /\ RequestsGo
<1>1. RunRequestsTypeOK'
  <2>1. s \in Terminal /\ s \in {"completed", "failed"}
      BY DEF TickEndsFor, Terminal
  <2>2. EndedAs(c, s) \in [Call -> Request]
      BY <2>1, RequestTyped DEF RunRequestsTypeOK
  <2>3. request' \in [Call -> Request]
      BY <2>2 DEF TickEndsFor, RunRequestsTypeOK
  <2>4. /\ thread' \in [Call -> {"none", "tick", "running", "completed", "failed", "release", "done",
                                  "lost"}]
        /\ UNCHANGED <<key, operation, owner, runKey, call, unrecorded>>
      BY <2>1 DEF TickEndsFor, RunRequestsTypeOK
  <2> QED
      BY <2>3, <2>4 DEF RunRequestsTypeOK, Keys
<1>2. CallsGo
    BY RunRequestsAssumption DEF TickEndsFor, EndedAs, RunRequestsTypeOK, Keys, CallsGo, CallGoes,
       RequestGoes, ThreadGoes, CallState, Request, Active
<1>3. OperationsGo
    BY RunRequestsAssumption DEF TickEndsFor, EndedAs, RunRequestsTypeOK, Keys, OperationsGo,
       Operation
<1>4. OneIsPlaced
    BY RunRequestsAssumption DEF TickEndsFor, EndedAs, RunRequestsTypeOK, Keys, OneIsPlaced,
       CallState, Operation
<1>5. OwnersGo
    BY RunRequestsAssumption DEF TickEndsFor, EndedAs, RunRequestsTypeOK, Keys, OwnersGo, AtWork,
       CallState
<1> QED
    BY <1>1, <1>2, <1>3, <1>4, <1>5 DEF RequestsGo

LEMMA CallbackGoes ==
  ASSUME RunRequestsTypeOK, NEW c \in Call, Callback(c)
  PROVE  RunRequestsTypeOK' /\ RequestsGo
<1>1. RunRequestsTypeOK'
    BY RunRequestsAssumption, RequestTyped DEF Callback, EndIsLost, RunRequestsTypeOK, Keys, Pcs, Answers,
       Terminal
<1>2. CallsGo
    BY RunRequestsAssumption DEF Callback, EndIsLost, EndedAs, RunRequestsTypeOK, Keys, CallsGo, CallGoes,
       RequestGoes, ThreadGoes, CallState, Request, Active
<1>3. OperationsGo
    BY RunRequestsAssumption DEF Callback, EndIsLost, EndedAs, RunRequestsTypeOK, Keys, OperationsGo,
       Operation
<1>4. OneIsPlaced
    BY RunRequestsAssumption DEF Callback, EndIsLost, EndedAs, RunRequestsTypeOK, Keys, OneIsPlaced,
       CallState, Operation
<1>5. OwnersGo
    BY RunRequestsAssumption DEF Callback, EndIsLost, EndedAs, RunRequestsTypeOK, Keys, OwnersGo, AtWork,
       CallState
<1> QED
    BY <1>1, <1>2, <1>3, <1>4, <1>5 DEF RequestsGo

LEMMA ReleaseRunGoes ==
  ASSUME RunRequestsTypeOK, NEW c \in Call, ReleaseRun(c)
  PROVE  RunRequestsTypeOK' /\ RequestsGo
<1>1. RunRequestsTypeOK'
    BY RunRequestsAssumption DEF ReleaseRun, ReleasedBy, RunRequestsTypeOK, Keys, Operation,
       Request, CallState, Active, Terminal
<1>2. CallsGo
    BY RunRequestsAssumption DEF ReleaseRun, ReleasedBy, RunRequestsTypeOK, Keys, CallsGo,
       CallGoes, RequestGoes, ThreadGoes, CallState, Request, Active
<1>3. OperationsGo
    BY RunRequestsAssumption DEF ReleaseRun, ReleasedBy, RunRequestsTypeOK, Keys, OperationsGo,
       Operation
<1>4. OneIsPlaced
    BY RunRequestsAssumption DEF ReleaseRun, ReleasedBy, RunRequestsTypeOK, Keys, OneIsPlaced,
       CallState, Operation
<1>5. OwnersGo
    BY RunRequestsAssumption DEF ReleaseRun, ReleasedBy, RunRequestsTypeOK, Keys, OwnersGo,
       AtWork, CallState
<1> QED
    BY <1>1, <1>2, <1>3, <1>4, <1>5 DEF RequestsGo

LEMMA AgingGoes ==
  ASSUME RunRequestsTypeOK, NEW c \in Call, Progress(c) \/ GrowsStale(c)
  PROVE  RunRequestsTypeOK' /\ RequestsGo
<1>1. RunRequestsTypeOK'
  <2>1. \A b \in BOOLEAN : [request[c] EXCEPT !.stale = b] \in Request
      BY DEF RunRequestsTypeOK, Request
  <2>2. PICK b \in BOOLEAN : request' = [request EXCEPT ![c] = [request[c] EXCEPT !.stale = b]]
      BY DEF Progress, GrowsStale
  <2>3. request' \in [Call -> Request]
      BY <2>1, <2>2 DEF RunRequestsTypeOK
  <2>4. UNCHANGED <<key, operation, owner, runKey, call, thread, unrecorded>>
      BY DEF Progress, GrowsStale
  <2> QED
      BY <2>3, <2>4 DEF RunRequestsTypeOK, Keys
<1>2. CallsGo
    BY RunRequestsAssumption DEF Progress, GrowsStale, RunRequestsTypeOK, Keys, CallsGo, CallGoes,
       RequestGoes, ThreadGoes, CallState, Request, Active
<1>3. OperationsGo
    BY RunRequestsAssumption DEF Progress, GrowsStale, RunRequestsTypeOK, Keys, OperationsGo,
       Operation
<1>4. OneIsPlaced
    BY RunRequestsAssumption DEF Progress, GrowsStale, RunRequestsTypeOK, Keys, OneIsPlaced,
       CallState, Operation
<1>5. OwnersGo
    BY RunRequestsAssumption DEF Progress, GrowsStale, RunRequestsTypeOK, Keys, OwnersGo, AtWork,
       CallState
<1> QED
    BY <1>1, <1>2, <1>3, <1>4, <1>5 DEF RequestsGo

LEMMA LapseGoes ==
  ASSUME RunRequestsTypeOK, NEW k \in Keys, ReservationLapses(k)
  PROVE  RunRequestsTypeOK' /\ RequestsGo
<1>1. RunRequestsTypeOK'
  <2>1. [operation[k] EXCEPT !.lapsed = TRUE] \in Operation
      BY DEF RunRequestsTypeOK, Operation
  <2> QED
      BY <2>1 DEF ReservationLapses, RunRequestsTypeOK, Keys
<1>2. CallsGo
    BY RunRequestsAssumption DEF ReservationLapses, RunRequestsTypeOK, Keys, CallsGo, CallGoes,
       RequestGoes, ThreadGoes, CallState, Request, Active
<1>3. OperationsGo
    BY RunRequestsAssumption DEF ReservationLapses, RunRequestsTypeOK, Keys, OperationsGo,
       Operation
<1>4. OneIsPlaced
    BY RunRequestsAssumption DEF ReservationLapses, RunRequestsTypeOK, Keys, OneIsPlaced,
       CallState, Operation
<1>5. OwnersGo
    BY RunRequestsAssumption DEF ReservationLapses, RunRequestsTypeOK, Keys, OwnersGo, AtWork,
       CallState
<1> QED
    BY <1>1, <1>2, <1>3, <1>4, <1>5 DEF RequestsGo

LEMMA ExpiryGoes ==
  ASSUME RunRequestsTypeOK, KeyExpires \/ \E w \in WebProcess : LockExpires(w)
  PROVE  RunRequestsTypeOK' /\ RequestsGo
<1>1. RunRequestsTypeOK'
    BY DEF KeyExpires, LockExpires, RunRequestsTypeOK, Keys
<1>2. CallsGo
    BY RunRequestsAssumption DEF KeyExpires, LockExpires, RunRequestsTypeOK, Keys, CallsGo,
       CallGoes, RequestGoes, ThreadGoes, CallState, Request, Active
<1>3. OperationsGo
    BY RunRequestsAssumption DEF KeyExpires, LockExpires, RunRequestsTypeOK, Keys, OperationsGo,
       Operation
<1>4. OneIsPlaced
    BY RunRequestsAssumption DEF KeyExpires, LockExpires, RunRequestsTypeOK, Keys, OneIsPlaced,
       CallState, Operation
<1>5. OwnersGo
    BY RunRequestsAssumption DEF KeyExpires, LockExpires, RunRequestsTypeOK, Keys, OwnersGo,
       AtWork, CallState
<1> QED
    BY <1>1, <1>2, <1>3, <1>4, <1>5 DEF RequestsGo

LEMMA DeathGoes ==
  ASSUME RunRequestsTypeOK, NEW w \in WebProcess, WebDies(w)
  PROVE  RunRequestsTypeOK' /\ RequestsGo
<1>1. RunRequestsTypeOK'
  <2>1. \A x \in Call : [call[x] EXCEPT !.pc = "lost"] \in CallState
      BY DEF RunRequestsTypeOK, CallState
  <2> QED
      BY <2>1 DEF WebDies, RunRequestsTypeOK, Keys
<1>2. CallsGo
    BY RunRequestsAssumption DEF WebDies, RunRequestsTypeOK, Keys, CallsGo, CallGoes, RequestGoes,
       ThreadGoes, CallState, Request, Active
<1>3. OperationsGo
    BY RunRequestsAssumption DEF WebDies, RunRequestsTypeOK, Keys, OperationsGo, Operation
<1>4. OneIsPlaced
    BY RunRequestsAssumption DEF WebDies, RunRequestsTypeOK, Keys, OneIsPlaced, CallState,
       Operation
<1>5. OwnersGo
    BY RunRequestsAssumption DEF WebDies, RunRequestsTypeOK, Keys, OwnersGo, AtWork, CallState
<1> QED
    BY <1>1, <1>2, <1>3, <1>4, <1>5 DEF RequestsGo


LEMMA RequestsStep ==
  ASSUME RunRequestsTypeOK, CallsPlaced, [ReqNext]_reqVars
  PROVE  RunRequestsTypeOK' /\ RequestsGo
<1>1. CASE UNCHANGED reqVars
    BY <1>1 DEF reqVars, RunRequestsTypeOK, Keys, RequestsGo, CallsGo, CallGoes, RequestGoes,
       ThreadGoes, OperationsGo, OneIsPlaced, OwnersGo, AtWork
<1> QED
    BY <1>1, ReserveGoes, LookGoes, OwnGoes, CreateGoes, DispatchGoes, RecordGoes, RecordFailsGoes,
       CallFailsGoes,
       TickStartsGoes, TickEndsGoes, CallbackGoes, ReleaseRunGoes, AgingGoes, LapseGoes,
       ExpiryGoes, DeathGoes
    DEF ReqNext, CallStep, ThreadStep

LEMMA RequestsInductive ==
  ASSUME RequestsInv, [ReqNext]_reqVars
  PROVE  RequestsInv'
<1>1. /\ RunRequestsTypeOK /\ CallsPlaced /\ ReservedOnce /\ LockedByOwn /\ LockIsAtWork
      /\ RunRequestsTypeOK' /\ CallsGo /\ OperationsGo /\ OneIsPlaced /\ OwnersGo
      /\ Nobody \notin Call /\ Nobody \notin WebProcess
    BY RequestsStep, RunRequestsAssumption DEF RequestsInv, RequestsGo
<1>2. CallsPlaced'
  <2> SUFFICES ASSUME NEW x \in Call PROVE NotYet(x)' /\ Placed(x)'
      BY DEF CallsPlaced
  <2>1. CallGoes(x) /\ RequestGoes(x) /\ ThreadGoes(x) /\ NotYet(x) /\ Placed(x)
      BY <1>1 DEF CallsGo, CallsPlaced
  <2>2. NotYet(x)'
      BY <2>1 DEF CallGoes, RequestGoes, ThreadGoes, NotYet, Active
  <2>3. Placed(x)'
      BY <2>1 DEF CallGoes, RequestGoes, NotYet, Placed, Active
  <2> QED
      BY <2>2, <2>3
<1>3. ReservedOnce'
  <2>1. \A x \in Call : key[x] \in Keys
      BY DEF Keys
  <2>2. ASSUME NEW x \in Call, call'[x].web # Nobody
        PROVE  operation'[key'[x]].state # "none"
      BY <1>1, <2>1, <2>2 DEF ReservedOnce, OperationsGo, OneIsPlaced
  <2>3. ASSUME NEW x \in Call, NEW y \in Call, x # y, key'[x] = key'[y],
               call'[x].web # Nobody, call'[y].web # Nobody
        PROVE  key'[x] \in takenOver'
    <3>1. CASE call'[x].web = call[x].web /\ call'[y].web = call[y].web
        BY <1>1, <2>3, <3>1 DEF ReservedOnce, OperationsGo
    <3>2. CASE call'[x].web # call[x].web
      <4>1. /\ call'[y].web = call[y].web
            /\ key[x] \in takenOver' \/ operation[key[x]].state = "none"
          BY <1>1, <2>3, <3>2 DEF OneIsPlaced
      <4>2. operation[key[y]].state # "none" /\ key[x] = key[y] /\ key' = key
          BY <1>1, <2>3, <4>1 DEF ReservedOnce, OperationsGo
      <4> QED
          BY <4>1, <4>2
    <3>3. CASE call'[y].web # call[y].web
      <4>1. /\ call'[x].web = call[x].web
            /\ key[y] \in takenOver' \/ operation[key[y]].state = "none"
          BY <1>1, <2>3, <3>3 DEF OneIsPlaced
      <4>2. operation[key[x]].state # "none" /\ key[x] = key[y] /\ key' = key
          BY <1>1, <2>3, <4>1 DEF ReservedOnce, OperationsGo
      <4> QED
          BY <4>1, <4>2
    <3> QED
        BY <3>1, <3>2, <3>3
  <2> QED
      BY <2>2, <2>3 DEF ReservedOnce
<1>4. LockedByOwn' /\ LockIsAtWork'
  <2>1. ASSUME NEW w \in WebProcess, owner'[w] # Nobody
        PROVE  /\ call'[owner'[w]].web = w
               /\ \/ call'[owner'[w]].pc \in {"create", "dispatch"} /\ call'[owner'[w]].web = w
                  \/ thread'[owner'[w]] \notin {"none", "done", "lost"}
    <3>1. CASE call'[owner'[w]].pc = "create" /\ call'[owner'[w]].web = w
        BY <3>1
    <3>2. CASE /\ owner'[w] = owner[w]
               /\ AtWork(owner[w], w) /\ call[owner[w]].web = w => AtWork(owner[w], w)'
      <4>1. owner[w] \in Call /\ call[owner[w]].web = w /\ AtWork(owner[w], w)
          BY <1>1, <2>1, <3>2 DEF RunRequestsTypeOK, LockedByOwn, LockIsAtWork, AtWork
      <4>2. AtWork(owner[w], w)'
          BY <3>2, <4>1
      <4>3. call'[owner[w]].web = call[owner[w]].web
          BY <1>1, <2>1, <4>1 DEF CallsGo, CallGoes, CallsPlaced, Placed
      <4> QED
          BY <3>2, <4>1, <4>2, <4>3 DEF AtWork
    <3> QED
        BY <1>1, <2>1, <3>1, <3>2 DEF OwnersGo
  <2>2. LockedByOwn'
      BY <2>1 DEF LockedByOwn
  <2>3. LockIsAtWork'
      BY <2>1 DEF LockIsAtWork
  <2> QED
      BY <2>2, <2>3
<1> QED
    BY <1>1, <1>2, <1>3, <1>4 DEF RequestsInv

LEMMA RequestsInvariant == ReqSpec => []RequestsInv
<1>1. ReqInit => RequestsInv
  <2> SUFFICES ASSUME ReqInit PROVE RequestsInv
      OBVIOUS
  <2>1. RunRequestsTypeOK
    <3>1. /\ [state |-> "none", answer |-> Nobody, lapsed |-> FALSE] \in Operation
          /\ [status |-> "none", stale |-> FALSE] \in Request
          /\ [pc |-> "new", web |-> Nobody, answer |-> Nobody] \in CallState
        BY DEF Operation, Request, CallState
    <3> QED
        BY <3>1 DEF ReqInit, RunRequestsTypeOK
  <2> QED
      BY <2>1 DEF ReqInit, RequestsInv, CallsPlaced, NotYet, Placed, ReservedOnce, LockedByOwn,
         LockIsAtWork
<1> QED
    BY <1>1, RequestsInductive, PTL DEF ReqSpec

\* For any number of calls, processes and faults: a process that is locked has a call or a
\* thread at work, and a key has one request unless its reservation lapsed.
THEOREM RequestsHold == ReqSpec => []RequestsSafe
<1>1. RequestsInv => RequestsSafe
    BY DEF RequestsInv, RequestsSafe, CallsPlaced, Placed, ReservedOnce, OneRequestPerKey
<1> QED
    BY <1>1, RequestsInvariant, PTL

\* A request that ended is never written again, and a repetition is told what was told
\* before: the two action parts of RequestsEndOnce.
THEOREM RequestsStay == ReqSpec => EndedRequestStays /\ OutcomeStays
<1>1. RequestsInv /\ [ReqNext]_reqVars =>
        /\ \A c \in Call : request[c].status \in Terminal => request'[c] = request[c]
        /\ \A k \in Keys : operation[k].state \in {"completed", "failed"}
                             => operation'[k] = operation[k]
  <2> SUFFICES ASSUME RequestsInv, [ReqNext]_reqVars
               PROVE  /\ \A c \in Call : request[c].status \in Terminal => request'[c] = request[c]
                      /\ \A k \in Keys : operation[k].state \in {"completed", "failed"}
                                           => operation'[k] = operation[k]
      OBVIOUS
  <2>1. CallsGo /\ OperationsGo /\ CallsPlaced
      BY RequestsStep DEF RequestsInv, RequestsGo
  <2> QED
      BY <2>1 DEF CallsGo, RequestGoes, OperationsGo, CallsPlaced, NotYet, Terminal, Active
<1> QED
    BY <1>1, RequestsInvariant, PTL DEF ReqSpec, EndedRequestStays, OutcomeStays

-------------------------------------------------------------------------------
(* The webhook outbox.  A claim counts an attempt, and pays for one request: those that  *)
(* were made and those still to be made are never more than the attempts.                *)

\* The passes that are about to send row h.
Sending(h) == {d \in Dispatcher : dispatcher[d].pc = "send" /\ dispatcher[d].hook = h}

ClaimsPay == \A h \in Hook : sends[h] + Cardinality(Sending(h)) <= hook[h].attempts

\* A pass that calls its request sent has an answer of the receiver.
SentWasReceived ==
  \A d \in Dispatcher : dispatcher[d].pc = "sent" => received[dispatcher[d].hook] > 0

\* No attempt is taken of a row that was not queued.
NoneTaken == \A h \in Hook : hook[h].status = "none" => hook[h].attempts = 0

DeliveryInv == HooksTypeOK /\ NoneTaken /\ ClaimsPay /\ SentWasReceived /\ SettledForAReason

LEMMA SendingIsFinite ==
  ASSUME NEW h
  PROVE  IsFiniteSet(Sending(h)) /\ Cardinality(Sending(h)) \in Nat
BY DeliveryAssumption, FS_Subset, FS_CardinalityType DEF Sending

LEMMA FirstHook == Min(Hook) \in Hook
BY DeliveryAssumption, LeastIsOne

\* A pass that ends, whatever it did, is idle.
LEMMA PassIsIdle == NoPass \in Pass /\ NoPass.pc = "idle"
BY FirstHook, DeliveryAssumption DEF NoPass, Pass

\* Fewer passes are about to send a row when one of them goes on.
LEMMA OneSends ==
  ASSUME NEW h, NEW d \in Sending(h), Sending(h)' = Sending(h) \ {d}
  PROVE  Cardinality(Sending(h))' = Cardinality(Sending(h)) - 1
BY SendingIsFinite, FS_RemoveElement

LEMMA DeliveryStarts == HookInit => DeliveryInv
<1> SUFFICES ASSUME HookInit PROVE DeliveryInv
    OBVIOUS
<1>1. HooksTypeOK
  <2>1. [status |-> "none", attempts |-> 0, due |-> FALSE] \in HookRow
      BY DeliveryAssumption DEF HookRow
  <2> QED
      BY <2>1, PassIsIdle DEF HookInit, HooksTypeOK
<1>2. ClaimsPay
  <2>1. \A h \in Hook : Sending(h) = {}
      BY PassIsIdle DEF Sending, HookInit
  <2>2. Cardinality({}) = 0
      BY FS_EmptySet
  <2> SUFFICES ASSUME NEW h \in Hook PROVE sends[h] + Cardinality(Sending(h)) <= hook[h].attempts
      BY DEF ClaimsPay
  <2>3. sends[h] = 0 /\ hook[h].attempts = 0 /\ Cardinality(Sending(h)) = 0
      BY <2>1, <2>2 DEF HookInit
  <2> QED
      BY <2>3
<1> QED
    BY <1>1, <1>2, PassIsIdle DEF DeliveryInv, NoneTaken, SentWasReceived, SettledForAReason,
       HookInit


\* The sweep settles rows whose attempts are taken, and changes no other.
LEMMA SweepSettles ==
  ASSUME HooksTypeOK, NEW h \in Hook
  PROVE  /\ Swept[h] \in HookRow /\ Swept[h].attempts = hook[h].attempts
         /\ \/ Swept[h] = hook[h]
            \/ /\ Swept[h].status = "failed" /\ hook[h].attempts = AttemptLimit
               /\ hook[h].status \in {"pending", "processing"}
         /\ Swept[h].status \in {"pending", "processing"} => hook[h].attempts < AttemptLimit
<1>1. hook[h] \in HookRow
    BY DEF HooksTypeOK
<1>2. hook[h].attempts \in 0..AttemptLimit
    BY <1>1 DEF HookRow
<1>3. CASE hook[h].status \in {"pending", "processing"} /\ hook[h].attempts >= AttemptLimit
  <2>1. Swept[h] = [hook[h] EXCEPT !.status = "failed"]
      BY <1>3 DEF Swept
  <2>2. Swept[h] \in HookRow /\ Swept[h].status = "failed" /\ Swept[h].attempts = hook[h].attempts
      BY <1>1, <2>1 DEF HookRow
  <2> QED
      BY <1>2, <1>3, <2>2, DeliveryAssumption
<1>4. CASE ~(hook[h].status \in {"pending", "processing"} /\ hook[h].attempts >= AttemptLimit)
  <2>1. Swept[h] = hook[h]
      BY <1>4 DEF Swept
  <2> QED
      BY <1>1, <1>2, <1>4, <2>1, DeliveryAssumption
<1> QED
    BY <1>3, <1>4

\* What a step may do to a row: settle it, and never a settled one.
RowGoes(h) ==
  /\ hook'[h] \in HookRow /\ received'[h] >= received[h]
  /\ hook[h].status \in {"completed", "failed"} => hook'[h] = hook[h]
  /\ hook'[h].status = "none" => hook'[h] = hook[h]
  /\ hook'[h].status = "completed" => hook[h].status = "completed" \/ received'[h] > 0
  /\ hook'[h].status = "failed" => hook[h].status = "failed" \/ hook'[h].attempts = AttemptLimit

\* What a step may do to the requests of a row: nothing that was not paid.
Paid(h) ==
  \/ /\ sends'[h] = sends[h] /\ hook'[h].attempts >= hook[h].attempts
     /\ Sending(h)' \subseteq Sending(h)
  \/ /\ sends'[h] = sends[h] /\ hook'[h].attempts = hook[h].attempts + 1
     /\ \E d \in Dispatcher : Sending(h)' = Sending(h) \cup {d}
  \/ /\ sends'[h] = sends[h] + 1 /\ hook'[h].attempts = hook[h].attempts
     /\ \E d \in Sending(h) : Sending(h)' = Sending(h) \ {d}

RowsGo == /\ hook' = [h \in Hook |-> hook'[h]]
          /\ received' \in [Hook -> Nat] /\ sends' \in [Hook -> Nat]
          /\ dispatcher' \in [Dispatcher -> Pass]
          /\ \A h \in Hook : RowGoes(h) /\ Paid(h)
          /\ SentWasReceived'

LEMMA InvIsKept ==
  ASSUME DeliveryInv, RowsGo
  PROVE  DeliveryInv'
<1>1. HooksTypeOK'
    BY DEF RowsGo, RowGoes, HooksTypeOK
<1>2. ASSUME NEW h \in Hook PROVE sends'[h] + Cardinality(Sending(h))' <= hook'[h].attempts
  <2> DEFINE N == Cardinality(Sending(h))
  <2>1. N \in Nat /\ N' \in Nat /\ IsFiniteSet(Sending(h))
    <3>1. IsFiniteSet(Sending(h)') /\ Cardinality(Sending(h)') \in Nat
        BY DeliveryAssumption, FS_Subset, FS_CardinalityType DEF Sending
    <3> QED
        BY <3>1, SendingIsFinite
  <2>2. sends[h] \in Nat /\ sends'[h] \in Nat /\ hook[h].attempts \in Nat /\ hook'[h].attempts \in Nat
      BY <1>1, DeliveryAssumption DEF DeliveryInv, HooksTypeOK, HookRow
  <2>3. sends[h] + N <= hook[h].attempts
      BY DEF DeliveryInv, ClaimsPay
  <2>4. Paid(h)
      BY DEF RowsGo
  <2>5. CASE /\ sends'[h] = sends[h] /\ hook'[h].attempts >= hook[h].attempts
             /\ Sending(h)' \subseteq Sending(h)
    <3>1. N' <= N
        BY <2>1, <2>5, FS_Subset
    <3> QED
        BY <2>1, <2>2, <2>3, <2>5, <3>1
  <2>6. ASSUME sends'[h] = sends[h], hook'[h].attempts = hook[h].attempts + 1,
               NEW d \in Dispatcher, Sending(h)' = Sending(h) \cup {d}
        PROVE  sends'[h] + N' <= hook'[h].attempts
    <3>1. Cardinality(Sending(h) \cup {d}) = N \/ Cardinality(Sending(h) \cup {d}) = N + 1
        BY <2>1, FS_AddElement
    <3>2. N' <= N + 1
        BY <2>1, <2>6, <3>1
    <3> QED
        BY <2>1, <2>2, <2>3, <2>6, <3>2
  <2>7. ASSUME sends'[h] = sends[h] + 1, hook'[h].attempts = hook[h].attempts,
               NEW d \in Sending(h), Sending(h)' = Sending(h) \ {d}
        PROVE  sends'[h] + N' <= hook'[h].attempts
    <3>1. N' = N - 1
        BY <2>7, OneSends
    <3> QED
        BY <2>1, <2>2, <2>3, <2>7, <3>1
  <2> QED
      BY <2>4, <2>5, <2>6, <2>7 DEF Paid
<1>3. SettledForAReason'
  <2> SUFFICES ASSUME NEW h \in Hook
               PROVE  /\ hook'[h].status = "completed" => received'[h] > 0
                      /\ hook'[h].status = "failed" => hook'[h].attempts = AttemptLimit
      BY DEF SettledForAReason
  <2>1. /\ hook[h].status = "completed" => received[h] > 0
        /\ hook[h].status = "failed" => hook[h].attempts = AttemptLimit
      BY DEF DeliveryInv, SettledForAReason
  <2>2. received[h] \in Nat /\ received'[h] \in Nat
      BY <1>1 DEF DeliveryInv, HooksTypeOK
  <2> QED
      BY <2>1, <2>2 DEF RowsGo, RowGoes
<1>4. NoneTaken'
    BY DEF DeliveryInv, NoneTaken, RowsGo, RowGoes
<1> QED
    BY <1>1, <1>2, <1>3, <1>4 DEF DeliveryInv, RowsGo, ClaimsPay

LEMMA AlertsGo ==
  ASSUME DeliveryInv, NEW k \in Hook, AlertChanges(k)
  PROVE  RowsGo
<1> DEFINE new == [status |-> "pending", attempts |-> 0, due |-> TRUE]
<1>1. new \in HookRow
    BY DeliveryAssumption DEF HookRow
<1>2. hook' = [hook EXCEPT ![k] = new] /\ UNCHANGED <<dispatcher, received, sends>>
    BY DEF AlertChanges
<1>3. ASSUME NEW h \in Hook PROVE RowGoes(h) /\ Paid(h)
  <2>0. hook[h] \in HookRow /\ received[h] \in Nat /\ hook[h].attempts \in Nat /\ hook \in [Hook -> HookRow]
      BY DeliveryAssumption DEF DeliveryInv, HooksTypeOK, HookRow
  <2>1. Sending(h)' = Sending(h) /\ sends'[h] = sends[h] /\ received'[h] = received[h]
      BY <1>2 DEF Sending
  <2>2. CASE h = k
    <3>1. hook'[h] = new /\ hook[h].status = "none" /\ hook[h].attempts = 0
        BY <1>2, <2>0, <2>2 DEF AlertChanges, DeliveryInv, NoneTaken
    <3> QED
        BY <1>1, <2>0, <2>1, <3>1 DEF RowGoes, Paid
  <2>3. CASE h # k
    <3>1. hook'[h] = hook[h]
        BY <1>2, <2>0, <2>3
    <3> QED
        BY <2>0, <2>1, <3>1 DEF RowGoes, Paid
  <2> QED
      BY <2>2, <2>3
<1> QED
    BY <1>2, <1>3 DEF RowsGo, DeliveryInv, HooksTypeOK, SentWasReceived

LEMMA DueGo ==
  ASSUME DeliveryInv, NEW k \in Hook, HookDue(k)
  PROVE  RowsGo
<1>1. hook' = [hook EXCEPT ![k].due = TRUE] /\ UNCHANGED <<dispatcher, received, sends>>
    BY DEF HookDue
<1>2. ASSUME NEW h \in Hook PROVE RowGoes(h) /\ Paid(h)
  <2>0. hook[h] \in HookRow /\ received[h] \in Nat /\ hook[h].attempts \in Nat /\ hook \in [Hook -> HookRow]
      BY DeliveryAssumption DEF DeliveryInv, HooksTypeOK, HookRow
  <2>1. Sending(h)' = Sending(h) /\ sends'[h] = sends[h] /\ received'[h] = received[h]
      BY <1>1 DEF Sending
  <2>2. /\ hook'[h] = hook[h] \/ hook'[h].status \in {"pending", "processing"}
        /\ hook'[h].status = hook[h].status /\ hook'[h].attempts = hook[h].attempts
        /\ hook'[h] \in HookRow
    <3>1. CASE h = k
      <4>1. hook'[h] = [hook[h] EXCEPT !.due = TRUE]
          BY <1>1, <2>0, <3>1
      <4> QED
          BY <2>0, <3>1, <4>1 DEF HookDue, HookRow
    <3>2. CASE h # k
        BY <1>1, <2>0, <3>2
    <3> QED
        BY <3>1, <3>2
  <2> QED
      BY <2>0, <2>1, <2>2 DEF RowGoes, Paid
<1> QED
    BY <1>1, <1>2 DEF RowsGo, DeliveryInv, HooksTypeOK, SentWasReceived

LEMMA ClaimGo ==
  ASSUME DeliveryInv, NEW d \in Dispatcher, ClaimDelivery(d)
  PROVE  RowsGo
<1>0. /\ hook \in [Hook -> HookRow] /\ dispatcher \in [Dispatcher -> Pass]
      /\ received \in [Hook -> Nat] /\ sends \in [Hook -> Nat] /\ HooksTypeOK
      /\ UNCHANGED <<received, sends>> /\ dispatcher[d].pc = "idle"
    BY DEF DeliveryInv, HooksTypeOK, ClaimDelivery
<1>1. CASE Deliverable = {}
  <2>1. hook' = Swept /\ UNCHANGED dispatcher
      BY <1>1 DEF ClaimDelivery
  <2>2. ASSUME NEW h \in Hook PROVE RowGoes(h) /\ Paid(h)
    <3>1. hook'[h] = Swept[h] /\ Sending(h)' = Sending(h) /\ received[h] \in Nat /\ sends'[h] = sends[h]
          /\ received'[h] = received[h] /\ hook[h].attempts \in Nat
        BY <1>0, <2>1, DeliveryAssumption DEF Sending, HookRow
    <3> QED
        BY <1>0, <3>1, SweepSettles DEF RowGoes, Paid
  <2> QED
      BY <1>0, <2>1, <2>2 DEF RowsGo, SentWasReceived, Swept, DeliveryInv
<1>2. CASE Deliverable # {}
  <2> DEFINE h0 == Min(Deliverable)
             pass == [pc |-> "send", hook |-> h0, generation |-> Taken(h0).attempts]
  <2>1. h0 \in Deliverable /\ h0 \in Hook
    <3>1. Deliverable \in SUBSET Nat
        BY DeliveryAssumption DEF Deliverable
    <3> QED
        BY <1>2, <3>1, LeastIsOne DEF Deliverable
  <2>2. hook' = [Swept EXCEPT ![h0] = Taken(h0)] /\ dispatcher' = [dispatcher EXCEPT ![d] = pass]
      BY <1>2 DEF ClaimDelivery
  <2> HIDE DEF h0
  <2>3. Swept[h0].status \in {"pending", "processing"} /\ hook[h0].attempts < AttemptLimit
      BY <1>0, <2>1, SweepSettles DEF Deliverable
  <2>4. /\ Taken(h0) \in HookRow /\ Taken(h0).status = "processing"
        /\ Taken(h0).attempts = hook[h0].attempts + 1
    <3>1. /\ Swept[h0] \in HookRow /\ Swept[h0].attempts = hook[h0].attempts
          /\ hook[h0].attempts \in 0..AttemptLimit
        BY <1>0, <2>1, SweepSettles DEF HookRow
    <3>2. hook[h0].attempts + 1 \in 0..AttemptLimit
        BY <2>3, <3>1, DeliveryAssumption
    <3> QED
        BY <3>1, <3>2 DEF Taken, HookRow
  <2>5. pass \in Pass /\ pass.pc = "send" /\ pass.hook = h0
      BY <2>1, <2>4 DEF Pass, HookRow
  <2>6. Swept \in [Hook -> HookRow]
      BY <1>0, SweepSettles DEF Swept
  <2> HIDE DEF pass
  <2>7. dispatcher' \in [Dispatcher -> Pass]
      BY <1>0, <2>2, <2>5
  <2>8. ASSUME NEW h \in Hook PROVE RowGoes(h) /\ Paid(h)
    <3>0. sends'[h] = sends[h] /\ received'[h] = received[h] /\ received[h] \in Nat
          /\ hook[h].attempts \in Nat
        BY <1>0, DeliveryAssumption DEF HookRow
    <3>1. CASE h = h0
      <4>1. hook'[h] = Taken(h0)
          BY <2>2, <2>6, <3>1
      <4>2. Sending(h)' = Sending(h) \cup {d}
          BY <1>0, <2>2, <2>5, <3>1 DEF Sending
      <4>3. hook[h].status \notin {"completed", "failed"}
          BY <1>0, <2>3, <3>1, SweepSettles
      <4> QED
          BY <2>4, <3>0, <3>1, <4>1, <4>2, <4>3 DEF RowGoes, Paid
    <3>2. CASE h # h0
      <4>1. hook'[h] = Swept[h]
          BY <2>2, <2>6, <3>2
      <4>2. Sending(h)' = Sending(h)
          BY <1>0, <2>2, <2>5, <3>2 DEF Sending
      <4> QED
          BY <1>0, <3>0, <4>1, <4>2, SweepSettles DEF RowGoes, Paid
    <3> QED
        BY <3>1, <3>2
  <2>9. SentWasReceived'
      BY <1>0, <2>2, <2>5, <2>7 DEF DeliveryInv, SentWasReceived
  <2> QED
      BY <1>0, <2>2, <2>6, <2>7, <2>8, <2>9 DEF RowsGo
<1> QED
    BY <1>1, <1>2

LEMMA SendGo ==
  ASSUME DeliveryInv, NEW d \in Dispatcher, NEW outcome \in {"sent", "refused"},
         NEW arrives \in BOOLEAN, Send(d, outcome, arrives)
  PROVE  RowsGo
<1> DEFINE k == dispatcher[d].hook
           more == IF arrives THEN 1 ELSE 0
<1>0. /\ hook \in [Hook -> HookRow] /\ dispatcher \in [Dispatcher -> Pass]
      /\ received \in [Hook -> Nat] /\ sends \in [Hook -> Nat] /\ k \in Hook
      /\ hook' = hook /\ dispatcher[d].pc = "send" /\ more \in Nat
      /\ outcome = "sent" => more = 1
    BY DEF DeliveryInv, HooksTypeOK, Send, Pass
<1>1. /\ sends' = [sends EXCEPT ![k] = sends[k] + 1]
      /\ received' = [received EXCEPT ![k] = received[k] + more]
      /\ dispatcher' = [dispatcher EXCEPT ![d].pc = outcome]
    BY <1>0 DEF Send
<1> HIDE DEF more
<1>2. dispatcher' \in [Dispatcher -> Pass] /\ dispatcher'[d].pc = outcome /\ dispatcher'[d].hook = k
      /\ \A x \in Dispatcher \ {d} : dispatcher'[x] = dispatcher[x]
  <2>1. [dispatcher[d] EXCEPT !.pc = outcome] \in Pass
      BY <1>0 DEF Pass
  <2> QED
      BY <1>0, <1>1, <2>1
<1> HIDE DEF k
<1>3. sends' \in [Hook -> Nat] /\ received' \in [Hook -> Nat]
    BY <1>0, <1>1
<1>4. ASSUME NEW h \in Hook PROVE RowGoes(h) /\ Paid(h)
  <2>0. /\ hook'[h] = hook[h] /\ hook[h].attempts \in Nat /\ hook[h] \in HookRow
        /\ received[h] \in Nat /\ received'[h] >= received[h]
      BY <1>0, <1>1, DeliveryAssumption DEF HookRow
  <2>1. CASE h = k
    <3>1. sends'[h] = sends[h] + 1
        BY <1>0, <1>1, <2>1
    <3>2. d \in Sending(h) /\ Sending(h)' = Sending(h) \ {d}
        BY <1>0, <1>2, <2>1 DEF Sending, k
    <3> QED
        BY <2>0, <3>1, <3>2 DEF RowGoes, Paid
  <2>2. CASE h # k
    <3>1. sends'[h] = sends[h] /\ Sending(h)' \subseteq Sending(h)
        BY <1>0, <1>1, <1>2, <2>2 DEF Sending, k
    <3> QED
        BY <2>0, <3>1 DEF RowGoes, Paid
  <2> QED
      BY <2>1, <2>2
<1>5. SentWasReceived'
  <2> SUFFICES ASSUME NEW x \in Dispatcher, dispatcher'[x].pc = "sent"
               PROVE  received'[dispatcher'[x].hook] > 0
      BY DEF SentWasReceived
  <2>1. CASE x = d
      BY <1>0, <1>1, <1>2, <2>1
  <2>2. CASE x # d
    <3>1. dispatcher'[x] = dispatcher[x] /\ dispatcher[x].hook \in Hook /\ received[dispatcher[x].hook] > 0
        BY <1>0, <1>2, <2>2 DEF Pass, DeliveryInv, SentWasReceived
    <3> QED
        BY <1>0, <1>1, <3>1
  <2> QED
      BY <2>1, <2>2
<1> QED
    BY <1>0, <1>2, <1>3, <1>4, <1>5 DEF RowsGo

\* A pass that ends pays nothing back.
LEMMA PassEnds ==
  ASSUME DeliveryInv, NEW d \in Dispatcher, dispatcher' = [dispatcher EXCEPT ![d] = NoPass],
         UNCHANGED received
  PROVE  /\ dispatcher' \in [Dispatcher -> Pass] /\ SentWasReceived'
         /\ \A h \in Hook : Sending(h)' \subseteq Sending(h)
<1>1. dispatcher \in [Dispatcher -> Pass] /\ dispatcher' \in [Dispatcher -> Pass]
    BY PassIsIdle DEF DeliveryInv, HooksTypeOK
<1>2. dispatcher'[d].pc = "idle" /\ \A x \in Dispatcher \ {d} : dispatcher'[x] = dispatcher[x]
    BY <1>1, PassIsIdle
<1> QED
    BY <1>1, <1>2 DEF DeliveryInv, SentWasReceived, Sending

LEMMA SettleGo ==
  ASSUME DeliveryInv, NEW d \in Dispatcher, SettleDelivery(d)
  PROVE  RowsGo
<1> DEFINE k == dispatcher[d].hook
           row == IF dispatcher[d].pc = "sent"
                  THEN [hook[k] EXCEPT !.status = "completed", !.due = FALSE] ELSE Retried(d)
<1>0. /\ hook \in [Hook -> HookRow] /\ dispatcher \in [Dispatcher -> Pass]
      /\ received \in [Hook -> Nat] /\ sends \in [Hook -> Nat] /\ k \in Hook
      /\ UNCHANGED <<received, sends>> /\ dispatcher[d].pc \in {"sent", "refused"}
      /\ hook[k] \in HookRow /\ hook[k].attempts \in Nat /\ hook[k].attempts <= AttemptLimit
    BY DeliveryAssumption DEF DeliveryInv, HooksTypeOK, SettleDelivery, Pass, HookRow
<1>1. dispatcher' \in [Dispatcher -> Pass] /\ SentWasReceived'
      /\ \A h \in Hook : Sending(h)' \subseteq Sending(h)
    BY PassEnds DEF SettleDelivery
<1>2. CASE ~ClaimIsHeld(d)
  <2>1. hook' = hook
      BY <1>2 DEF SettleDelivery
  <2>2. ASSUME NEW h \in Hook PROVE RowGoes(h) /\ Paid(h)
    <3>1. hook'[h] = hook[h] /\ hook[h] \in HookRow /\ hook[h].attempts \in Nat
          /\ received'[h] = received[h] /\ received[h] \in Nat /\ sends'[h] = sends[h]
        BY <1>0, <2>1, DeliveryAssumption DEF HookRow
    <3> QED
        BY <1>1, <3>1 DEF RowGoes, Paid
  <2> QED
      BY <1>0, <1>1, <2>1, <2>2 DEF RowsGo
<1>3. CASE ClaimIsHeld(d)
  <2>1. hook' = [hook EXCEPT ![k] = row]
      BY <1>3 DEF SettleDelivery
  <2>2. hook[k].status = "processing" /\ hook[k].attempts = dispatcher[d].generation
      BY <1>3 DEF ClaimIsHeld
  <2>3. /\ row \in HookRow /\ row.attempts = hook[k].attempts /\ row.status # "none"
        /\ row.status = "completed" => dispatcher[d].pc = "sent"
        /\ row.status = "failed" => hook[k].attempts = AttemptLimit
    <3>1. CASE dispatcher[d].pc = "sent"
        BY <1>0, <3>1 DEF HookRow
    <3>2. CASE dispatcher[d].pc # "sent" /\ dispatcher[d].generation < AttemptLimit
      <4>1. row = [hook[k] EXCEPT !.due = FALSE, !.status = "pending"]
          BY <3>2 DEF Retried
      <4> QED
          BY <1>0, <4>1 DEF HookRow
    <3>3. CASE dispatcher[d].pc # "sent" /\ ~(dispatcher[d].generation < AttemptLimit)
      <4>1. row = [hook[k] EXCEPT !.due = FALSE, !.status = "failed"]
          BY <3>3 DEF Retried
      <4>2. row \in HookRow /\ row.attempts = hook[k].attempts /\ row.status = "failed"
          BY <1>0, <4>1 DEF HookRow
      <4> QED
          BY <1>0, <2>2, <3>3, <4>2, DeliveryAssumption
    <3> QED
        BY <3>1, <3>2, <3>3
  <2>4. row.status = "completed" => received'[k] > 0
      BY <1>0, <2>3 DEF DeliveryInv, SentWasReceived
  <2> HIDE DEF row, k
  <2>5. ASSUME NEW h \in Hook PROVE RowGoes(h) /\ Paid(h)
    <3>1. /\ received'[h] = received[h] /\ received[h] \in Nat /\ sends'[h] = sends[h]
          /\ hook[h].attempts \in Nat /\ hook[h] \in HookRow
        BY <1>0, DeliveryAssumption DEF HookRow
    <3>2. CASE h = k
      <4>1. hook'[h] = row
          BY <1>0, <2>1, <3>2
      <4> QED
          BY <1>1, <2>2, <2>3, <2>4, <3>1, <3>2, <4>1 DEF RowGoes, Paid
    <3>3. CASE h # k
      <4>1. hook'[h] = hook[h]
          BY <1>0, <2>1, <3>3
      <4> QED
          BY <1>1, <3>1, <4>1 DEF RowGoes, Paid
    <3> QED
        BY <3>2, <3>3
  <2> QED
      BY <1>0, <1>1, <2>1, <2>3, <2>5 DEF RowsGo
<1> QED
    BY <1>2, <1>3

LEMMA DeathGo ==
  ASSUME DeliveryInv, NEW d \in Dispatcher, DispatcherDies(d)
  PROVE  RowsGo
<1>1. dispatcher' \in [Dispatcher -> Pass] /\ SentWasReceived'
      /\ \A h \in Hook : Sending(h)' \subseteq Sending(h)
    BY PassEnds DEF DispatcherDies
<1>2. ASSUME NEW h \in Hook PROVE RowGoes(h) /\ Paid(h)
  <2>1. hook'[h] = hook[h] /\ hook[h] \in HookRow /\ hook[h].attempts \in Nat
        /\ received'[h] = received[h] /\ received[h] \in Nat /\ sends'[h] = sends[h]
      BY DeliveryAssumption DEF DispatcherDies, DeliveryInv, HooksTypeOK, HookRow
  <2> QED
      BY <1>1, <2>1 DEF RowGoes, Paid
<1> QED
    BY <1>1, <1>2 DEF RowsGo, DispatcherDies, DeliveryInv, HooksTypeOK

LEMMA DeliveryGoes ==
  ASSUME DeliveryInv, HookNext
  PROVE  RowsGo
<1>1. ASSUME NEW h \in Hook, AlertChanges(h) \/ HookDue(h) PROVE RowsGo
    BY <1>1, AlertsGo, DueGo
<1>2. ASSUME NEW d \in Dispatcher, DispatchStep(d) \/ DispatcherDies(d) PROVE RowsGo
    BY <1>2, ClaimGo, SendGo, SettleGo, DeathGo DEF DispatchStep
<1>3. ASSUME NEW d \in Dispatcher, NEW arrives \in BOOLEAN, Send(d, "refused", arrives)
      PROVE  RowsGo
    BY <1>3, SendGo
<1> QED
    BY <1>1, <1>2, <1>3 DEF HookNext

\* While nothing happens everything stays.
LEMMA DeliveryRests ==
  ASSUME DeliveryInv, UNCHANGED hookVars
  PROVE  DeliveryInv'
BY DEF DeliveryInv, hookVars, HooksTypeOK, NoneTaken, ClaimsPay, SentWasReceived,
       SettledForAReason, Sending

\* No row is sent more often than it may be tried, whoever claims it and whoever dies, and a
\* row is settled for a reason (claim_webhook_delivery and the two settlements of store.py).
THEOREM DeliveriesHold == HookSpec => [](HooksTypeOK /\ SendsBounded /\ SettledForAReason)
<1>1. DeliveryInv /\ [HookNext]_hookVars => DeliveryInv'
    BY DeliveryGoes, InvIsKept, DeliveryRests
<1>2. DeliveryInv => HooksTypeOK /\ SendsBounded /\ SettledForAReason
  <2> SUFFICES ASSUME DeliveryInv, NEW h \in Hook PROVE sends[h] <= AttemptLimit
      BY DEF SendsBounded, DeliveryInv
  <2>1. /\ sends[h] \in Nat /\ hook[h].attempts \in 0..AttemptLimit
        /\ Cardinality(Sending(h)) \in Nat /\ sends[h] + Cardinality(Sending(h)) <= hook[h].attempts
      BY SendingIsFinite DEF DeliveryInv, HooksTypeOK, HookRow, ClaimsPay
  <2> QED
      BY <2>1, DeliveryAssumption
<1> QED
    BY <1>1, <1>2, DeliveryStarts, PTL DEF HookSpec

\* What is settled stays settled: a pass that comes too late changes nothing.
THEOREM DeliveriesStay == HookSpec => SettledStays
<1>1. DeliveryInv /\ [HookNext]_hookVars => DeliveryInv'
    BY DeliveryGoes, InvIsKept, DeliveryRests
<1>2. DeliveryInv /\ [HookNext]_hookVars =>
        [\A h \in Hook : hook[h].status \in {"completed", "failed"} => hook'[h] = hook[h]]_hookVars
    BY DeliveryGoes DEF RowsGo, RowGoes
<1> QED
    BY <1>1, <1>2, DeliveryStarts, PTL DEF HookSpec, SettledStays

-------------------------------------------------------------------------------
(* Effects of probe runs.  Every store of them is numbered: gates by revisions, effects by   *)
(* their ids.                                                                                *)

\* What was read of a gate is not ahead of the store, and right if it is of its revision.
Agrees(s, snapshot) ==
  /\ snapshot.revision <= revision[s]
  /\ snapshot.revision = revision[s] => snapshot.gates = reason[s]

\* Nothing is read that the store does not or did not say, nor before it says anything.
ReadingsAgree ==
  /\ \A p \in Projector : \A r \in reading[p] : Agrees(r.strategy, r.snapshot)
  /\ \A s \in Strategy : Agrees(s, NoSnapshot)

\* A tick has every effect to do that was not applied before one it has to do.
InTurn(t) ==
  /\ tick[t].todo \subseteq DOMAIN effect
  /\ \A j \in tick[t].todo, k \in DOMAIN effect :
       k < j /\ k \notin tick[t].todo => AppliedEffect(k)

\* It works on the first of them, and has a gate to project or to write.
AtItsWork(t) ==
  /\ tick[t].pc \in {"project", "complete"} => tick[t].todo # {}
  /\ tick[t].pc = "project" => tick[t].left # {} \/ reading[t] # {}

\* Of its run it has one effect at most.
OneQueued(t) == \A x, y \in tick[t].queue : x = y

TicksFit == \A t \in Tick : InTurn(t) /\ AtItsWork(t) /\ OneQueued(t)

EffectsInv == /\ EffectsTypeOK /\ TicksFit /\ ReadingsAgree
              /\ ProjectionsAgree /\ EffectsInOrder /\ NoPauseLost

-----------------------------------------------------------------------------
(* What a step may do to gates, effects, pauses and readings *)

\* A gate that changes has a new revision.
GatesGo == \A s \in Strategy :
  /\ revision'[s] >= revision[s]
  /\ revision'[s] = revision[s] => reason'[s] = reason[s]

\* Effects are added at the end, and applied after all those before them.
EffectsGo ==
  /\ DOMAIN effect \subseteq DOMAIN effect'
  /\ \A i \in DOMAIN effect :
       /\ effect'[i].type = effect[i].type /\ effect'[i].aliases = effect[i].aliases
       /\ AppliedEffect(i) => AppliedEffect(i)' /\ effect'[i].stops = effect[i].stops
  /\ \A i \in DOMAIN effect' \ DOMAIN effect :
       i \in Nat /\ ~AppliedEffect(i)' /\ \A k \in DOMAIN effect : k < i
  /\ \A i \in DOMAIN effect : AppliedEffect(i)' /\ ~AppliedEffect(i) =>
       \A k \in DOMAIN effect : k < i => AppliedEffect(k)

\* An effect that a step applies.
Applied(i) == i \in DOMAIN effect /\ ~AppliedEffect(i) /\ AppliedEffect(i)'

\* A gate of the probe is kept, perhaps for more, or released by a recovery that covers it.
GateKept(s, g) ==
  \/ \E h \in reason'[s] : h.source = g.source /\ g.aliases \subseteq h.aliases
  \/ \E j \in DOMAIN effect : /\ Applied(j) /\ effect[j].type = "recovery"
                              /\ g.aliases \subseteq effect[j].aliases

StoppedFor(i, s) == {a \in Alias : <<a, s>> \in effect[i].stops}

\* What a step applies stops what it says.
Stopped(i, s) ==
  StoppedFor(i, s)' # {} =>
    \E g \in reason'[s] : /\ g.source = GateSourceOf(effect[i].type)
                          /\ StoppedFor(i, s)' \subseteq g.aliases

PausesGo ==
  /\ \A s \in Strategy : \A g \in reason[s] : g.source # "operator_pause" => GateKept(s, g)
  /\ \A i \in DOMAIN effect, s \in Strategy : Applied(i) => Stopped(i, s)

\* A projector reads what the store says after its step.
ReadingsGo == \A p \in Projector : \A r \in reading'[p] :
  \/ r \in reading[p]
  \/ /\ r.strategy \in Strategy
     /\ r.snapshot = [gates |-> reason'[r.strategy], revision |-> revision'[r.strategy]]

\* A projection is written from a reading, or lost.
ProjectionsGo == \A s \in Strategy :
  \/ projection'[s] = projection[s] \/ projection'[s] = NoSnapshot
  \/ \E p \in Projector : \E r \in reading[p] : r.strategy = s /\ projection'[s] = r.snapshot

EffectsStep == /\ EffectsTypeOK' /\ GatesGo /\ EffectsGo /\ PausesGo
               /\ ReadingsGo /\ ProjectionsGo /\ TicksFit'

LEMMA AgreesKept ==
  ASSUME EffectsTypeOK, EffectsTypeOK', GatesGo, NEW s \in Strategy,
         NEW snapshot \in Snapshot, Agrees(s, snapshot)
  PROVE  Agrees(s, snapshot)'
<1>1. revision[s] \in Nat /\ revision'[s] \in Nat /\ snapshot.revision \in Nat
    BY DEF EffectsTypeOK, Snapshot
<1> QED
    BY <1>1 DEF Agrees, GatesGo

LEMMA ReadingIsTyped ==
  ASSUME EffectsTypeOK, NEW p \in Projector, NEW r \in reading[p]
  PROVE  r.strategy \in Strategy /\ r.snapshot \in Snapshot
BY DEF EffectsTypeOK, Reading

LEMMA NothingIsTyped == NoSnapshot \in Snapshot /\ NoSnapshot.revision = 0 /\ NoSnapshot.gates = {}
BY DEF NoSnapshot, Snapshot

LEMMA ReadingsStay ==
  ASSUME EffectsInv, EffectsStep
  PROVE  ReadingsAgree' /\ ProjectionsAgree'
<1>0. EffectsTypeOK /\ EffectsTypeOK' /\ GatesGo /\ ReadingsAgree
    BY DEF EffectsInv, EffectsStep
<1>1. ASSUME NEW p \in Projector, NEW r \in reading'[p] PROVE Agrees(r.strategy, r.snapshot)'
  <2>1. CASE r \in reading[p]
    <3>1. r.strategy \in Strategy /\ r.snapshot \in Snapshot /\ Agrees(r.strategy, r.snapshot)
        BY <1>0, <2>1, ReadingIsTyped DEF ReadingsAgree
    <3> QED
        BY <1>0, <3>1, AgreesKept
  <2>2. CASE /\ r.strategy \in Strategy
             /\ r.snapshot = [gates |-> reason'[r.strategy], revision |-> revision'[r.strategy]]
    <3>1. revision'[r.strategy] \in Nat
        BY <1>0, <2>2 DEF EffectsTypeOK
    <3> QED
        BY <2>2, <3>1 DEF Agrees
  <2> QED
      BY <2>1, <2>2 DEF EffectsStep, ReadingsGo
<1>2. ASSUME NEW s \in Strategy PROVE Agrees(s, NoSnapshot)'
  <2>1. Agrees(s, NoSnapshot)
      BY <1>0 DEF ReadingsAgree
  <2> QED
      BY <1>0, <2>1, AgreesKept, NothingIsTyped DEF NoSnapshot, Agrees
<1>3. ASSUME NEW s \in Strategy
      PROVE  /\ projection'[s].revision <= revision'[s]
             /\ projection'[s].revision = revision'[s] => projection'[s].gates = reason'[s]
  <2>1. CASE projection'[s] = projection[s]
    <3>1. Agrees(s, projection[s]) /\ projection[s] \in Snapshot
        BY DEF EffectsInv, ProjectionsAgree, Agrees, EffectsTypeOK
    <3>2. revision[s] \in Nat /\ revision'[s] \in Nat /\ projection[s].revision \in Nat
        BY <1>0, <3>1 DEF EffectsTypeOK, Snapshot
    <3> QED
        BY <1>0, <2>1, <3>1, <3>2 DEF Agrees, GatesGo
  <2>2. CASE projection'[s] = NoSnapshot
      BY <1>2, <2>2 DEF NoSnapshot, Agrees
  <2>3. ASSUME NEW p \in Projector, NEW r \in reading[p], r.strategy = s, projection'[s] = r.snapshot
        PROVE  /\ projection'[s].revision <= revision'[s]
               /\ projection'[s].revision = revision'[s] => projection'[s].gates = reason'[s]
    <3>1. Agrees(s, r.snapshot) /\ r.snapshot \in Snapshot
        BY <1>0, <2>3, ReadingIsTyped DEF ReadingsAgree
    <3>2. revision[s] \in Nat /\ revision'[s] \in Nat /\ r.snapshot.revision \in Nat
        BY <1>0, <3>1 DEF EffectsTypeOK, Snapshot
    <3> QED
        BY <1>0, <2>3, <3>1, <3>2 DEF Agrees, GatesGo
  <2> QED
      BY <2>1, <2>2, <2>3 DEF EffectsStep, ProjectionsGo
<1> QED
    BY <1>1, <1>2, <1>3 DEF ReadingsAgree, ProjectionsAgree, Agrees

LEMMA EffectsAreNumbered ==
  ASSUME EffectsTypeOK
  PROVE  /\ Len(effect) \in Nat /\ DOMAIN effect = 1..Len(effect)
         /\ \A i \in DOMAIN effect : effect[i] \in EffectRow /\ i \in Nat
BY LenProperties, ElementOfSeq DEF EffectsTypeOK

LEMMA OrderStays ==
  ASSUME EffectsInv, EffectsStep
  PROVE  EffectsInOrder'
<1> SUFFICES ASSUME NEW i \in DOMAIN effect', NEW j \in DOMAIN effect', i < j, AppliedEffect(j)'
             PROVE  AppliedEffect(i)'
    BY DEF EffectsInOrder
<1>0. /\ EffectsGo /\ EffectsInOrder
      /\ \A k \in DOMAIN effect : k \in Nat
    BY EffectsAreNumbered DEF EffectsInv, EffectsStep
<1>1. j \in DOMAIN effect /\ i \in Nat /\ j \in Nat
  <2>1. \A k \in DOMAIN effect' : k \in Nat
      BY EffectsAreNumbered DEF EffectsStep, EffectsTypeOK
  <2> QED
      BY <1>0, <2>1 DEF EffectsGo
<1>2. i \in DOMAIN effect
    BY <1>0, <1>1 DEF EffectsGo
<1> QED
    BY <1>0, <1>1, <1>2 DEF EffectsGo, EffectsInOrder

LEMMA PausesStay ==
  ASSUME EffectsInv, EffectsStep
  PROVE  NoPauseLost'
<1> SUFFICES ASSUME NEW i \in DOMAIN effect', NEW s \in Strategy, AppliedEffect(i)',
                    StoppedFor(i, s)' # {}
             PROVE  \/ \E g \in reason'[s] : /\ g.source = GateSourceOf(effect'[i].type)
                                             /\ StoppedFor(i, s)' \subseteq g.aliases
                    \/ \E j \in DOMAIN effect' : /\ j > i /\ AppliedEffect(j)'
                                                 /\ effect'[j].type = "recovery"
                                                 /\ StoppedFor(i, s)' \subseteq effect'[j].aliases
    BY DEF NoPauseLost, StoppedFor, GateSourceOf
<1>0. /\ EffectsGo /\ PausesGo /\ EffectsInOrder /\ NoPauseLost
      /\ \A k \in DOMAIN effect : k \in Nat
    BY EffectsAreNumbered DEF EffectsInv, EffectsStep
<1>1. i \in DOMAIN effect /\ effect'[i].type = effect[i].type
    BY <1>0 DEF EffectsGo
<1>2. CASE ~AppliedEffect(i)
  <2>1. Stopped(i, s)
      BY <1>0, <1>1, <1>2 DEF PausesGo, Applied
  <2> QED
      BY <1>1, <2>1 DEF Stopped, GateSourceOf
<1>3. CASE AppliedEffect(i)
  <2>1. StoppedFor(i, s)' = StoppedFor(i, s)
      BY <1>0, <1>1, <1>3 DEF EffectsGo, StoppedFor
  <2>2. \/ \E g \in reason[s] : /\ g.source = GateSourceOf(effect[i].type)
                                /\ StoppedFor(i, s) \subseteq g.aliases
        \/ \E j \in DOMAIN effect : /\ j > i /\ AppliedEffect(j) /\ effect[j].type = "recovery"
                                    /\ StoppedFor(i, s) \subseteq effect[j].aliases
      BY <1>0, <1>1, <1>3, <2>1 DEF NoPauseLost, StoppedFor
  <2>3. ASSUME NEW g \in reason[s], g.source = GateSourceOf(effect[i].type),
               StoppedFor(i, s) \subseteq g.aliases
        PROVE  \/ \E h \in reason'[s] : /\ h.source = GateSourceOf(effect'[i].type)
                                        /\ StoppedFor(i, s)' \subseteq h.aliases
               \/ \E j \in DOMAIN effect' : /\ j > i /\ AppliedEffect(j)'
                                            /\ effect'[j].type = "recovery"
                                            /\ StoppedFor(i, s)' \subseteq effect'[j].aliases
    <3>1. GateKept(s, g)
        BY <1>0, <2>3 DEF PausesGo, GateSourceOf
    <3>2. CASE \E h \in reason'[s] : h.source = g.source /\ g.aliases \subseteq h.aliases
        BY <1>1, <2>1, <2>3, <3>2 DEF GateSourceOf
    <3>3. ASSUME NEW j \in DOMAIN effect, Applied(j), effect[j].type = "recovery",
                 g.aliases \subseteq effect[j].aliases
          PROVE  /\ j > i /\ AppliedEffect(j)' /\ effect'[j].type = "recovery"
                 /\ StoppedFor(i, s)' \subseteq effect'[j].aliases /\ j \in DOMAIN effect'
      <4>1. ~(j < i) /\ j # i
          BY <1>0, <1>1, <1>3, <3>3 DEF EffectsInOrder, Applied
      <4>2. j > i
          BY <1>0, <1>1, <4>1
      <4> QED
          BY <1>0, <2>1, <2>3, <3>3, <4>2 DEF EffectsGo, Applied
    <3> QED
        BY <3>1, <3>2, <3>3 DEF GateKept
  <2>4. ASSUME NEW j \in DOMAIN effect, j > i, AppliedEffect(j), effect[j].type = "recovery",
               StoppedFor(i, s) \subseteq effect[j].aliases
        PROVE  /\ AppliedEffect(j)' /\ effect'[j].type = "recovery" /\ j \in DOMAIN effect'
               /\ StoppedFor(i, s)' \subseteq effect'[j].aliases
      BY <1>0, <2>1, <2>4 DEF EffectsGo
  <2> QED
      BY <2>2, <2>3, <2>4
<1> QED
    BY <1>2, <1>3

LEMMA EffectsInvGoes ==
  ASSUME EffectsInv, EffectsStep
  PROVE  EffectsInv'
BY ReadingsStay, OrderStays, PausesStay DEF EffectsInv, EffectsStep

-----------------------------------------------------------------------------
(* What leaves the store alone *)

LEMMA StoreRests ==
  ASSUME EffectsTypeOK, UNCHANGED <<reason, revision, effect>>
  PROVE  GatesGo /\ EffectsGo /\ PausesGo
<1>1. \A s \in Strategy : revision[s] \in Nat
    BY DEF EffectsTypeOK
<1>2. GatesGo
    BY <1>1 DEF GatesGo
<1>3. EffectsGo
    BY DEF EffectsGo, AppliedEffect
<1>4. \A s \in Strategy : \A g \in reason[s] : GateKept(s, g)
    BY DEF GateKept
<1>5. \A i \in DOMAIN effect : ~Applied(i)
    BY DEF Applied, AppliedEffect
<1> QED
    BY <1>2, <1>3, <1>4, <1>5 DEF PausesGo

LEMMA ReadingsRest ==
  ASSUME UNCHANGED projection, \A p \in Projector : reading'[p] \subseteq reading[p]
  PROVE  ReadingsGo /\ ProjectionsGo
BY DEF ReadingsGo, ProjectionsGo

LEMMA InTurnKept ==
  ASSUME EffectsInv, EffectsGo, NEW t \in Tick, tick'[t].todo \subseteq tick[t].todo,
         \A k \in tick[t].todo \ tick'[t].todo : AppliedEffect(k)'
  PROVE  InTurn(t)'
<1>1. InTurn(t)
    BY DEF EffectsInv, TicksFit
<1>2. tick'[t].todo \subseteq DOMAIN effect'
    BY <1>1 DEF InTurn, EffectsGo
<1>3. ASSUME NEW j \in tick'[t].todo, NEW k \in DOMAIN effect', k < j, k \notin tick'[t].todo
      PROVE  AppliedEffect(k)'
  <2>1. CASE k \in tick[t].todo
      BY <1>3, <2>1
  <2>2. CASE k \notin tick[t].todo /\ k \in DOMAIN effect
      BY <1>1, <1>3, <2>2 DEF InTurn, EffectsGo
  <2>3. CASE k \notin DOMAIN effect
    <3>1. j \in DOMAIN effect
        BY <1>1 DEF InTurn
    <3>2. j \in Nat
        BY <3>1, EffectsAreNumbered DEF EffectsInv
    <3>3. k \in DOMAIN effect' \ DOMAIN effect
        BY <2>3
    <3>4. j < k
        BY <3>1, <3>3 DEF EffectsGo
    <3>5. k \in Nat
        BY <3>3 DEF EffectsGo
    <3> QED
        BY <1>3, <3>2, <3>4, <3>5
  <2> QED
      BY <2>1, <2>2, <2>3
<1> QED
    BY <1>2, <1>3 DEF InTurn

\* Tick t does what it may; the others do nothing.
Fits(t) == InTurn(t) /\ AtItsWork(t) /\ OneQueued(t)

OthersRest(t) == \A u \in Tick \ {t} : tick'[u] = tick[u] /\ reading'[u] = reading[u]

LEMMA OneFits ==
  ASSUME EffectsInv, EffectsGo, NEW t \in Tick, OthersRest(t), Fits(t)'
  PROVE  TicksFit'
<1>1. ASSUME NEW u \in Tick, u # t PROVE Fits(u)'
  <2>1. /\ tick'[u] = tick[u] /\ reading'[u] = reading[u]
        /\ AtItsWork(u) /\ OneQueued(u)
      BY <1>1 DEF OthersRest, EffectsInv, TicksFit
  <2>2. InTurn(u)'
      BY <2>1, InTurnKept
  <2> QED
      BY <2>1, <2>2 DEF Fits, AtItsWork, OneQueued
<1> QED
    BY <1>1 DEF Fits, TicksFit

LEMMA AllFit ==
  ASSUME EffectsInv, EffectsGo, UNCHANGED tick, \A u \in Tick : reading'[u] = reading[u]
  PROVE  TicksFit'
<1>1. ASSUME NEW u \in Tick PROVE Fits(u)'
  <2>1. AtItsWork(u) /\ OneQueued(u) /\ reading'[u] = reading[u]
      BY DEF EffectsInv, TicksFit
  <2>2. InTurn(u)'
      BY InTurnKept
  <2> QED
      BY <2>1, <2>2 DEF Fits, AtItsWork, OneQueued
<1> QED
    BY <1>1 DEF Fits, TicksFit

\* Tick t is done with an effect or with its work, or has no effect to do.
Settles(t) ==
  /\ tick' \in [Tick -> TickState]
  /\ \A u \in Tick \ {t} : tick'[u] = tick[u]
  /\ tick'[t].pc \notin {"project", "complete"}
  /\ tick'[t].todo = {} \/ tick'[t].todo = tick[t].todo
  /\ \A x, y \in tick'[t].queue : x = y

LEMMA SettledFits ==
  ASSUME EffectsInv, EffectsGo, NEW t \in Tick, Settles(t), OthersRest(t)
  PROVE  TicksFit'
<1>1. InTurn(t)'
  <2>1. CASE tick'[t].todo = {}
      BY <2>1 DEF InTurn
  <2>2. CASE tick'[t].todo = tick[t].todo
      BY <2>2, InTurnKept
  <2> QED
      BY <2>1, <2>2 DEF Settles
<1>2. AtItsWork(t)' /\ OneQueued(t)'
    BY DEF Settles, AtItsWork, OneQueued
<1> QED
    BY <1>1, <1>2, OneFits DEF Fits

ProbeRuns == [Tick -> {"none", "running", "completed", "failed", "taken"}]

\* The readings of a tick are kept or given up.
ReadsNoMore(t) == reading' = reading \/ reading' = [reading EXCEPT ![t] = {}]

LEMMA ReadsNoMoreTyped ==
  ASSUME EffectsTypeOK, NEW t \in Tick, ReadsNoMore(t)
  PROVE  /\ reading' \in [Projector -> SUBSET Reading]
         /\ \A u \in Tick \ {t} : reading'[u] = reading[u]
         /\ \A p \in Projector : reading'[p] \subseteq reading[p]
<1>1. reading \in [Projector -> SUBSET Reading] /\ t \in Projector /\ Tick \subseteq Projector
    BY DEF EffectsTypeOK, Projector
<1> QED
    BY <1>1 DEF ReadsNoMore

LEMMA SettledStep ==
  ASSUME EffectsInv, NEW t \in Tick, Settles(t), probeRun' \in ProbeRuns, ReadsNoMore(t),
         UNCHANGED <<gates, projection, effect, alert>>
  PROVE  EffectsStep
<1>0. EffectsTypeOK
    BY DEF EffectsInv
<1>1. /\ reading' \in [Projector -> SUBSET Reading]
      /\ \A u \in Tick \ {t} : reading'[u] = reading[u]
      /\ \A p \in Projector : reading'[p] \subseteq reading[p]
    BY <1>0, ReadsNoMoreTyped
<1>2. EffectsTypeOK'
    BY <1>0, <1>1 DEF EffectsTypeOK, Settles, ProbeRuns, gates
<1>3. GatesGo /\ EffectsGo /\ PausesGo
    BY <1>0, StoreRests DEF gates
<1>4. ReadingsGo /\ ProjectionsGo
    BY <1>1, ReadingsRest
<1>5. OthersRest(t)
    BY <1>1 DEF OthersRest, Settles
<1>6. TicksFit'
    BY <1>3, <1>5, SettledFits
<1> QED
    BY <1>2, <1>3, <1>4, <1>6 DEF EffectsStep

\* A run's end adds the effect that it has, if it has one.
LEMMA QueuedAdds ==
  ASSUME EffectsTypeOK, NEW queue \in SUBSET [type : EffectTypes, aliases : SUBSET Alias],
         \A x, y \in queue : x = y, effect' = Queued(queue), UNCHANGED <<reason, revision>>
  PROVE  /\ effect' \in Seq(EffectRow)
         /\ GatesGo /\ EffectsGo /\ PausesGo
<1> DEFINE q == CHOOSE x \in queue : TRUE
           new == [type |-> q.type, aliases |-> q.aliases,
                   strategies |-> {}, stops |-> {}, status |-> "pending"]
           more == [k \in 1..Cardinality(queue) |-> new]
<1>1. /\ effect \in Seq(EffectRow) /\ Len(effect) \in Nat /\ DOMAIN effect = 1..Len(effect)
      /\ \A s \in Strategy : revision[s] \in Nat
    BY EffectsAreNumbered DEF EffectsTypeOK
<1>2. more \in Seq(EffectRow) /\ Len(more) \in Nat /\ \A k \in 1..Len(more) : more[k] = new
  <2>1. CASE queue = {}
    <3>1. more = <<>>
        BY <2>1, FS_EmptySet
    <3> HIDE DEF more
    <3>2. <<>> \in Seq(EffectRow) /\ Len(<<>>) = 0
        BY EmptySeq
    <3> QED
        BY <3>1, <3>2
  <2>2. CASE queue # {}
    <3>1. q \in queue /\ queue = {q}
        BY <2>2
    <3>2. Cardinality(queue) = 1
        BY <3>1, FS_Singleton
    <3>3. new \in EffectRow
        BY <3>1 DEF EffectRow
    <3> HIDE DEF q, new
    <3>4. more = <<new>>
        BY <3>2
    <3> HIDE DEF more
    <3>5. <<new>> \in Seq(EffectRow) /\ Len(<<new>>) = 1 /\ <<new>>[1] = new
        BY <3>3
    <3> QED
        BY <3>4, <3>5
  <2> QED
      BY <2>1, <2>2
<1>3. effect' = effect \o more
    BY DEF Queued
<1>4. new.status = "pending"
    OBVIOUS
<1> HIDE DEF q, new, more
<1>5. /\ effect' \in Seq(EffectRow) /\ Len(effect') = Len(effect) + Len(more)
      /\ \A k \in 1..Len(effect) + Len(more) :
           effect'[k] = IF k <= Len(effect) THEN effect[k] ELSE more[k - Len(effect)]
    BY <1>1, <1>2, <1>3, ConcatProperties
<1>6. DOMAIN effect' = 1..Len(effect')
    BY <1>5, LenProperties
<1>7. \A k \in DOMAIN effect : k \in DOMAIN effect' /\ effect'[k] = effect[k]
    BY <1>1, <1>2, <1>5, <1>6
<1>8. \A k \in DOMAIN effect' \ DOMAIN effect :
        k \in Nat /\ effect'[k].status = "pending" /\ \A j \in DOMAIN effect : j < k
  <2> TAKE k \in DOMAIN effect' \ DOMAIN effect
  <2>1. k \in Nat /\ k > Len(effect) /\ k <= Len(effect) + Len(more)
      BY <1>1, <1>2, <1>5, <1>6
  <2>2. k - Len(effect) \in 1..Len(more) /\ k \in 1..Len(effect) + Len(more)
      BY <1>1, <1>2, <2>1
  <2>3. effect'[k] = new
      BY <1>1, <1>2, <1>5, <2>1, <2>2
  <2> QED
      BY <1>1, <1>4, <2>1, <2>3
<1>9. EffectsGo
    BY <1>7, <1>8 DEF EffectsGo, AppliedEffect
<1>10. GatesGo
    BY <1>1 DEF GatesGo
<1>11. \A s \in Strategy : \A g \in reason[s] : GateKept(s, g)
    BY DEF GateKept
<1>12. \A i \in DOMAIN effect : ~Applied(i)
    BY <1>7 DEF Applied, AppliedEffect
<1> QED
    BY <1>5, <1>9, <1>10, <1>11, <1>12 DEF PausesGo

LEMMA AddingStep ==
  ASSUME EffectsInv, NEW t \in Tick, Settles(t), probeRun' \in ProbeRuns,
         NEW queue \in SUBSET [type : EffectTypes, aliases : SUBSET Alias],
         \A x, y \in queue : x = y, effect' = Queued(queue),
         UNCHANGED <<gates, projection, alert, reading>>
  PROVE  EffectsStep
<1>0. EffectsTypeOK
    BY DEF EffectsInv
<1>1. effect' \in Seq(EffectRow) /\ GatesGo /\ EffectsGo /\ PausesGo
    BY <1>0, QueuedAdds DEF gates
<1>2. EffectsTypeOK'
    BY <1>0, <1>1 DEF EffectsTypeOK, Settles, ProbeRuns, gates
<1>3. ReadingsGo /\ ProjectionsGo
    BY ReadingsRest
<1>4. OthersRest(t)
    BY DEF OthersRest, Settles
<1>5. TicksFit'
    BY <1>1, <1>4, SettledFits
<1> QED
    BY <1>1, <1>2, <1>3, <1>5 DEF EffectsStep

-----------------------------------------------------------------------------
(* The ends of drains and ticks *)

\* Tick t becomes what `new` says.
Becomes(t, new) == tick' = [tick EXCEPT ![t] = new]

LEMMA BecomesSettled ==
  ASSUME EffectsTypeOK, NEW t \in Tick, NEW new \in TickState, Becomes(t, new),
         new.pc \notin {"project", "complete"}, new.todo = {} \/ new.todo = tick[t].todo,
         \A x, y \in new.queue : x = y
  PROVE  Settles(t)
<1>1. tick \in [Tick -> TickState]
    BY DEF EffectsTypeOK
<1>2. tick' \in [Tick -> TickState] /\ tick'[t] = new /\ \A u \in Tick \ {t} : tick'[u] = tick[u]
    BY <1>1 DEF Becomes
<1> QED
    BY <1>2 DEF Settles

LEMMA IdleIsTyped == Idle \in TickState
BY DEF Idle, TickState

LEMMA EndTickSettles ==
  ASSUME EffectsTypeOK, NEW t \in Tick, EndTick(t)
  PROVE  Settles(t) /\ probeRun' \in ProbeRuns
<1>1. Becomes(t, Idle)
    BY DEF EndTick, Becomes
<1>2. Settles(t)
    BY <1>1, IdleIsTyped, BecomesSettled DEF Idle
<1> QED
    BY <1>2 DEF EffectsTypeOK, EndTick, ProbeRuns

\* A tick that leaves its effects for a new place in its course.
LEMMA LeavingSettles ==
  ASSUME EffectsInv, NEW t \in Tick, NEW pc \in {"probe", "fail"},
         tick' = [tick EXCEPT ![t].pc = pc, ![t].todo = {}, ![t].left = {}]
  PROVE  Settles(t)
<1> DEFINE new == [tick[t] EXCEPT !.pc = pc, !.todo = {}, !.left = {}]
<1>0. EffectsTypeOK /\ tick[t] \in TickState
    BY DEF EffectsInv, EffectsTypeOK
<1>1. new \in TickState
    BY <1>0 DEF TickState
<1>2. Becomes(t, new)
    BY <1>0 DEF Becomes, EffectsTypeOK
<1>3. new.pc = pc /\ new.todo = {} /\ new.queue = tick[t].queue
    BY <1>0 DEF TickState
<1>4. \A x, y \in tick[t].queue : x = y
    BY DEF EffectsInv, TicksFit, OneQueued
<1> HIDE DEF new
<1> QED
    BY <1>0, <1>1, <1>2, <1>3, <1>4, BecomesSettled

LEMMA DrainReturnsSettles ==
  ASSUME EffectsInv, NEW t \in Tick, DrainReturns(t)
  PROVE  Settles(t) /\ probeRun' \in ProbeRuns
<1>0. EffectsTypeOK
    BY DEF EffectsInv
<1>1. CASE EndTick(t)
    BY <1>0, <1>1, EndTickSettles
<1>2. CASE ~EndTick(t)
  <2>1. Settles(t)
      BY <1>2, LeavingSettles DEF DrainReturns
  <2> QED
      BY <1>0, <1>2, <2>1 DEF DrainReturns, EffectsTypeOK, ProbeRuns
<1> QED
    BY <1>1, <1>2

LEMMA RaisesSettles ==
  ASSUME EffectsInv, NEW t \in Tick, Raises(t)
  PROVE  Settles(t) /\ probeRun' \in ProbeRuns
<1>0. EffectsTypeOK
    BY DEF EffectsInv
<1>1. CASE EndTick(t)
    BY <1>0, <1>1, EndTickSettles
<1>2. CASE ~EndTick(t)
  <2>1. Settles(t)
      BY <1>2, LeavingSettles DEF Raises
  <2> QED
      BY <1>0, <1>2, <2>1 DEF Raises, EffectsTypeOK, ProbeRuns
<1> QED
    BY <1>1, <1>2

-----------------------------------------------------------------------------
(* The steps of a tick that leave gates and projections alone *)

LEMMA BeginTickGoes ==
  ASSUME EffectsInv, NEW t \in Tick, BeginTick(t)
  PROVE  EffectsStep
<1> DEFINE new == [Idle EXCEPT !.pc = "drain"]
<1>0. EffectsTypeOK
    BY DEF EffectsInv
<1>1. new \in TickState /\ new.pc = "drain" /\ new.todo = {} /\ new.queue = {}
    BY DEF Idle, TickState
<1>2. Becomes(t, new)
    BY DEF BeginTick, Becomes
<1> HIDE DEF new
<1>3. Settles(t)
    BY <1>0, <1>1, <1>2, BecomesSettled
<1>4. /\ probeRun' \in ProbeRuns /\ ReadsNoMore(t)
      /\ UNCHANGED <<gates, projection, effect, alert>>
    BY <1>0 DEF BeginTick, EffectsTypeOK, ProbeRuns, ReadsNoMore
<1> QED
    BY <1>3, <1>4, SettledStep

LEMMA NotDueGoes ==
  ASSUME EffectsInv, NEW t \in Tick, NotDue(t)
  PROVE  EffectsStep
<1>1. Settles(t) /\ probeRun' \in ProbeRuns
    BY EndTickSettles DEF NotDue, EffectsInv
<1>2. ReadsNoMore(t) /\ UNCHANGED <<gates, projection, effect, alert>>
    BY DEF NotDue, ReadsNoMore
<1> QED
    BY <1>1, <1>2, SettledStep

LEMMA DiesGoes ==
  ASSUME EffectsInv, NEW t \in Tick, Dies(t)
  PROVE  EffectsStep
<1>1. Settles(t) /\ probeRun' \in ProbeRuns
    BY EndTickSettles DEF Dies, EffectsInv
<1>2. ReadsNoMore(t) /\ UNCHANGED <<gates, projection, effect, alert>>
    BY DEF Dies, ReadsNoMore
<1> QED
    BY <1>1, <1>2, SettledStep

LEMMA StepRaisesGoes ==
  ASSUME EffectsInv, NEW t \in Tick, StepRaises(t)
  PROVE  EffectsStep
<1>1. Settles(t) /\ probeRun' \in ProbeRuns
    BY RaisesSettles DEF StepRaises
<1>2. ReadsNoMore(t) /\ UNCHANGED <<gates, projection, effect, alert>>
    BY DEF StepRaises, ReadsNoMore
<1> QED
    BY <1>1, <1>2, SettledStep

LEMMA ProjectFailsGoes ==
  ASSUME EffectsInv, NEW t \in Tick, ProjectFails(t)
  PROVE  EffectsStep
<1>1. Settles(t) /\ probeRun' \in ProbeRuns
    BY DrainReturnsSettles DEF ProjectFails
<1>2. ReadsNoMore(t) /\ UNCHANGED <<gates, projection, effect, alert>>
    BY DEF ProjectFails, ReadsNoMore
<1> QED
    BY <1>1, <1>2, SettledStep

LEMMA StartRunTyped ==
  ASSUME EffectsTypeOK, NEW t \in Tick, StartRun(t)
  PROVE  probeRun' \in ProbeRuns
BY DEF StartRun, EffectsTypeOK, ProbeRuns

\* The probe puts the effect that goes with its outcome aside.
LEMMA OutcomeSettles ==
  ASSUME EffectsTypeOK, NEW t \in Tick,
         NEW queue \in SUBSET [type : EffectTypes, aliases : SUBSET Alias],
         \A x, y \in queue : x = y,
         tick' = [tick EXCEPT ![t].pc = "finish", ![t].queue = queue]
  PROVE  Settles(t)
<1> DEFINE new == [tick[t] EXCEPT !.pc = "finish", !.queue = queue]
<1>0. tick[t] \in TickState
    BY DEF EffectsTypeOK
<1>1. new \in TickState /\ new.pc = "finish" /\ new.todo = tick[t].todo /\ new.queue = queue
    BY <1>0 DEF TickState
<1>2. Becomes(t, new)
    BY DEF Becomes, EffectsTypeOK
<1> HIDE DEF new
<1> QED
    BY <1>1, <1>2, BecomesSettled

LEMMA ProbeGoes ==
  ASSUME EffectsInv, NEW t \in Tick, NEW covered \in CoverChoice, Probe(t, covered)
  PROVE  EffectsStep
<1> DEFINE queue == IF RecoveryPending THEN {[type |-> "recovery", aliases |-> covered]} ELSE {}
<1>0. EffectsTypeOK
    BY DEF EffectsInv
<1>1. covered \in SUBSET Alias
    BY EffectsAssumption
<1>2. queue \in SUBSET [type : EffectTypes, aliases : SUBSET Alias] /\ \A x, y \in queue : x = y
    BY <1>1 DEF EffectTypes
<1>3. tick' = [tick EXCEPT ![t].pc = "finish", ![t].queue = queue]
    BY DEF Probe
<1> HIDE DEF queue
<1>4. Settles(t)
    BY <1>0, <1>2, <1>3, OutcomeSettles
<1>5. /\ probeRun' \in ProbeRuns /\ ReadsNoMore(t)
      /\ UNCHANGED <<gates, projection, effect, alert>>
    BY <1>0, StartRunTyped DEF Probe, ReadsNoMore
<1> QED
    BY <1>4, <1>5, SettledStep

LEMMA ProbeFailsGoes ==
  ASSUME EffectsInv, NEW t \in Tick, NEW type \in EffectTypes, NEW aliases \in SUBSET Alias,
         ProbeFails(t, type, aliases)
  PROVE  EffectsStep
<1> DEFINE queue == {[type |-> type, aliases |-> aliases]}
<1>0. EffectsTypeOK
    BY DEF EffectsInv
<1>1. queue \in SUBSET [type : EffectTypes, aliases : SUBSET Alias] /\ \A x, y \in queue : x = y
    OBVIOUS
<1>2. tick' = [tick EXCEPT ![t].pc = "finish", ![t].queue = queue]
    BY DEF ProbeFails
<1> HIDE DEF queue
<1>3. Settles(t)
    BY <1>0, <1>1, <1>2, OutcomeSettles
<1>4. /\ probeRun' \in ProbeRuns /\ ReadsNoMore(t)
      /\ UNCHANGED <<gates, projection, effect, alert>>
    BY <1>0, StartRunTyped DEF ProbeFails, ReadsNoMore
<1> QED
    BY <1>3, <1>4, SettledStep

\* A tick drains again after its run ended.
LEMMA DrainsAgain ==
  ASSUME EffectsInv, NEW t \in Tick, NEW stage \in {"after", "failed"},
         tick' = [tick EXCEPT ![t].pc = "drain", ![t].stage = stage]
  PROVE  Settles(t)
<1> DEFINE new == [tick[t] EXCEPT !.pc = "drain", !.stage = stage]
<1>0. EffectsTypeOK /\ tick[t] \in TickState /\ \A x, y \in tick[t].queue : x = y
    BY DEF EffectsInv, EffectsTypeOK, TicksFit, OneQueued
<1>1. new \in TickState /\ new.pc = "drain" /\ new.todo = tick[t].todo /\ new.queue = tick[t].queue
    BY <1>0 DEF TickState
<1>2. Becomes(t, new)
    BY <1>0 DEF Becomes, EffectsTypeOK
<1> HIDE DEF new
<1> QED
    BY <1>0, <1>1, <1>2, BecomesSettled

LEMMA FinishRunGoes ==
  ASSUME EffectsInv, NEW t \in Tick, FinishRun(t)
  PROVE  EffectsStep
<1>0. EffectsTypeOK /\ UNCHANGED <<gates, projection, alert, reading>>
    BY DEF EffectsInv, FinishRun
<1>1. CASE probeRun[t] = "taken"
  <2>1. EndTick(t) /\ UNCHANGED effect
      BY <1>1 DEF FinishRun
  <2>2. Settles(t) /\ probeRun' \in ProbeRuns
      BY <1>0, <2>1, EndTickSettles
  <2>3. ReadsNoMore(t) /\ UNCHANGED <<gates, projection, effect, alert>>
      BY <1>0, <2>1 DEF ReadsNoMore
  <2> QED
      BY <2>2, <2>3, SettledStep
<1>2. CASE probeRun[t] # "taken"
  <2>1. Settles(t)
      BY <1>2, DrainsAgain DEF FinishRun
  <2>2. probeRun' \in ProbeRuns
      BY <1>0, <1>2 DEF FinishRun, EffectsTypeOK, ProbeRuns
  <2>3. /\ tick[t].queue \in SUBSET [type : EffectTypes, aliases : SUBSET Alias]
        /\ \A x, y \in tick[t].queue : x = y
    <3>1. tick[t] \in TickState
        BY <1>0 DEF EffectsTypeOK
    <3> QED
        BY <3>1 DEF TickState, EffectsInv, TicksFit, OneQueued
  <2>4. effect' = Queued(tick[t].queue)
      BY <1>2 DEF FinishRun
  <2> QED
      BY <1>0, <2>1, <2>2, <2>3, <2>4, AddingStep
<1> QED
    BY <1>1, <1>2

LEMMA FailRunGoes ==
  ASSUME EffectsInv, NEW t \in Tick, NEW type \in {"probe_unavailable", "probe_stale"},
         FailRun(t, type)
  PROVE  EffectsStep
<1> DEFINE queue == {[type |-> type, aliases |-> {}]}
<1>0. EffectsTypeOK /\ UNCHANGED <<gates, projection, alert, reading>>
    BY DEF EffectsInv, FailRun
<1>1. CASE EndTick(t) /\ UNCHANGED effect
  <2>1. Settles(t) /\ probeRun' \in ProbeRuns
      BY <1>0, <1>1, EndTickSettles
  <2>2. ReadsNoMore(t) /\ UNCHANGED <<gates, projection, effect, alert>>
      BY <1>0, <1>1 DEF ReadsNoMore
  <2> QED
      BY <2>1, <2>2, SettledStep
<1>2. CASE ~(EndTick(t) /\ UNCHANGED effect)
  <2>1. /\ probeRun' = [probeRun EXCEPT ![t] = "failed"]
        /\ effect' = Queued(queue)
        /\ tick' = [tick EXCEPT ![t].pc = "drain", ![t].stage = "failed"]
      BY <1>2 DEF FailRun
  <2>2. queue \in SUBSET [type : EffectTypes, aliases : SUBSET Alias] /\ \A x, y \in queue : x = y
      BY DEF EffectTypes
  <2> HIDE DEF queue
  <2>3. Settles(t)
      BY <2>1, DrainsAgain
  <2>4. probeRun' \in ProbeRuns
      BY <1>0, <2>1 DEF EffectsTypeOK, ProbeRuns
  <2> QED
      BY <1>0, <2>1, <2>2, <2>3, <2>4, AddingStep
<1> QED
    BY <1>1, <1>2

-----------------------------------------------------------------------------
(* A drain: reading, completing and projecting *)

LEMMA BecomesTyped ==
  ASSUME EffectsTypeOK, NEW t \in Tick, NEW new \in TickState, Becomes(t, new)
  PROVE  /\ tick' \in [Tick -> TickState] /\ tick'[t] = new
         /\ \A u \in Tick \ {t} : tick'[u] = tick[u]
BY DEF Becomes, EffectsTypeOK

LEMMA ReadPendingGoes ==
  ASSUME EffectsInv, NEW t \in Tick, ReadPending(t)
  PROVE  EffectsStep
<1> DEFINE new == [tick[t] EXCEPT !.pc = "apply", !.todo = Pending]
<1>0. /\ EffectsTypeOK /\ tick[t] \in TickState /\ OneQueued(t)
      /\ UNCHANGED <<gates, projection, effect, alert, probeRun, reading>>
    BY DEF EffectsInv, EffectsTypeOK, TicksFit, ReadPending
<1>1. Pending \subseteq DOMAIN effect /\ \A k \in DOMAIN effect : k \in Nat
    BY <1>0, EffectsAreNumbered DEF Pending
<1>2. new \in TickState /\ new.pc = "apply" /\ new.todo = Pending /\ new.queue = tick[t].queue
    BY <1>0, <1>1 DEF TickState
<1>3. Becomes(t, new)
    BY <1>0 DEF Becomes, ReadPending, EffectsTypeOK
<1> HIDE DEF new
<1>4. /\ tick' \in [Tick -> TickState] /\ tick'[t] = new
      /\ \A u \in Tick \ {t} : tick'[u] = tick[u]
    BY <1>0, <1>2, <1>3, BecomesTyped
<1>5. EffectsTypeOK'
    BY <1>0, <1>4 DEF EffectsTypeOK, gates
<1>6. GatesGo /\ EffectsGo /\ PausesGo
    BY <1>0, StoreRests DEF gates
<1>7. ReadingsGo /\ ProjectionsGo
    BY <1>0, ReadingsRest
<1>8. InTurn(t)'
    BY <1>0, <1>1, <1>2, <1>4 DEF InTurn, Pending, AppliedEffect
<1>9. AtItsWork(t)' /\ OneQueued(t)'
    BY <1>0, <1>2, <1>4 DEF AtItsWork, OneQueued
<1>10. TicksFit'
    BY <1>0, <1>4, <1>6, <1>8, <1>9, OneFits DEF Fits, OthersRest
<1> QED
    BY <1>5, <1>6, <1>7, <1>10 DEF EffectsStep

\* A tick at its work works on the first effect that it has to do.
LEMMA OldestIsPending ==
  ASSUME EffectsInv, NEW t \in Tick, tick[t].todo # {}
  PROVE  /\ OldestOf(t) \in tick[t].todo /\ OldestOf(t) \in DOMAIN effect
         /\ \A k \in DOMAIN effect : k < OldestOf(t) => AppliedEffect(k)
<1>0. EffectsTypeOK /\ InTurn(t) /\ tick[t] \in TickState
    BY DEF EffectsInv, TicksFit, EffectsTypeOK
<1>1. tick[t].todo \in SUBSET Nat /\ \A k \in DOMAIN effect : k \in Nat
    BY <1>0, EffectsAreNumbered DEF TickState
<1>2. OldestOf(t) \in tick[t].todo /\ \A k \in tick[t].todo : OldestOf(t) <= k
    BY <1>1, LeastIsOne DEF OldestOf
<1>3. ASSUME NEW k \in DOMAIN effect, k < OldestOf(t) PROVE k \notin tick[t].todo
    BY <1>1, <1>2, <1>3
<1> QED
    BY <1>0, <1>2, <1>3 DEF InTurn

LEMMA CompleteGoes ==
  ASSUME EffectsInv, NEW t \in Tick, Complete(t)
  PROVE  EffectsStep
<1> DEFINE i == OldestOf(t)
           new == [tick[t] EXCEPT !.pc = "apply", !.todo = tick[t].todo \ {i}]
           row == [effect[i] EXCEPT !.status = "completed"]
<1>0. /\ EffectsTypeOK /\ tick[t] \in TickState /\ OneQueued(t) /\ tick[t].todo # {}
      /\ UNCHANGED <<gates, projection, alert, reading>>
    BY DEF EffectsInv, EffectsTypeOK, TicksFit, AtItsWork, Complete, At
<1>1. i \in tick[t].todo /\ i \in DOMAIN effect
    BY <1>0, OldestIsPending
<1>2. CASE Raises(t) /\ UNCHANGED effect
  <2>1. Settles(t) /\ probeRun' \in ProbeRuns
      BY <1>2, RaisesSettles
  <2>2. ReadsNoMore(t) /\ UNCHANGED <<gates, projection, effect, alert>>
      BY <1>0, <1>2 DEF ReadsNoMore
  <2> QED
      BY <2>1, <2>2, SettledStep
<1>3. CASE ~(Raises(t) /\ UNCHANGED effect)
  <2>1. /\ effect[i].status = "store_applied" /\ UNCHANGED probeRun
        /\ effect' = [effect EXCEPT ![i].status = "completed"]
        /\ tick' = [tick EXCEPT ![t].pc = "apply", ![t].todo = tick[t].todo \ {i}]
      BY <1>3 DEF Complete
  <2>2. /\ Len(effect) \in Nat /\ DOMAIN effect = 1..Len(effect)
        /\ \A k \in DOMAIN effect : effect[k] \in EffectRow /\ k \in Nat
      BY <1>0, EffectsAreNumbered
  <2>3. /\ row \in EffectRow /\ row.status = "completed" /\ row.type = effect[i].type
        /\ row.aliases = effect[i].aliases /\ row.stops = effect[i].stops
      BY <1>1, <2>2 DEF EffectRow
  <2>4. effect' = [effect EXCEPT ![i] = row]
      BY <2>1
  <2>5. /\ new \in TickState /\ new.pc = "apply" /\ new.todo = tick[t].todo \ {i}
        /\ new.queue = tick[t].queue
      BY <1>0 DEF TickState
  <2>6. Becomes(t, new)
      BY <1>0, <2>1 DEF Becomes, EffectsTypeOK
  <2> HIDE DEF i, row, new
  <2>7. /\ effect' \in Seq(EffectRow) /\ DOMAIN effect' = DOMAIN effect
        /\ \A k \in DOMAIN effect : effect'[k] = IF k = i THEN row ELSE effect[k]
    <3>1. effect \in Seq(EffectRow) /\ i \in 1..Len(effect)
        BY <1>0, <1>1, <2>2 DEF EffectsTypeOK
    <3>2. effect' \in Seq(EffectRow)
        BY <2>3, <2>4, <3>1, ExceptSeq
    <3> QED
        BY <1>1, <2>4, <3>1, <3>2, <2>2
  <2>8. /\ tick' \in [Tick -> TickState] /\ tick'[t] = new
        /\ \A u \in Tick \ {t} : tick'[u] = tick[u]
      BY <1>0, <2>5, <2>6, BecomesTyped
  <2>9. EffectsTypeOK'
      BY <1>0, <2>1, <2>7, <2>8 DEF EffectsTypeOK, gates
  <2>10. EffectsGo /\ \A k \in DOMAIN effect : ~Applied(k)
    <3>1. \A k \in DOMAIN effect : AppliedEffect(k)' <=> AppliedEffect(k)
        BY <2>1, <2>3, <2>7 DEF AppliedEffect
    <3>2. \A k \in DOMAIN effect : /\ effect'[k].type = effect[k].type
                                   /\ effect'[k].aliases = effect[k].aliases
                                   /\ effect'[k].stops = effect[k].stops
        BY <2>3, <2>7
    <3> QED
        BY <2>7, <3>1, <3>2 DEF EffectsGo, Applied
  <2>11. GatesGo
      BY <1>0 DEF GatesGo, gates, EffectsTypeOK
  <2>12. \A s \in Strategy : \A g \in reason[s] : GateKept(s, g)
      BY <1>0 DEF GateKept, gates
  <2>13. PausesGo
      BY <2>10, <2>12 DEF PausesGo
  <2>14. ReadingsGo /\ ProjectionsGo
      BY <1>0, ReadingsRest
  <2>15. \A k \in tick[t].todo \ tick'[t].todo : AppliedEffect(k)'
      BY <1>1, <2>3, <2>5, <2>7, <2>8 DEF AppliedEffect
  <2>16. InTurn(t)'
      BY <2>5, <2>8, <2>10, <2>15, InTurnKept
  <2>17. AtItsWork(t)' /\ OneQueued(t)'
      BY <1>0, <2>5, <2>8 DEF AtItsWork, OneQueued
  <2>18. TicksFit'
      BY <1>0, <2>8, <2>10, <2>16, <2>17, OneFits DEF Fits, OthersRest
  <2> QED
      BY <2>9, <2>10, <2>11, <2>13, <2>14, <2>18 DEF EffectsStep
<1> QED
    BY <1>2, <1>3

\* What is read of a gate is what the store says.
LEMMA ReadGateReads ==
  ASSUME EffectsTypeOK, NEW p \in Projector, NEW s \in Strategy, ReadGate(p, s),
         UNCHANGED <<reason, revision, projection>>
  PROVE  /\ reading' \in [Projector -> SUBSET Reading] /\ reading'[p] # {}
         /\ \A x \in Projector \ {p} : reading'[x] = reading[x]
         /\ ReadingsGo /\ ProjectionsGo
<1> DEFINE r == [strategy |-> s, snapshot |-> [gates |-> reason[s], revision |-> revision[s]]]
<1>0. /\ reading \in [Projector -> SUBSET Reading] /\ reason[s] \in SUBSET Gate
      /\ revision[s] \in Nat
    BY DEF EffectsTypeOK
<1>1. /\ r \in Reading /\ r.strategy = s
      /\ r.snapshot = [gates |-> reason[s], revision |-> revision[s]]
    BY <1>0 DEF Reading, Snapshot
<1>2. reading' = [reading EXCEPT ![p] = {r}]
    BY DEF ReadGate
<1> HIDE DEF r
<1>3. /\ reading' \in [Projector -> SUBSET Reading] /\ reading'[p] = {r}
      /\ \A x \in Projector \ {p} : reading'[x] = reading[x]
    BY <1>0, <1>1, <1>2
<1>4. ReadingsGo
  <2> SUFFICES ASSUME NEW x \in Projector, NEW y \in reading'[x]
               PROVE  \/ y \in reading[x]
                      \/ /\ y.strategy \in Strategy
                         /\ y.snapshot = [gates |-> reason'[y.strategy],
                                          revision |-> revision'[y.strategy]]
      BY DEF ReadingsGo
  <2>1. CASE x # p
      BY <1>3, <2>1
  <2>2. CASE x = p
      BY <1>1, <1>3, <2>2
  <2> QED
      BY <2>1, <2>2
<1> QED
    BY <1>3, <1>4 DEF ProjectionsGo

\* A reading becomes the projection, unless that is newer.
LEMMA ProjectedFrom ==
  ASSUME EffectsTypeOK, NEW p \in Projector, NEW r \in reading[p],
         projection' = Projected(r.strategy, r.snapshot)
  PROVE  projection' \in [Strategy -> Snapshot] /\ ProjectionsGo
<1>0. projection \in [Strategy -> Snapshot] /\ r.strategy \in Strategy /\ r.snapshot \in Snapshot
    BY ReadingIsTyped DEF EffectsTypeOK
<1>1. projection' \in [Strategy -> Snapshot]
    BY <1>0 DEF Projected
<1>2. \A s \in Strategy : projection'[s] = projection[s] \/ (s = r.strategy /\ projection'[s] = r.snapshot)
    BY <1>0 DEF Projected
<1> QED
    BY <1>1, <1>2 DEF ProjectionsGo

LEMMA ProjectGoes ==
  ASSUME EffectsInv, NEW t \in Tick, Project(t)
  PROVE  EffectsStep
<1>0. /\ EffectsTypeOK /\ tick[t] \in TickState /\ OneQueued(t) /\ AtItsWork(t) /\ t \in Projector
      /\ tick[t].pc = "project" /\ tick[t].todo # {}
      /\ UNCHANGED <<gates, effect, alert, probeRun>> /\ Tick \subseteq Projector
    BY DEF EffectsInv, EffectsTypeOK, TicksFit, AtItsWork, Project, At, Projector
<1>1. GatesGo /\ EffectsGo /\ PausesGo
    BY <1>0, StoreRests DEF gates
<1>2. CASE reading[t] = {}
  <2> DEFINE s == CHOOSE s \in tick[t].left : TRUE
             new == [tick[t] EXCEPT !.left = tick[t].left \ {s}]
  <2>1. s \in Strategy
      BY <1>0, <1>2 DEF AtItsWork, TickState
  <2>2. /\ ReadGate(t, s) /\ UNCHANGED projection
        /\ tick' = [tick EXCEPT ![t].left = tick[t].left \ {s}]
      BY <1>2 DEF Project
  <2>3. /\ new \in TickState /\ new.pc = "project" /\ new.todo = tick[t].todo
        /\ new.queue = tick[t].queue
      BY <1>0 DEF TickState
  <2>4. Becomes(t, new)
      BY <1>0, <2>2 DEF Becomes, EffectsTypeOK
  <2> HIDE DEF s, new
  <2>5. /\ reading' \in [Projector -> SUBSET Reading] /\ reading'[t] # {}
        /\ \A x \in Projector \ {t} : reading'[x] = reading[x]
        /\ ReadingsGo /\ ProjectionsGo
      BY <1>0, <2>1, <2>2, ReadGateReads DEF gates
  <2>6. /\ tick' \in [Tick -> TickState] /\ tick'[t] = new
        /\ \A u \in Tick \ {t} : tick'[u] = tick[u]
      BY <1>0, <2>3, <2>4, BecomesTyped
  <2>7. EffectsTypeOK'
      BY <1>0, <2>2, <2>5, <2>6 DEF EffectsTypeOK, gates
  <2>8. InTurn(t)'
      BY <1>1, <2>3, <2>6, InTurnKept
  <2>9. AtItsWork(t)' /\ OneQueued(t)'
      BY <1>0, <2>3, <2>5, <2>6 DEF AtItsWork, OneQueued
  <2>10. TicksFit'
      BY <1>0, <1>1, <2>5, <2>6, <2>8, <2>9, OneFits DEF Fits, OthersRest
  <2> QED
      BY <1>1, <2>5, <2>7, <2>10 DEF EffectsStep
<1>3. CASE reading[t] # {}
  <2> DEFINE new == IF tick[t].left = {} THEN [tick[t] EXCEPT !.pc = "complete"] ELSE tick[t]
  <2>1. /\ WriteProjection(t)
        /\ IF tick[t].left = {} THEN Goto(t, "complete") ELSE UNCHANGED tick
      BY <1>3 DEF Project
  <2>2. PICK r \in reading[t] : projection' = Projected(r.strategy, r.snapshot)
      BY <2>1 DEF WriteProjection
  <2>3. reading' = [reading EXCEPT ![t] = {}]
      BY <2>1 DEF WriteProjection
  <2>4. projection' \in [Strategy -> Snapshot] /\ ProjectionsGo
      BY <1>0, <2>2, ProjectedFrom
  <2>5. /\ reading' \in [Projector -> SUBSET Reading]
        /\ \A x \in Projector \ {t} : reading'[x] = reading[x]
        /\ \A x \in Projector : reading'[x] \subseteq reading[x]
      BY <1>0, <2>3 DEF EffectsTypeOK
  <2>6. ReadingsGo
      BY <2>5 DEF ReadingsGo
  <2>7. /\ new \in TickState /\ new.todo = tick[t].todo /\ new.queue = tick[t].queue
        /\ new.pc = "project" => new.left # {}
      BY <1>0 DEF TickState
  <2>8. Becomes(t, new)
      BY <1>0, <2>1 DEF Becomes, Goto, EffectsTypeOK
  <2> HIDE DEF new
  <2>9. /\ tick' \in [Tick -> TickState] /\ tick'[t] = new
        /\ \A u \in Tick \ {t} : tick'[u] = tick[u]
      BY <1>0, <2>7, <2>8, BecomesTyped
  <2>10. EffectsTypeOK'
      BY <1>0, <2>4, <2>5, <2>9 DEF EffectsTypeOK, gates
  <2>11. InTurn(t)'
      BY <1>1, <2>7, <2>9, InTurnKept
  <2>12. AtItsWork(t)' /\ OneQueued(t)'
      BY <1>0, <2>7, <2>9 DEF AtItsWork, OneQueued
  <2>13. TicksFit'
      BY <1>0, <1>1, <2>5, <2>9, <2>11, <2>12, OneFits DEF Fits, OthersRest
  <2> QED
      BY <1>1, <2>4, <2>6, <2>10, <2>13 DEF EffectsStep
<1> QED
    BY <1>2, <1>3

-----------------------------------------------------------------------------
(* Operators, readers and Redis *)

\* A step that leaves the ticks and the effects alone.
LEMMA OutsideStep ==
  ASSUME EffectsInv, UNCHANGED <<effect, probeRun, tick>>,
         \A u \in Tick : reading'[u] = reading[u],
         deps' \in DepChoice, reason' \in [Strategy -> SUBSET Gate],
         revision' \in [Strategy -> Nat], projection' \in [Strategy -> Snapshot],
         alert' \in Seq(AlertRow), reading' \in [Projector -> SUBSET Reading],
         GatesGo, \A s \in Strategy : \A g \in reason[s] : g.source # "operator_pause" => g \in reason'[s],
         ReadingsGo, ProjectionsGo
  PROVE  EffectsStep
<1>0. EffectsTypeOK
    BY DEF EffectsInv
<1>1. EffectsTypeOK'
    BY <1>0 DEF EffectsTypeOK
<1>2. EffectsGo /\ \A k \in DOMAIN effect : ~Applied(k)
    BY DEF EffectsGo, AppliedEffect, Applied
<1>3. \A s \in Strategy : \A g \in reason[s] : g.source # "operator_pause" => GateKept(s, g)
    BY DEF GateKept
<1>4. PausesGo
    BY <1>2, <1>3 DEF PausesGo
<1>5. TicksFit'
    BY <1>2, AllFit
<1> QED
    BY <1>1, <1>2, <1>4, <1>5 DEF EffectsStep

LEMMA ProjectorsDiffer ==
  /\ Web \in Projector /\ Reader \in Projector /\ Tick \subseteq Projector
  /\ Web \notin Tick /\ Reader \notin Tick
BY EffectsAssumption DEF Projector

LEMMA RegateGoes ==
  ASSUME EffectsTypeOK, NEW new \in [Strategy -> SUBSET Gate], Regate(new)
  PROVE  /\ reason' \in [Strategy -> SUBSET Gate] /\ revision' \in [Strategy -> Nat]
         /\ reason' = new /\ GatesGo
<1>1. reason' = new /\ revision \in [Strategy -> Nat] /\ reason \in [Strategy -> SUBSET Gate]
    BY DEF Regate, EffectsTypeOK
<1>2. \A s \in Strategy : revision'[s] = revision[s] + (IF new[s] # reason[s] THEN 1 ELSE 0)
    BY DEF Regate
<1>3. revision' \in [Strategy -> Nat]
    BY <1>1 DEF Regate
<1>4. GatesGo
    BY <1>1, <1>2 DEF GatesGo
<1> QED
    BY <1>1, <1>3, <1>4

\* The Web process reads, after its step, gates of which it had no reading.
LEMMA SnapshotsRead ==
  ASSUME EffectsTypeOK, reason' \in [Strategy -> SUBSET Gate], revision' \in [Strategy -> Nat],
         NEW strategies \in SUBSET Strategy,
         reading' = [reading EXCEPT ![Web] = Snapshots(strategies)]
  PROVE  /\ reading' \in [Projector -> SUBSET Reading]
         /\ \A u \in Tick : reading'[u] = reading[u]
         /\ ReadingsGo
<1>1. \A r \in Snapshots(strategies) :
        /\ r \in Reading
        /\ r.strategy \in Strategy
        /\ r.snapshot = [gates |-> reason'[r.strategy], revision |-> revision'[r.strategy]]
    BY DEF Snapshots, Reading, Snapshot
<1>2. /\ reading \in [Projector -> SUBSET Reading] /\ Web \in Projector /\ Web \notin Tick
      /\ Tick \subseteq Projector
    BY ProjectorsDiffer DEF EffectsTypeOK
<1>3. Snapshots(strategies) \in SUBSET Reading
    BY <1>1
<1>4. /\ reading' \in [Projector -> SUBSET Reading] /\ reading'[Web] = Snapshots(strategies)
      /\ \A p \in Projector \ {Web} : reading'[p] = reading[p]
    BY <1>2, <1>3
<1>5. ReadingsGo
    BY <1>1, <1>4 DEF ReadingsGo
<1> QED
    BY <1>2, <1>4, <1>5

LEMMA SetManualGateGoes ==
  ASSUME EffectsInv, NEW s \in Strategy, NEW paused \in BOOLEAN, SetManualGate(s, paused)
  PROVE  EffectsStep
<1> DEFINE pause == IF paused THEN {[source |-> "operator_pause", aliases |-> {}]} ELSE {}
           kept == {g \in reason[s] : g.source # "operator_pause"}
           new == [reason EXCEPT ![s] = kept \cup pause]
<1>0. /\ EffectsTypeOK /\ reason \in [Strategy -> SUBSET Gate]
      /\ UNCHANGED <<deps, projection, effect, alert, probeRun, tick>>
    BY DEF EffectsInv, EffectsTypeOK, SetManualGate
<1>1. pause \subseteq Gate
    BY DEF Gate
<1>2. Regate(new)
    BY <1>0 DEF SetManualGate
<1> HIDE DEF pause
<1>3. new \in [Strategy -> SUBSET Gate]
    BY <1>0, <1>1
<1>4. \A x \in Strategy : \A g \in reason[x] : g.source # "operator_pause" => g \in new[x]
    BY <1>0
<1> HIDE DEF new
<1>5. /\ reason' \in [Strategy -> SUBSET Gate] /\ revision' \in [Strategy -> Nat]
      /\ reason' = new /\ GatesGo
    BY <1>0, <1>2, <1>3, RegateGoes
<1>6. reading' = [reading EXCEPT ![Web] = Snapshots({s})] /\ {s} \in SUBSET Strategy
    BY DEF SetManualGate
<1>7. /\ reading' \in [Projector -> SUBSET Reading]
      /\ \A u \in Tick : reading'[u] = reading[u]
      /\ ReadingsGo
    BY <1>0, <1>5, <1>6, SnapshotsRead
<1>8. ProjectionsGo
    BY <1>0 DEF ProjectionsGo
<1> QED
    BY <1>0, <1>4, <1>5, <1>7, <1>8, OutsideStep DEF EffectsTypeOK

LEMMA RebuildDependenciesGoes ==
  ASSUME EffectsInv, NEW new \in DepChoice, RebuildDependencies(new)
  PROVE  EffectsStep
<1> DEFINE managed == {x[2] : x \in deps \cup new}
<1>0. /\ EffectsTypeOK /\ deps' = new
      /\ UNCHANGED <<reason, projection, effect, alert, probeRun, tick>>
      /\ reading' = [reading EXCEPT ![Web] = Snapshots(managed)]
      /\ revision' = [x \in Strategy |-> revision[x] + (IF x \in managed THEN 1 ELSE 0)]
    BY DEF EffectsInv, RebuildDependencies
<1>1. managed \in SUBSET Strategy
  <2>1. \A x \in deps \cup new : x \in Alias \X Strategy
      BY <1>0, EffectsAssumption DEF EffectsTypeOK
  <2> QED
      BY <2>1
<1> HIDE DEF managed
<1>2. revision' \in [Strategy -> Nat] /\ GatesGo
  <2>1. revision \in [Strategy -> Nat]
      BY <1>0 DEF EffectsTypeOK
  <2>2. revision' \in [Strategy -> Nat]
      BY <1>0, <2>1
  <2>3. \A x \in Strategy : revision'[x] >= revision[x]
      BY <1>0, <2>1
  <2> QED
      BY <1>0, <2>2, <2>3 DEF GatesGo
<1>3. reason' \in [Strategy -> SUBSET Gate]
    BY <1>0 DEF EffectsTypeOK
<1>4. /\ reading' \in [Projector -> SUBSET Reading]
      /\ \A u \in Tick : reading'[u] = reading[u]
      /\ ReadingsGo
    BY <1>0, <1>1, <1>2, <1>3, SnapshotsRead
<1>5. ProjectionsGo
    BY <1>0 DEF ProjectionsGo
<1> QED
    BY <1>0, <1>2, <1>3, <1>4, <1>5, OutsideStep DEF EffectsTypeOK

LEMMA TransitionAlertGoes ==
  ASSUME EffectsInv, NEW i \in DOMAIN alert, NEW status \in {"acknowledged", "resolved"},
         TransitionAlert(i, status)
  PROVE  EffectsStep
<1> DEFINE row == [alert[i] EXCEPT !.status = status]
<1>0. /\ EffectsTypeOK /\ alert \in Seq(AlertRow)
      /\ UNCHANGED <<gates, projection, effect, probeRun, tick, reading>>
    BY DEF EffectsInv, EffectsTypeOK, TransitionAlert
<1>1. i \in 1..Len(alert) /\ alert[i] \in AlertRow
    BY <1>0, LenProperties, ElementOfSeq
<1>2. row \in AlertRow
    BY <1>1 DEF AlertRow
<1>3. alert' = [alert EXCEPT ![i] = row]
    BY DEF TransitionAlert
<1> HIDE DEF row
<1>4. alert' \in Seq(AlertRow)
    BY <1>0, <1>1, <1>2, <1>3, ExceptSeq
<1>5. GatesGo
    BY <1>0, StoreRests DEF gates
<1>6. ReadingsGo /\ ProjectionsGo
    BY <1>0, ReadingsRest
<1> QED
    BY <1>0, <1>4, <1>5, <1>6, OutsideStep DEF EffectsTypeOK, gates

LEMMA CheckGoes ==
  ASSUME EffectsInv, NEW s \in Strategy, Check(s)
  PROVE  EffectsStep
<1>0. /\ EffectsTypeOK /\ ReadGate(Reader, s)
      /\ UNCHANGED <<gates, projection, effect, alert, probeRun, tick>>
    BY DEF EffectsInv, Check
<1>1. GatesGo
    BY <1>0, StoreRests DEF gates
<1>2. /\ reading' \in [Projector -> SUBSET Reading]
      /\ \A x \in Projector \ {Reader} : reading'[x] = reading[x]
      /\ ReadingsGo /\ ProjectionsGo
    BY <1>0, ProjectorsDiffer, ReadGateReads DEF gates
<1>3. \A u \in Tick : reading'[u] = reading[u]
    BY <1>2, ProjectorsDiffer
<1> QED
    BY <1>0, <1>1, <1>2, <1>3, OutsideStep DEF EffectsTypeOK, gates

LEMMA WriteGateGoes ==
  ASSUME EffectsInv, NEW p \in {Web, Reader}, WriteGate(p)
  PROVE  EffectsStep
<1>0. /\ EffectsTypeOK /\ p \in Projector /\ p \notin Tick /\ Tick \subseteq Projector
      /\ UNCHANGED <<gates, effect, alert, probeRun, tick>>
    BY ProjectorsDiffer DEF EffectsInv, WriteGate
<1>1. PICK r \in reading[p] : /\ projection' = Projected(r.strategy, r.snapshot)
                              /\ reading' = [reading EXCEPT ![p] = @ \ {r}]
    BY DEF WriteGate
<1>2. GatesGo
    BY <1>0, StoreRests DEF gates
<1>3. projection' \in [Strategy -> Snapshot] /\ ProjectionsGo
    BY <1>0, <1>1, ProjectedFrom
<1>4. /\ reading' \in [Projector -> SUBSET Reading]
      /\ \A u \in Tick : reading'[u] = reading[u]
      /\ \A x \in Projector : reading'[x] \subseteq reading[x]
    BY <1>0, <1>1 DEF EffectsTypeOK
<1>5. ReadingsGo
    BY <1>4 DEF ReadingsGo
<1> QED
    BY <1>0, <1>2, <1>3, <1>4, <1>5, OutsideStep DEF EffectsTypeOK, gates

LEMMA GateUnwrittenGoes ==
  ASSUME EffectsInv, NEW p \in {Web, Reader}, GateUnwritten(p)
  PROVE  EffectsStep
<1>0. /\ EffectsTypeOK /\ p \in Projector /\ p \notin Tick /\ Tick \subseteq Projector
      /\ UNCHANGED <<gates, projection, effect, alert, probeRun, tick>>
      /\ reading' = [reading EXCEPT ![p] = {}]
    BY ProjectorsDiffer DEF EffectsInv, GateUnwritten
<1>1. GatesGo
    BY <1>0, StoreRests DEF gates
<1>2. /\ reading' \in [Projector -> SUBSET Reading]
      /\ \A u \in Tick : reading'[u] = reading[u]
      /\ \A x \in Projector : reading'[x] \subseteq reading[x]
    BY <1>0 DEF EffectsTypeOK
<1>3. ReadingsGo /\ ProjectionsGo
    BY <1>0, <1>2, ReadingsRest
<1> QED
    BY <1>0, <1>1, <1>2, <1>3, OutsideStep DEF EffectsTypeOK, gates

LEMMA ProjectionsLostGoes ==
  ASSUME EffectsInv, ProjectionsLost
  PROVE  EffectsStep
<1>0. /\ EffectsTypeOK
      /\ UNCHANGED <<gates, effect, alert, probeRun, tick, reading>>
      /\ projection' = [s \in Strategy |-> NoSnapshot]
    BY DEF EffectsInv, ProjectionsLost
<1>1. GatesGo
    BY <1>0, StoreRests DEF gates
<1>2. projection' \in [Strategy -> Snapshot] /\ ProjectionsGo
    BY <1>0, NothingIsTyped DEF ProjectionsGo
<1>3. ReadingsGo
    BY <1>0 DEF ReadingsGo
<1> QED
    BY <1>0, <1>1, <1>2, <1>3, OutsideStep DEF EffectsTypeOK, gates

-----------------------------------------------------------------------------
(* Applying an effect *)

LEMMA RowsAreSeq ==
  ASSUME NEW S, NEW n \in Nat, NEW f \in [1..n -> S]
  PROVE  f \in Seq(S)
OBVIOUS

LEMMA AlertedTyped ==
  ASSUME EffectsTypeOK, NEW class \in {"selector_validation_failed", "probe_unavailable"},
         NEW aliases \in SUBSET Alias, NEW strategies \in SUBSET Strategy
  PROVE  Alerted(class, aliases, strategies) \in Seq(AlertRow)
<1> DEFINE same == {i \in Unresolved : alert[i].class = class /\ alert[i].aliases = aliases}
           first == [class |-> class, aliases |-> aliases, strategies |-> strategies,
                     status |-> "open", count |-> 1]
           again == [i \in DOMAIN alert |-> IF i \notin same THEN alert[i] ELSE
                       [alert[i] EXCEPT !.strategies = strategies, !.count = @ + 1]]
<1>0. /\ alert \in Seq(AlertRow) /\ Len(alert) \in Nat /\ DOMAIN alert = 1..Len(alert)
      /\ \A i \in DOMAIN alert : alert[i] \in AlertRow
    BY LenProperties, ElementOfSeq DEF EffectsTypeOK
<1>1. Append(alert, first) \in Seq(AlertRow)
  <2>1. first \in AlertRow
      BY DEF AlertRow
  <2> QED
      BY <1>0, <2>1, AppendProperties
<1>2. again \in Seq(AlertRow)
  <2> HIDE DEF same
  <2>1. ASSUME NEW i \in DOMAIN alert
        PROVE  [alert[i] EXCEPT !.strategies = strategies, !.count = @ + 1] \in AlertRow
    <3> DEFINE row == alert[i]
    <3>1. row \in AlertRow /\ row.count + 1 \in Nat
        BY <1>0 DEF AlertRow
    <3> HIDE DEF row
    <3>2. [row EXCEPT !.strategies = strategies, !.count = row.count + 1] \in AlertRow
        BY <3>1 DEF AlertRow
    <3>3. [row EXCEPT !.strategies = strategies, !.count = @ + 1]
            = [row EXCEPT !.strategies = strategies, !.count = row.count + 1]
        BY <3>1 DEF AlertRow
    <3> QED
        BY <3>2, <3>3 DEF row
  <2>2. again \in [1..Len(alert) -> AlertRow]
      BY <1>0, <2>1
  <2> QED
      BY <1>0, <2>2, RowsAreSeq
<1> QED
    BY <1>1, <1>2 DEF Alerted

LEMMA GateIsTyped ==
  ASSUME NEW g \in Gate
  PROVE  /\ g.aliases \in SUBSET Alias
         /\ g.source # "operator_pause" => g.aliases # {}
         /\ g.source \in {"operator_pause", "selector_validation_failed", "probe_validation_stale"}
<1>1. CASE g \in [source : {"operator_pause"}, aliases : {{}}]
    BY <1>1
<1>2. CASE g \in [source : {"selector_validation_failed", "probe_validation_stale"},
                  aliases : (SUBSET Alias) \ {{}}]
    BY <1>2
<1> QED
    BY <1>1, <1>2 DEF Gate

\* The aliases of a new reason join those of the open one.
LEMMA ReasonedJoins ==
  ASSUME EffectsTypeOK, NEW s \in Strategy,
         NEW source \in {"selector_validation_failed", "probe_validation_stale"},
         NEW aliases \in SUBSET Alias, aliases # {}
  PROVE  /\ Reasoned(s, source, aliases) \in SUBSET Gate
         /\ \A g \in reason[s] : \E h \in Reasoned(s, source, aliases) :
              h.source = g.source /\ g.aliases \subseteq h.aliases
         /\ \E h \in Reasoned(s, source, aliases) :
              h.source = source /\ aliases \subseteq h.aliases
<1> DEFINE open == {g \in reason[s] : g.source = source}
           joined == aliases \cup UNION {g.aliases : g \in open}
           gate == [source |-> source, aliases |-> joined]
<1>0. reason[s] \in SUBSET Gate /\ \A g \in reason[s] : g.aliases \in SUBSET Alias
    BY GateIsTyped DEF EffectsTypeOK
<1>1. /\ joined \in (SUBSET Alias) \ {{}} /\ aliases \subseteq joined
      /\ \A g \in open : g.aliases \subseteq joined
  <2>1. \A x \in UNION {g.aliases : g \in open} : x \in Alias
      BY <1>0
  <2>2. joined \subseteq Alias
      BY <2>1
  <2>3. joined # {} /\ aliases \subseteq joined
      OBVIOUS
  <2>4. \A g \in open : g.aliases \subseteq joined
      OBVIOUS
  <2> QED
      BY <2>2, <2>3, <2>4
<1>2. Reasoned(s, source, aliases) = (reason[s] \ open) \cup {gate}
    BY DEF Reasoned
<1> HIDE DEF joined
<1>3. gate \in Gate /\ gate.source = source /\ gate.aliases = joined
    BY <1>1 DEF Gate
<1> HIDE DEF gate
<1> QED
    BY <1>0, <1>1, <1>2, <1>3

\* Those whom an effect stops for a strategy.
NamedBy(e, s) == {a \in Alias : <<a, s>> \in Stops(e)}

\* What the application of an effect must do to gates and alerts.
Applies(e) ==
  /\ reason' \in [Strategy -> SUBSET Gate] /\ revision' \in [Strategy -> Nat] /\ GatesGo
  /\ alert' \in Seq(AlertRow)
  /\ \A s \in Strategy : \A g \in reason[s] : g.source # "operator_pause" =>
       \/ \E h \in reason'[s] : h.source = g.source /\ g.aliases \subseteq h.aliases
       \/ e.type = "recovery" /\ g.aliases \subseteq e.aliases
  /\ \A s \in Strategy : NamedBy(e, s) # {} =>
       \E h \in reason'[s] : h.source = GateSourceOf(e.type) /\ NamedBy(e, s) \subseteq h.aliases

\* Both kinds of pauses: the strategies that depend on some aliases stop for them.
Pauses(source, aliases) ==
  Regate([s \in Strategy |-> IF s \in Depending(aliases)
            THEN Reasoned(s, source, AliasesOf(s, aliases)) ELSE reason[s]])

LEMMA PausesApply ==
  ASSUME EffectsTypeOK, NEW e \in EffectRow, NEW aliases \in SUBSET Alias,
         NEW source \in {"selector_validation_failed", "probe_validation_stale"},
         Pauses(source, aliases), alert' \in Seq(AlertRow), source = GateSourceOf(e.type),
         \A s \in Strategy : NamedBy(e, s) \subseteq AliasesOf(s, aliases)
  PROVE  Applies(e)
<1> DEFINE new == [s \in Strategy |-> IF s \in Depending(aliases)
                     THEN Reasoned(s, source, AliasesOf(s, aliases)) ELSE reason[s]]
<1>0. reason \in [Strategy -> SUBSET Gate] /\ Regate(new)
    BY DEF EffectsTypeOK, Pauses
<1>1. ASSUME NEW s \in Strategy
      PROVE  /\ new[s] \in SUBSET Gate
             /\ \A g \in reason[s] : \E h \in new[s] :
                  h.source = g.source /\ g.aliases \subseteq h.aliases
             /\ NamedBy(e, s) # {} =>
                  \E h \in new[s] : h.source = source /\ NamedBy(e, s) \subseteq h.aliases
  <2>1. CASE s \in Depending(aliases)
    <3>1. AliasesOf(s, aliases) \in SUBSET Alias /\ AliasesOf(s, aliases) # {}
        BY <2>1 DEF AliasesOf, Depending
    <3>2. new[s] = Reasoned(s, source, AliasesOf(s, aliases))
        BY <2>1
    <3> HIDE DEF new
    <3>3. /\ new[s] \in SUBSET Gate
          /\ \A g \in reason[s] : \E h \in new[s] :
               h.source = g.source /\ g.aliases \subseteq h.aliases
          /\ \E h \in new[s] : h.source = source /\ AliasesOf(s, aliases) \subseteq h.aliases
        BY <3>1, <3>2, ReasonedJoins
    <3>4. NamedBy(e, s) \subseteq AliasesOf(s, aliases)
        OBVIOUS
    <3> QED
        BY <3>3, <3>4
  <2>2. CASE s \notin Depending(aliases)
    <3>1. new[s] = reason[s]
        BY <2>2
    <3>2. AliasesOf(s, aliases) = {}
        BY <2>2 DEF Depending
    <3> HIDE DEF new
    <3>3. NamedBy(e, s) = {}
        BY <3>2
    <3> QED
        BY <1>0, <3>1, <3>3
  <2> QED
      BY <2>1, <2>2
<1>2. new \in [Strategy -> SUBSET Gate]
  <2>1. \A s \in Strategy : new[s] \in SUBSET Gate
      BY <1>1
  <2>2. new = [s \in Strategy |-> new[s]]
      OBVIOUS
  <2> HIDE DEF new
  <2> QED
      BY <2>1, <2>2
<1> HIDE DEF new
<1>3. /\ reason' \in [Strategy -> SUBSET Gate] /\ revision' \in [Strategy -> Nat]
      /\ reason' = new /\ GatesGo
    BY <1>0, <1>2, RegateGoes
<1> QED
    BY <1>1, <1>3 DEF Applies

LEMMA FailureApplies ==
  ASSUME EffectsTypeOK, NEW e \in EffectRow, e.type = "selector_failure", ApplyFailure(e)
  PROVE  Applies(e)
<1>1. e.aliases \in SUBSET Alias
    BY DEF EffectRow
<1>2. Pauses("selector_validation_failed", e.aliases)
    BY DEF ApplyFailure, Pauses
<1>3. alert' \in Seq(AlertRow)
    BY <1>1, AlertedTyped DEF ApplyFailure, Depending
<1>4. \A s \in Strategy : NamedBy(e, s) \subseteq AliasesOf(s, e.aliases)
    BY DEF NamedBy, Stops, AliasesOf
<1> QED
    BY <1>1, <1>2, <1>3, <1>4, PausesApply DEF GateSourceOf

LEMMA StaleApplies ==
  ASSUME EffectsTypeOK, NEW e \in EffectRow, e.type = "probe_stale", ApplyStale
  PROVE  Applies(e)
<1>1. Pauses("probe_validation_stale", Alias)
    BY DEF ApplyStale, Pauses
<1>2. alert' \in Seq(AlertRow)
    BY AlertedTyped DEF ApplyStale, Depending
<1>3. \A s \in Strategy : NamedBy(e, s) \subseteq AliasesOf(s, Alias)
    BY DEF NamedBy, Stops, AliasesOf
<1> QED
    BY <1>1, <1>2, <1>3, PausesApply DEF GateSourceOf

LEMMA UnavailableApplies ==
  ASSUME EffectsTypeOK, NEW e \in EffectRow, e.type = "probe_unavailable", ApplyUnavailable
  PROVE  Applies(e)
<1>1. reason' = reason /\ revision' = revision
    BY DEF ApplyUnavailable
<1>2. alert' \in Seq(AlertRow)
    BY AlertedTyped DEF ApplyUnavailable, Depending
<1>3. \A s \in Strategy : NamedBy(e, s) = {}
    BY DEF NamedBy, Stops
<1>4. GatesGo
    BY <1>1 DEF GatesGo, EffectsTypeOK
<1>5. reason \in [Strategy -> SUBSET Gate] /\ revision \in [Strategy -> Nat]
    BY DEF EffectsTypeOK
<1> QED
    BY <1>1, <1>2, <1>3, <1>4, <1>5 DEF Applies

LEMMA RecoveryApplies ==
  ASSUME EffectsTypeOK, NEW e \in EffectRow, e.type = "recovery", ApplyRecovery(e)
  PROVE  Applies(e)
<1> DEFINE new == [s \in Strategy |-> {g \in reason[s] : ~Covered(g, e.aliases)}]
<1>0. /\ reason \in [Strategy -> SUBSET Gate] /\ Regate(new)
      /\ alert \in Seq(AlertRow) /\ Len(alert) \in Nat /\ DOMAIN alert = 1..Len(alert)
      /\ \A i \in DOMAIN alert : alert[i] \in AlertRow
    BY LenProperties, ElementOfSeq DEF EffectsTypeOK, ApplyRecovery
<1>1. new \in [Strategy -> SUBSET Gate]
    BY <1>0
<1>2. \A s \in Strategy : \A g \in reason[s] : g \in new[s] \/ g.aliases \subseteq e.aliases
    BY DEF Covered
<1> HIDE DEF new
<1>3. /\ reason' \in [Strategy -> SUBSET Gate] /\ revision' \in [Strategy -> Nat]
      /\ reason' = new /\ GatesGo
    BY <1>0, <1>1, RegateGoes
<1>4. alert' \in Seq(AlertRow)
  <2>1. \A i \in DOMAIN alert : [alert[i] EXCEPT !.status = "resolved"] \in AlertRow
      BY <1>0 DEF AlertRow
  <2>2. alert' \in [1..Len(alert) -> AlertRow]
      BY <1>0, <2>1 DEF ApplyRecovery
  <2> QED
      BY <1>0, <2>2, RowsAreSeq
<1>5. \A s \in Strategy : NamedBy(e, s) = {}
    BY DEF NamedBy, Stops
<1> QED
    BY <1>2, <1>3, <1>4, <1>5 DEF Applies

LEMMA TouchedTyped ==
  ASSUME EffectsTypeOK, NEW e \in EffectRow
  PROVE  Touched(e) \in SUBSET Strategy /\ Stops(e) \in SUBSET (Alias \X Strategy)
<1>1. deps \in SUBSET (Alias \X Strategy)
    BY EffectsAssumption DEF EffectsTypeOK
<1>2. Touched(e) \in SUBSET Strategy
    BY DEF Touched, Depending
<1>3. Stops(e) \in SUBSET (Alias \X Strategy)
    BY <1>1 DEF Stops
<1> QED
    BY <1>2, <1>3

\* One effect is applied, after all those before it.
LEMMA EffectApplied ==
  ASSUME EffectsInv, NEW i \in DOMAIN effect, ApplyEffect(i),
         \A k \in DOMAIN effect : k < i => AppliedEffect(k)
  PROVE  /\ reason' \in [Strategy -> SUBSET Gate] /\ revision' \in [Strategy -> Nat]
         /\ alert' \in Seq(AlertRow) /\ effect' \in Seq(EffectRow)
         /\ effect'[i].strategies \in SUBSET Strategy
         /\ GatesGo /\ EffectsGo /\ PausesGo
<1> DEFINE e == effect[i]
           row == [e EXCEPT !.status = "store_applied", !.strategies = Touched(e), !.stops = Stops(e)]
<1>0. /\ EffectsTypeOK /\ effect \in Seq(EffectRow)
      /\ Len(effect) \in Nat /\ DOMAIN effect = 1..Len(effect)
      /\ \A k \in DOMAIN effect : effect[k] \in EffectRow /\ k \in Nat
    BY EffectsAreNumbered DEF EffectsInv, EffectsTypeOK
<1>1. CASE e.status # "pending"
  <2>1. UNCHANGED <<reason, revision, alert, effect>>
      BY <1>1 DEF ApplyEffect
  <2>2. GatesGo /\ EffectsGo /\ PausesGo
      BY <1>0, <2>1, StoreRests
  <2> QED
      BY <1>0, <2>1, <2>2 DEF EffectsTypeOK, EffectRow
<1>2. CASE e.status = "pending"
  <2>0. e \in EffectRow /\ e.type \in EffectTypes
      BY <1>0 DEF EffectRow
  <2>1. Applies(e)
    <3>1. CASE e.type = "selector_failure"
        BY <1>0, <1>2, <2>0, <3>1, FailureApplies DEF ApplyEffect
    <3>2. CASE e.type = "probe_stale"
        BY <1>0, <1>2, <2>0, <3>2, StaleApplies DEF ApplyEffect
    <3>3. CASE e.type = "probe_unavailable"
        BY <1>0, <1>2, <2>0, <3>3, UnavailableApplies DEF ApplyEffect
    <3>4. CASE e.type = "recovery"
        BY <1>0, <1>2, <2>0, <3>4, RecoveryApplies DEF ApplyEffect
    <3> QED
        BY <2>0, <3>1, <3>2, <3>3, <3>4 DEF EffectTypes
  <2>2. effect' = [effect EXCEPT ![i] = row]
      BY <1>0, <1>2 DEF ApplyEffect
  <2>3. Touched(e) \in SUBSET Strategy /\ Stops(e) \in SUBSET (Alias \X Strategy)
      BY <1>0, <2>0, TouchedTyped
  <2>4. /\ row \in EffectRow /\ row.status = "store_applied" /\ row.strategies = Touched(e)
        /\ row.stops = Stops(e) /\ row.type = e.type /\ row.aliases = e.aliases
      BY <2>0, <2>3 DEF EffectRow
  <2> HIDE DEF row
  <2>5. effect' \in Seq(EffectRow)
      BY <1>0, <2>2, <2>4, ExceptSeq
  <2>6. /\ DOMAIN effect' = DOMAIN effect /\ effect'[i] = row
        /\ \A k \in DOMAIN effect \ {i} : effect'[k] = effect[k]
      BY <1>0, <2>2
  <2>7. /\ Applied(i) /\ \A k \in DOMAIN effect : Applied(k) => k = i
      BY <1>2, <2>4, <2>6 DEF Applied, AppliedEffect
  <2>8. EffectsGo
      BY <1>2, <2>4, <2>6 DEF EffectsGo, AppliedEffect
  <2>9. ASSUME NEW s \in Strategy PROVE Stopped(i, s)
    <3>1. StoppedFor(i, s)' = NamedBy(e, s)
        BY <2>4, <2>6 DEF StoppedFor, NamedBy
    <3> QED
        BY <2>1, <3>1 DEF Stopped, Applies
  <2>10. ASSUME NEW s \in Strategy, NEW g \in reason[s], g.source # "operator_pause"
         PROVE  GateKept(s, g)
      BY <2>1, <2>7, <2>10 DEF Applies, GateKept
  <2>11. PausesGo
      BY <2>7, <2>9, <2>10 DEF PausesGo
  <2> QED
      BY <2>1, <2>3, <2>4, <2>5, <2>6, <2>8, <2>11 DEF Applies
<1> QED
    BY <1>1, <1>2

LEMMA ApplyGoes ==
  ASSUME EffectsInv, NEW t \in Tick, Apply(t)
  PROVE  EffectsStep
<1>0. /\ EffectsTypeOK /\ tick[t] \in TickState /\ OneQueued(t)
      /\ UNCHANGED <<deps, projection, reading>>
    BY DEF EffectsInv, EffectsTypeOK, TicksFit, Apply
<1>1. CASE tick[t].todo = {}
  <2>1. DrainReturns(t) /\ UNCHANGED <<reason, revision, alert, effect>>
      BY <1>1 DEF Apply
  <2>2. Settles(t) /\ probeRun' \in ProbeRuns
      BY <2>1, DrainReturnsSettles
  <2>3. ReadsNoMore(t) /\ UNCHANGED <<gates, projection, effect, alert>>
      BY <1>0, <2>1 DEF ReadsNoMore, gates
  <2> QED
      BY <2>2, <2>3, SettledStep
<1>2. CASE tick[t].todo # {}
  <2> DEFINE i == OldestOf(t)
             left == effect'[i].strategies
             new == [tick[t] EXCEPT !.pc = IF left = {} THEN "complete" ELSE "project",
                                    !.left = left]
  <2>1. /\ i \in DOMAIN effect /\ \A k \in DOMAIN effect : k < i => AppliedEffect(k)
      BY <1>2, OldestIsPending
  <2>2. /\ ApplyEffect(i) /\ UNCHANGED probeRun
        /\ tick' = [tick EXCEPT ![t].pc = IF left = {} THEN "complete" ELSE "project",
                                ![t].left = left]
      BY <1>2 DEF Apply
  <2>3. Becomes(t, new)
      BY <1>0, <2>2 DEF Becomes, EffectsTypeOK
  <2> HIDE DEF i
  <2>4. /\ reason' \in [Strategy -> SUBSET Gate] /\ revision' \in [Strategy -> Nat]
        /\ alert' \in Seq(AlertRow) /\ effect' \in Seq(EffectRow)
        /\ left \in SUBSET Strategy
        /\ GatesGo /\ EffectsGo /\ PausesGo
      BY <2>1, <2>2, EffectApplied
  <2> HIDE DEF left
  <2>5. /\ new \in TickState /\ new.todo = tick[t].todo /\ new.queue = tick[t].queue
        /\ new.left = left /\ new.pc = IF left = {} THEN "complete" ELSE "project"
      BY <1>0, <2>4 DEF TickState
  <2> HIDE DEF new
  <2>6. /\ tick' \in [Tick -> TickState] /\ tick'[t] = new
        /\ \A u \in Tick \ {t} : tick'[u] = tick[u]
      BY <1>0, <2>3, <2>5, BecomesTyped
  <2>7. EffectsTypeOK'
      BY <1>0, <2>2, <2>4, <2>6 DEF EffectsTypeOK
  <2>8. ReadingsGo /\ ProjectionsGo
      BY <1>0, ReadingsRest
  <2>9. InTurn(t)'
      BY <2>4, <2>5, <2>6, InTurnKept
  <2>10. AtItsWork(t)' /\ OneQueued(t)'
      BY <1>0, <1>2, <2>5, <2>6 DEF AtItsWork, OneQueued
  <2>11. TicksFit'
      BY <1>0, <2>4, <2>6, <2>9, <2>10, OneFits DEF Fits, OthersRest
  <2> QED
      BY <2>4, <2>7, <2>8, <2>11 DEF EffectsStep
<1> QED
    BY <1>1, <1>2

-----------------------------------------------------------------------------
LEMMA EffectsStart ==
  ASSUME EffInit
  PROVE  EffectsInv
<1>1. effect = <<>> /\ alert = <<>> /\ DOMAIN effect = {}
    BY DEF EffInit
<1>2. EffectsTypeOK
    BY <1>1, NothingIsTyped, IdleIsTyped, EmptySeq DEF EffInit, EffectsTypeOK
<1>3. TicksFit
    BY DEF EffInit, TicksFit, InTurn, AtItsWork, OneQueued, Idle
<1>4. ReadingsAgree /\ ProjectionsAgree
    BY NothingIsTyped DEF EffInit, ReadingsAgree, ProjectionsAgree, Agrees
<1>5. EffectsInOrder /\ NoPauseLost
    BY <1>1 DEF EffectsInOrder, NoPauseLost
<1> QED
    BY <1>2, <1>3, <1>4, <1>5 DEF EffectsInv

LEMMA EffectsStutter ==
  ASSUME EffectsInv, UNCHANGED effVars
  PROVE  EffectsStep
<1>0. EffectsTypeOK
    BY DEF EffectsInv
<1>1. GatesGo
    BY <1>0, StoreRests DEF effVars
<1>2. ReadingsGo /\ ProjectionsGo
    BY ReadingsRest DEF effVars
<1> QED
    BY <1>0, <1>1, <1>2, OutsideStep DEF effVars, EffectsTypeOK

LEMMA EffectsNext ==
  ASSUME EffectsInv, [EffNext]_effVars
  PROVE  EffectsInv'
<1>1. ASSUME NEW t \in Tick, TickStep(t) PROVE EffectsStep
    BY <1>1, ReadPendingGoes, ApplyGoes, ProjectGoes, CompleteGoes, FinishRunGoes, FailRunGoes
       DEF TickStep
<1>2. ASSUME NEW t \in Tick, NEW aliases \in SUBSET Alias, ProbeFails(t, "selector_failure", aliases)
      PROVE  EffectsStep
    BY <1>2, ProbeFailsGoes DEF EffectTypes
<1>3. ASSUME NEW t \in Tick, NEW type \in {"probe_unavailable", "probe_stale"},
             ProbeFails(t, type, {})
      PROVE  EffectsStep
    BY <1>3, ProbeFailsGoes DEF EffectTypes
<1>4. ASSUME EffNext PROVE EffectsStep
    BY <1>1, <1>2, <1>3, <1>4, BeginTickGoes, NotDueGoes, ProbeGoes, ProjectFailsGoes,
       StepRaisesGoes, DiesGoes, CheckGoes, SetManualGateGoes, RebuildDependenciesGoes,
       TransitionAlertGoes, WriteGateGoes, GateUnwrittenGoes, ProjectionsLostGoes DEF EffNext
<1> QED
    BY <1>4, EffectsStutter, EffectsInvGoes

\* Gates are stopped and released as the runs found, whatever ticks, operators and readers do
\* and whatever fails between them; what Redis shows is never ahead of the store
\* (apply_probe_effect, _upsert_probe_gate_reason, GATE_PROJECT_LUA).
THEOREM EffectsHold == EffSpec => []EffectsSafe
<1>1. EffInit => EffectsInv
    BY EffectsStart
<1>2. EffectsInv /\ [EffNext]_effVars => EffectsInv'
    BY EffectsNext
<1>3. EffectsInv => EffectsSafe
    BY DEF EffectsInv, EffectsSafe
<1> QED
    BY <1>1, <1>2, <1>3, PTL DEF EffSpec
===============================================================================
