---------------------------- MODULE WebhookDelivery ----------------------------
(***************************************************************************)
(* The webhook outbox of the selector probe (selector_probe/webhook.py,    *)
(* store.py).  Every change of an alert queues a row.  Each tick, before   *)
(* it asks for the probe's lease, makes a delivery pass, so that passes    *)
(* overlap; a claim is a lease reckoned from the beginning of the pass.    *)
(***************************************************************************)
EXTENDS Naturals, FiniteSets, FiniteSetsExt

CONSTANTS
  Hook,            \* ids of webhook_outbox rows, numbers in the order of their insertion
  Dispatcher,      \* the processes that make delivery passes
  AttemptLimit,    \* claims of a row, 5 in the code
  MaxDispatchFaults \* bound on requests that fail and processes that die

ASSUME DeliveryAssumption ==
  Hook \in SUBSET Nat /\ Hook # {} /\ IsFiniteSet(Dispatcher) /\ AttemptLimit \in Nat

VARIABLES
  hook,       \* webhook_outbox
  dispatcher, \* what each pass is doing
  received,   \* history: how often the receiver got each row
  sends,      \* history: how often each row was sent
  dispatchFaults

hookVars == <<hook, dispatcher, received, sends, dispatchFaults>>

HookRow == [status   : {"none", "pending", "processing", "completed", "failed"},
            attempts : 0..AttemptLimit,     \* attempt_count, and claim_generation with it
            due      : BOOLEAN]             \* next_attempt_at, or lease_until, has passed
Pass == [pc : {"idle", "send", "sent", "refused"}, hook : Hook, generation : 0..AttemptLimit]

HooksTypeOK ==
  /\ hook \in [Hook -> HookRow]
  /\ dispatcher \in [Dispatcher -> Pass]
  /\ received \in [Hook -> Nat] /\ sends \in [Hook -> Nat]

NoPass == [pc |-> "idle", hook |-> Min(Hook), generation |-> 0]

HookInit ==
  /\ hook = [h \in Hook |-> [status |-> "none", attempts |-> 0, due |-> FALSE]]
  /\ dispatcher = [d \in Dispatcher |-> NoPass]
  /\ received = [h \in Hook |-> 0] /\ sends = [h \in Hook |-> 0]
  /\ dispatchFaults = 0

DispatchFault == dispatchFaults < MaxDispatchFaults /\ dispatchFaults' = dispatchFaults + 1

\* open_or_update_alert, transition_alert and the effects of probe runs insert a row.
AlertChanges(h) ==
  /\ hook[h].status = "none" /\ \A k \in Hook : k < h => hook[k].status # "none"
  /\ hook' = [hook EXCEPT ![h] = [status |-> "pending", attempts |-> 0, due |-> TRUE]]
  /\ UNCHANGED <<dispatcher, received, sends, dispatchFaults>>

\* A retry becomes due, or a claim runs out, at the earliest 60 seconds after the
\* beginning of the pass: its holder may still be waiting for the receiver.
HookDue(h) ==
  /\ hook[h].status \in {"pending", "processing"} /\ ~hook[h].due
  /\ hook' = [hook EXCEPT ![h].due = TRUE]
  /\ UNCHANGED <<dispatcher, received, sends, dispatchFaults>>

\* A row with no attempt left has failed, claimed or not.
Swept == [h \in Hook |-> IF hook[h].status \in {"pending", "processing"}
                            /\ hook[h].attempts >= AttemptLimit
                         THEN [hook[h] EXCEPT !.status = "failed"] ELSE hook[h]]

\* Fault: claims that ran out are not taken again.
OnlyPendingDue == {h \in Hook : Swept[h].status = "pending" /\ Swept[h].due}

Deliverable == {h \in Hook : Swept[h].status \in {"pending", "processing"} /\ Swept[h].due}

\* Fault: a claim that replaces a lapsed one is not counted as an attempt.
TakenUncounted(h) == [Swept[h] EXCEPT !.status = "processing", !.due = FALSE,
                        !.attempts = IF Swept[h].status = "pending" THEN @ + 1 ELSE @]

Taken(h) == [Swept[h] EXCEPT !.status = "processing", !.due = FALSE, !.attempts = @ + 1]

\* claim_webhook_delivery: sweeps, and claims the oldest row that is due
ClaimDelivery(d) ==
  /\ dispatcher[d].pc = "idle"
  /\ IF Deliverable = {} THEN hook' = Swept /\ UNCHANGED dispatcher
     ELSE LET h == Min(Deliverable) IN
       /\ hook' = [Swept EXCEPT ![h] = Taken(h)]
       /\ dispatcher' = [dispatcher EXCEPT ![d] =
                           [pc |-> "send", hook |-> h, generation |-> Taken(h).attempts]]
  /\ UNCHANGED <<received, sends, dispatchFaults>>

\* send: a request that fails may have been received all the same.
Send(d, outcome, arrives) ==
  /\ dispatcher[d].pc = "send"
  /\ outcome = "sent" => arrives
  /\ IF outcome = "sent" THEN UNCHANGED dispatchFaults ELSE DispatchFault
  /\ sends' = [sends EXCEPT ![dispatcher[d].hook] = @ + 1]
  /\ received' = [received EXCEPT ![dispatcher[d].hook] = @ + (IF arrives THEN 1 ELSE 0)]
  /\ dispatcher' = [dispatcher EXCEPT ![d].pc = outcome]
  /\ UNCHANGED hook

\* Fault: the claim is not looked at.
ClaimOfAnyone(d) == hook[dispatcher[d].hook].status # "none"

\* The row is still in the claim that the pass took.
ClaimIsHeld(d) == /\ hook[dispatcher[d].hook].status = "processing"
                  /\ hook[dispatcher[d].hook].attempts = dispatcher[d].generation

\* Fault: an attempt too few.
RetriedLess(d) == [hook[dispatcher[d].hook] EXCEPT !.due = FALSE,
  !.status = IF dispatcher[d].generation + 1 < AttemptLimit THEN "pending" ELSE "failed"]

Retried(d) == [hook[dispatcher[d].hook] EXCEPT !.due = FALSE,
                 !.status = IF dispatcher[d].generation < AttemptLimit THEN "pending" ELSE "failed"]

\* complete_webhook_delivery and fail_webhook_delivery; a pass that lost its claim goes on.
SettleDelivery(d) ==
  /\ dispatcher[d].pc \in {"sent", "refused"}
  /\ hook' = IF ~ClaimIsHeld(d) THEN hook
             ELSE [hook EXCEPT ![dispatcher[d].hook] =
                     IF dispatcher[d].pc = "sent"
                     THEN [@ EXCEPT !.status = "completed", !.due = FALSE] ELSE Retried(d)]
  /\ dispatcher' = [dispatcher EXCEPT ![d] = NoPass]
  /\ UNCHANGED <<received, sends, dispatchFaults>>

DispatcherDies(d) ==
  /\ dispatcher[d].pc # "idle" /\ DispatchFault
  /\ dispatcher' = [dispatcher EXCEPT ![d] = NoPass]
  /\ UNCHANGED <<hook, received, sends>>

DispatchStep(d) == ClaimDelivery(d) \/ Send(d, "sent", TRUE) \/ SettleDelivery(d)

HookNext ==
  \/ \E h \in Hook : AlertChanges(h) \/ HookDue(h)
  \/ \E d \in Dispatcher : DispatchStep(d) \/ DispatcherDies(d)
                           \/ \E arrives \in BOOLEAN : Send(d, "refused", arrives)

HookSpec == HookInit /\ [][HookNext]_hookVars

\* Passes are made at every tick, to their end, and time goes on.
HookFairness == /\ \A d \in Dispatcher : WF_hookVars(DispatchStep(d))
                /\ \A h \in Hook : WF_hookVars(HookDue(h))

-------------------------------------------------------------------------------
(* Properties *)

\* A row is sent five times at most, whoever claims it and whoever dies.
SendsBounded == \A h \in Hook : sends[h] <= AttemptLimit

\* A row called completed was received, and one that was never received is not called
\* failed before all its attempts were taken.
SettledForAReason ==
  \A h \in Hook : /\ hook[h].status = "completed" => received[h] > 0
                  /\ hook[h].status = "failed" => hook[h].attempts = AttemptLimit

\* What is settled stays settled: a pass that comes too late neither queues a delivered
\* row again nor calls it failed.
SettledStays ==
  [][\A h \in Hook : hook[h].status \in {"completed", "failed"} => hook'[h] = hook[h]]_hookVars

\* Every change of an alert is delivered or given up.
DeliveriesSettle == \A h \in Hook : hook[h].status = "pending"
                                      ~> hook[h].status \in {"completed", "failed"}

\* An alert is sent a few times at most, its row is settled for a reason, once, and in the
\* end (claim_webhook_delivery and its two settlements).
DeliveriesSettleOnce == /\ [](HooksTypeOK /\ SendsBounded /\ SettledForAReason)
                        /\ SettledStays
                        /\ DeliveriesSettle
================================================================================
