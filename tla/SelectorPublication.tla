-------------------------- MODULE SelectorPublication --------------------------
(***************************************************************************)
(* Publication of validated selector bundles (selector_probe/registry.py,  *)
(* the versions and publication_outbox of store.py, and the probe worker   *)
(* around them: worker.py, probe.py, managed_runtime.py, scheduler.py), of *)
(* one site and environment.                                               *)
(*                                                                         *)
(* A probe attempt holds a Redis lease, stores a version together with an  *)
(* outbox event in SQLite, and reconciles: it claims the oldest open event,*)
(* publishes it in Redis with one Lua script and acknowledges it in        *)
(* SQLite.  SQLite and Redis are different stores, every step can be the   *)
(* last one of a process, and a process that lost its lease may go on.     *)
(***************************************************************************)
EXTENDS Naturals, FiniteSets, FiniteSetsExt

CONSTANTS
  Attempt,      \* the tokens of probe attempts (owner_id_factory)
  NoAttempt,
  FormerAttempt,   \* any token of an earlier attempt
  MaxVersion,   \* bound on the versions stored
  MaxFlush,     \* bound on the losses of Redis' data
  MaxFaults     \* bound on crashes, timeouts and lost requests

ASSUME PublicationAssumption ==
  /\ NoAttempt \notin Attempt /\ FormerAttempt \notin Attempt \cup {NoAttempt}
  /\ MaxVersion \in Nat /\ MaxFlush \in Nat /\ MaxFaults \in Nat

VARIABLES
  version,   \* selector_versions, numbered in the order they are stored
  outbox,    \* the publication_outbox row of each version
  active,    \* Redis: the active version, 0 when the keys are gone
  lease,     \* Redis: the owner of the probe lease
  run,       \* the attempts whose probe_runs row is running under their token
  worker,    \* what each attempt is doing
  live,      \* history: the versions that have been active
  contested, \* history: the versions whose claim ran out in the hands of its claimer, that
             \* Redis lost between their publication and its acknowledgement, or that were
             \* replaced while a pass was about to restore them, and Redis lost its data again
  flushes,   \* history: how often Redis lost its data
  pubFaults  \* history: how many bounded faults happened

pubVars == <<version, outbox, active, lease, run, worker, live, contested, flushes,
             pubFaults>>

-------------------------------------------------------------------------------
Version == 1..MaxVersion

VersionStatus == {"absent", "validated", "published", "superseded",
                  "publication_failed", "cancelled"}
OutboxStatus  == {"absent", "pending", "processing", "completed", "conflict", "cancelled"}

VersionRow == [status : VersionStatus,
               base   : Nat,                        \* base_version_id, 0 for none
               owner  : Attempt \cup {NoAttempt, FormerAttempt}]   \* lease_owner
OutboxRow  == [status : OutboxStatus,
               gen    : Nat,                        \* claim_generation
               ready  : BOOLEAN]   \* pending: due; processing: lease_until passed

Reply == {"published", "idempotent", "conflict", "lease_lost", "unreachable"}

Worker == [pc    : {"idle", "claim", "empty", "repopulate", "look", "republish",
                    "compare", "publish", "settle", "run", "base", "store", "owned",
                    "check", "finish"},
           own   : Nat,      \* the version this attempt has stored, or 0
           event : Nat,      \* the version of the event it claimed
           gen   : Nat,      \* the generation of that claim
           base  : Nat,      \* the active version it read
           reply : Reply]

PublicationTypeOK ==
  /\ version \in [Version -> VersionRow]
  /\ outbox \in [Version -> OutboxRow]
  /\ active \in {0} \cup Version
  /\ lease \in Attempt \cup {NoAttempt}
  /\ run \subseteq Attempt
  /\ worker \in [Attempt -> Worker]
  /\ live \subseteq Version /\ contested \subseteq Version
  /\ flushes \in 0..MaxFlush /\ pubFaults \in 0..MaxFaults

Resting == [pc |-> "idle", own |-> 0, event |-> 0, gen |-> 0, base |-> 0,
         reply |-> "published"]

PubInit ==
  /\ version = [v \in Version |-> [status |-> "absent", base |-> 0, owner |-> NoAttempt]]
  /\ outbox = [v \in Version |-> [status |-> "absent", gen |-> 0, ready |-> FALSE]]
  /\ active = 0 /\ lease = NoAttempt /\ run = {}
  /\ worker = [a \in Attempt |-> Resting]
  /\ live = {} /\ contested = {} /\ flushes = 0 /\ pubFaults = 0

Open == {v \in Version : outbox[v].status \in {"pending", "processing"}}

PubFault == pubFaults < MaxFaults /\ pubFaults' = pubFaults + 1

MoveTo(a, pc) == worker' = [worker EXCEPT ![a].pc = pc]

\* A reconciliation pass returns: to the tick's beginning, or to its publication.
Return(a) == worker' = [worker EXCEPT ![a] =
               [Resting EXCEPT !.own = worker[a].own,
                            !.pc = IF worker[a].own = 0 THEN "run" ELSE "check"]]

\* The tick ends.
Leave(a) == worker' = [worker EXCEPT ![a] = [Resting EXCEPT !.pc = "finish"]]

-------------------------------------------------------------------------------
(* The tick of a probe attempt *)

\* RedisLease.acquire, SET NX with a fresh token: no stored version has it.
Acquire(a) ==
  /\ worker[a].pc = "idle" /\ lease = NoAttempt
  /\ lease' = a
  /\ version' = [v \in Version |-> IF version[v].owner = a
                   THEN [version[v] EXCEPT !.owner = FormerAttempt] ELSE version[v]]
  /\ worker' = [worker EXCEPT ![a] = [Resting EXCEPT !.pc = "claim"]]
  /\ UNCHANGED <<outbox, active, run, live, contested, flushes, pubFaults>>

\* Fault: only a pending event can be claimed.
ClaimsPending(v) == outbox[v].status = "pending" /\ outbox[v].ready

\* An event is due, or its claim expired.
Claimable(v) == outbox[v].ready

\* claim_outbox_event: the oldest open event, if it can be claimed.
Claim(a) ==
  /\ worker[a].pc = "claim"
  /\ IF Open # {} /\ Claimable(Min(Open))
     THEN LET v == Min(Open) IN
          /\ outbox' = [outbox EXCEPT ![v] = [status |-> "processing", gen |-> @.gen + 1,
                                              ready |-> FALSE]]
          /\ worker' = [worker EXCEPT ![a].pc = "look", ![a].event = v,
                                      ![a].gen = outbox[v].gen + 1]
     ELSE UNCHANGED outbox /\ MoveTo(a, "empty")
  /\ UNCHANGED <<version, active, lease, run, live, contested, flushes, pubFaults>>

Published == {v \in Version : version[v].status = "published"}

\* last_published_version, 0 when there is none
LastPublished == IF Published = {} THEN 0 ELSE Max(Published)

\* Fault: a pass without an event does not look at the registry.
EmptyUnseen(a) ==
  /\ worker[a].pc = "empty" /\ Return(a)
  /\ UNCHANGED <<version, outbox, active, lease, run, live, contested, flushes, pubFaults>>

\* reconcile_registry without an event: an empty registry gets the last version.
Empty(a) ==
  /\ worker[a].pc = "empty"
  /\ IF active # 0 \/ Published = {} THEN Return(a)
     ELSE worker' = [worker EXCEPT ![a].pc = "repopulate", ![a].event = LastPublished]
  /\ UNCHANGED <<version, outbox, active, lease, run, live, contested, flushes, pubFaults>>

\* Fault: the expected version is not compared.
LuaReplyBlind(v, e, o) ==
  IF o # NoAttempt /\ lease # o THEN "lease_lost"
  ELSE IF active = v THEN "idempotent"
  ELSE "published"

\* What PUBLISH_LUA answers to version v, expected to replace e, of owner o.
LuaReply(v, e, o) ==
  IF o # NoAttempt /\ lease # o THEN "lease_lost"
  ELSE IF active = v THEN "idempotent"
  ELSE IF active # e THEN "conflict"
  ELSE "published"

\* PUBLISH_LUA, which is atomic, with the answer `reply`.
Lua(v, reply) ==
  /\ active' = IF reply = "published" THEN v ELSE active
  /\ live' = IF reply = "published" THEN live \cup {v} ELSE live

\* A conflict is not caught here and ends the tick.
Repopulate(a) ==
  /\ worker[a].pc = "repopulate"
  /\ LET v == worker[a].event
         r == LuaReply(v, 0, NoAttempt)
     IN  /\ Lua(v, r)
         /\ IF r = "conflict" THEN Leave(a) ELSE Return(a)
  /\ UNCHANGED <<version, outbox, lease, run, contested, flushes, pubFaults>>

\* The registry is compared with the event: published already, by a process that
\* died before it could acknowledge, or still to be published.
Compared(a) ==
  worker' = [worker EXCEPT ![a].pc = IF active = worker[a].event THEN "settle" ELSE "publish"]

\* If the registry is empty, the version the event builds on is restored first.
Inspect(a) ==
  /\ worker[a].pc = "look"
  /\ LET base == version[worker[a].event].base
     IN  IF active = 0 /\ base # 0 /\ LastPublished = base
         THEN worker' = [worker EXCEPT ![a].pc = "republish", ![a].base = base]
         ELSE Compared(a)
  /\ UNCHANGED <<version, outbox, active, lease, run, live, contested, flushes, pubFaults>>

Republish(a) ==
  /\ worker[a].pc = "republish"
  /\ LET r == LuaReply(worker[a].base, 0, NoAttempt)
     IN  /\ Lua(worker[a].base, r)
         /\ worker' = [worker EXCEPT ![a].pc = IF r = "conflict" THEN "settle" ELSE "compare",
                                     ![a].base = 0,
                                     ![a].reply = IF r = "conflict" THEN r ELSE @]
  /\ UNCHANGED <<version, outbox, lease, run, contested, flushes, pubFaults>>

Compare(a) ==
  /\ worker[a].pc = "compare" /\ Compared(a)
  /\ UNCHANGED <<version, outbox, active, lease, run, live, contested, flushes, pubFaults>>

\* registry.publish under the lease of the run that stored the version; the answer
\* may be lost on its way back.
PublishEvent(a) ==
  /\ worker[a].pc = "publish"
  /\ LET v == worker[a].event
         r == LuaReply(v, version[v].base, version[v].owner)
     IN  /\ Lua(v, r)
         /\ \/ /\ worker' = [worker EXCEPT ![a].pc = "settle", ![a].reply = r]
               /\ UNCHANGED pubFaults
            \/ /\ PubFault
               /\ worker' = [worker EXCEPT ![a].pc = "settle", ![a].reply = "unreachable"]
  /\ UNCHANGED <<version, outbox, lease, run, contested, flushes>>

\* Redis does not answer a step of the pass: the event is retried, or, where there
\* is none or the exception is not caught, the tick ends.
RegistryFails(a) ==
  /\ PubFault
  /\ \/ /\ worker[a].pc \in {"look", "republish", "compare", "publish"}
        /\ worker' = [worker EXCEPT ![a].pc = "settle", ![a].reply = "unreachable"]
     \/ worker[a].pc \in {"empty", "repopulate", "base"} /\ Leave(a)
  /\ UNCHANGED <<version, outbox, active, lease, run, live, contested, flushes>>

\* The condition of ack, cancel and fail: the claim is still this one.
ClaimHeld(a) == /\ outbox[worker[a].event].status = "processing"
                /\ outbox[worker[a].event].gen = worker[a].gen

\* Fault: the version that was published before keeps its status.
AcknowledgedAlone(v) == [version EXCEPT ![v].status = "published"]

\* ack_outbox_event: the version is the published one.
Acknowledged(v) == [w \in Version |->
  IF w = v THEN [version[w] EXCEPT !.status = "published"]
  ELSE IF version[w].status = "published" THEN [version[w] EXCEPT !.status = "superseded"]
  ELSE version[w]]

\* Fault: an event whose publication failed is acknowledged.
SettledBlindly(v, reply) ==
  CASE reply \in {"published", "idempotent", "unreachable"} ->
         version' = Acknowledged(v) /\ outbox' = [outbox EXCEPT ![v].status = "completed"]
    [] reply = "conflict" ->
         /\ version' = [version EXCEPT ![v].status = "publication_failed"]
         /\ outbox' = [outbox EXCEPT ![v].status = "conflict"]
    [] OTHER ->
         /\ version' = [version EXCEPT ![v].status = "cancelled"]
         /\ outbox' = [outbox EXCEPT ![v].status = "cancelled"]

\* ack_outbox_event, cancel_outbox_event and fail_outbox_event
SettledAs(v, reply) ==
  CASE reply \in {"published", "idempotent"} ->
         version' = Acknowledged(v) /\ outbox' = [outbox EXCEPT ![v].status = "completed"]
    [] reply = "conflict" ->
         /\ version' = [version EXCEPT ![v].status = "publication_failed"]
         /\ outbox' = [outbox EXCEPT ![v].status = "conflict"]
    [] reply = "lease_lost" ->
         /\ version' = IF version[v].status = "validated"
                       THEN [version EXCEPT ![v].status = "cancelled"] ELSE version
         /\ outbox' = [outbox EXCEPT ![v].status = "cancelled"]
    [] reply = "unreachable" ->
         /\ outbox' = [outbox EXCEPT ![v].status = "pending", ![v].ready = FALSE]
         /\ UNCHANGED version

Settle(a) ==
  /\ worker[a].pc = "settle"
  /\ IF ClaimHeld(a) THEN SettledAs(worker[a].event, worker[a].reply)
     ELSE UNCHANGED <<version, outbox>>
  /\ Return(a)
  /\ UNCHANGED <<active, lease, run, live, contested, flushes, pubFaults>>

\* start_run, if a slot is due: it takes over the row of the same slot, whose
\* attempt did not finish it.  An attempt that lost its lease is not stopped here.
BeginRun(a) ==
  /\ worker[a].pc = "run"
  /\ \/ /\ MoveTo(a, "base")
        /\ \E old \in SUBSET run : Cardinality(old) <= 1 /\ run' = (run \ old) \cup {a}
     \/ Leave(a) /\ UNCHANGED run            \* not due
  /\ UNCHANGED <<version, outbox, active, lease, live, contested, flushes, pubFaults>>

\* store_and_publish reads the version the new one shall replace, or the
\* validation failed and there is nothing to publish.
ReadBase(a) ==
  /\ worker[a].pc = "base"
  /\ \/ /\ lease = a
        /\ worker' = [worker EXCEPT ![a].pc = "store", ![a].base = active]
     \/ Leave(a)
  /\ UNCHANGED <<version, outbox, active, lease, run, live, contested, flushes, pubFaults>>

\* store_validated_version: the run must still be this attempt's.
StoreVersion(a) ==
  /\ worker[a].pc = "store"
  /\ LET free == {v \in Version : version[v].status = "absent"}
     IN  IF a \in run /\ free # {}
         THEN LET v == Min(free) IN
              /\ version' = [version EXCEPT ![v] = [status |-> "validated", owner |-> a,
                                                    base |-> worker[a].base]]
              /\ outbox' = [outbox EXCEPT ![v] = [status |-> "pending", gen |-> 0,
                                                  ready |-> TRUE]]
              /\ worker' = [worker EXCEPT ![a].pc = "owned", ![a].own = v,
                                          ![a].base = 0]
         ELSE Leave(a) /\ UNCHANGED <<version, outbox>>
  /\ UNCHANGED <<active, lease, run, live, contested, flushes, pubFaults>>

\* _LeaseHeartbeat.require_owned(renew=True), before the version is published.
RequireOwned(a) ==
  /\ worker[a].pc = "owned"
  /\ IF lease = a THEN MoveTo(a, "claim") ELSE Leave(a)
  /\ UNCHANGED <<version, outbox, active, lease, run, live, contested, flushes, pubFaults>>

\* The end of store_and_publish; if gates wait for a recovery the tick reconciles
\* until the version is active (_reconcile_until).
CheckPublished(a) ==
  /\ worker[a].pc = "check"
  /\ \/ Leave(a)
     \/ /\ version[worker[a].own].status = "published" /\ active # worker[a].own /\ lease = a
        /\ MoveTo(a, "claim")
  /\ UNCHANGED <<version, outbox, active, lease, run, live, contested, flushes, pubFaults>>

\* finish_run and RedisLease.release
Finish(a) ==
  /\ worker[a].pc = "finish"
  /\ worker' = [worker EXCEPT ![a] = Resting]
  /\ lease' = IF lease = a THEN NoAttempt ELSE lease
  /\ run' = run \ {a}
  /\ UNCHANGED <<version, outbox, active, live, contested, flushes, pubFaults>>

-------------------------------------------------------------------------------
(* Failures and the passing of time *)

Die(a) ==
  /\ worker[a].pc # "idle" /\ PubFault
  /\ worker' = [worker EXCEPT ![a] = Resting]
  /\ run' = run \ {a}                       \* nobody has the row's token any more
  /\ UNCHANGED <<version, outbox, active, lease, live, contested, flushes>>

\* The heartbeat of a living attempt renews the lease, unless it is suspended.
LeaseExpires ==
  /\ lease # NoAttempt /\ lease' = NoAttempt
  /\ IF worker[lease].pc = "idle" THEN UNCHANGED pubFaults ELSE PubFault
  /\ UNCHANGED <<version, outbox, active, run, worker, live, contested, flushes>>

InHands(v) == \E a \in Attempt :
  /\ worker[a].pc \in {"look", "republish", "compare", "publish", "settle"}
  /\ worker[a].event = v /\ worker[a].gen = outbox[v].gen

\* next_attempt_at comes, or lease_until of a claim passes, slowly if it is in use.
BecomesReady(v) ==
  /\ v \in Open /\ ~outbox[v].ready
  /\ outbox' = [outbox EXCEPT ![v].ready = TRUE]
  /\ IF outbox[v].status = "processing" /\ InHands(v)
     THEN PubFault /\ contested' = contested \cup {v}
     ELSE UNCHANGED <<pubFaults, contested>>
  /\ UNCHANGED <<version, active, lease, run, worker, live, flushes>>

\* The versions that passes without an event are about to restore.
Restoring == {worker[a].event : a \in {b \in Attempt : worker[b].pc = "repopulate"}}

\* Redis restarts empty.
Flush ==
  /\ flushes < MaxFlush /\ flushes' = flushes + 1
  /\ active' = 0 /\ lease' = NoAttempt
  /\ contested' = contested \cup (Open \cap {active}) \cup (Restoring \ {LastPublished})
  /\ UNCHANGED <<version, outbox, run, worker, live, pubFaults>>

Step(a) == \/ Claim(a) \/ Empty(a) \/ Repopulate(a) \/ Inspect(a) \/ Republish(a)
           \/ Compare(a) \/ PublishEvent(a) \/ Settle(a) \/ BeginRun(a) \/ ReadBase(a)
           \/ StoreVersion(a) \/ RequireOwned(a) \/ CheckPublished(a) \/ Finish(a)

PubNext ==
  \/ \E a \in Attempt : Acquire(a) \/ Step(a) \/ RegistryFails(a) \/ Die(a)
  \/ \E v \in Version : BecomesReady(v)
  \/ LeaseExpires \/ Flush

\* `serve` calls the tick again and again; a tick runs to its end; time passes.
PubFairness ==
  /\ \A a \in Attempt : WF_pubVars(Step(a))
  /\ WF_pubVars(\E a \in Attempt : Acquire(a))
  /\ WF_pubVars(LeaseExpires)
  /\ \A v \in Version : WF_pubVars(BecomesReady(v))

PubSpec == PubInit /\ [][PubNext]_pubVars /\ PubFairness

-------------------------------------------------------------------------------
(* Properties *)

\* At most one version is published in the store, however many attempts
\* acknowledge events of different generations.
OnePublished == Cardinality(Published) <= 1

\* The store calls a version published only if readers of the registry have seen it.
PublishedWasLive ==
  \A v \in Version : version[v].status \in {"published", "superseded"} => v \in live

\* What the registry serves is accounted for: it is the published version, or one
\* whose event is still open, so that it will be acknowledged or replaced.  Three cases
\* are not covered.  A claim runs out in use: its second claimer cancels the event (the
\* lease is lost) after the first one has published it.  Redis loses a version that
\* nobody acknowledged yet: a pass that finds no event to claim restores the version
\* before, and the acknowledgement then supersedes what is served.  A pass that restores a
\* lost version is slow, the version is replaced, and Redis loses its data again: the pass
\* then restores what was replaced.
ActiveIsAccounted ==
  contested = {} /\ active # 0 =>
    \/ version[active].status = "published"
    \/ version[active].status = "validated" /\ active \in Open

\* A registry that lost its data never serves a version older than the last
\* acknowledged one, but for the same cases: a repopulation that comes late finds the
\* registry occupied.
RegistryNotOlder == contested = {} /\ active # 0 => active >= LastPublished

\* Every stored version is published or given up.
EveryVersionSettles == \A v \in Version : v \in Open ~> v \notin Open

\* A registry that lost its data serves selectors again.
RegistryRestored == (Published # {} /\ active = 0) ~> active # 0

\* The store and the registry never contradict each other about what is published.
PublicationSafe == /\ PublicationTypeOK
                   /\ OnePublished
                   /\ PublishedWasLive
                   /\ ActiveIsAccounted
                   /\ RegistryNotOlder

\* Every version is published or given up, and readers have selectors again after a loss.
PublicationSettles == EveryVersionSettles /\ RegistryRestored
===============================================================================
