------------------------------ MODULE ProbeEffects ------------------------------
(***************************************************************************)
(* What a probe run does to the strategies (selector_probe/worker.py,      *)
(* gates.py, and the runs, health, effects, gates and alerts of store.py). *)
(*                                                                         *)
(* A run ends with one transaction that closes its row and queues an       *)
(* effect.  Effects are drained by whoever holds the lease, or believes so:*)
(* each is applied to gates and alerts in one transaction, then the gates  *)
(* it touched are projected to Redis, then it is completed.  Operators     *)
(* pause strategies and resolve alerts, the strategies' dependencies are   *)
(* rebuilt, and readers of a gate repair its projection.                   *)
(***************************************************************************)
EXTENDS Naturals, Sequences, FiniteSets, FiniteSetsExt, SequencesExt

CONSTANTS
  Alias,         \* the aliases of selectors
  Strategy,
  DepChoice,     \* the dependency relations a rebuild may install
  CoverChoice,   \* the sets of aliases that a published bundle may cover
  Tick,          \* the processes that run ticks: the worker and the run-now thread
  Web, Reader,   \* an operator's request, and a reader of gates
  MaxEffects,    \* effects after which the store no longer takes one from an exception path
  MaxDisturbances \* bound on runs that fail or do not cover every alias, on crashes, lost
                  \* leases and unreachable stores, and on operators' requests, together

EffectTypes == {"selector_failure", "probe_stale", "probe_unavailable", "recovery"}

ASSUME EffectsAssumption ==
  /\ DepChoice \subseteq SUBSET (Alias \X Strategy) /\ CoverChoice \subseteq SUBSET Alias
  /\ Web \notin Tick /\ Reader \notin Tick \cup {Web}
  /\ MaxEffects \in Nat /\ MaxDisturbances \in Nat

VARIABLES
  deps,       \* strategy_dependencies
  reason,     \* strategy_gate_reasons not cleared: per strategy, source and aliases
  revision,   \* strategy_gate_revisions
  projection, \* Redis: the gate of each strategy, and the revision it was read at
  effect,     \* probe_effect_outbox, in the order of its ids
  alert,      \* probe_alerts, in the order of their ids
  probeRun,   \* the status of the probe_runs row of each tick, "taken" if it carries another
              \* tick's token
  tick,       \* what each tick is doing
  reading,    \* each projector's snapshot of a gate that it is about to write
  disturbances  \* history, bounds the runs

effVars == <<deps, reason, revision, projection, effect, alert, probeRun, tick, reading,
             disturbances>>
gates   == <<deps, reason, revision>>

-------------------------------------------------------------------------------
\* An operator's pause names no alias; what the probe stops, it stops for some alias.
Gate     == [source : {"operator_pause"}, aliases : {{}}] \cup
            [source : {"selector_validation_failed", "probe_validation_stale"},
             aliases : (SUBSET Alias) \ {{}}]
Snapshot == [gates : SUBSET Gate, revision : Nat]
NoSnapshot == [gates |-> {}, revision |-> 0]

Projector == Tick \cup {Web, Reader}

TickState == [pc    : {"idle", "drain", "apply", "project", "complete", "probe", "finish",
                       "fail"},
              stage : {"before", "after", "failed"},  \* which of its drains it is in
              todo  : SUBSET Nat,                     \* effects it has read as pending
              left  : SUBSET Strategy,                \* gates still to be projected
              queue : SUBSET [type : EffectTypes, aliases : SUBSET Alias]]
                      \* the effect, if any, that the end of its run will queue

EffectRow == [type : EffectTypes, aliases : SUBSET Alias, strategies : SUBSET Strategy,
              stops : SUBSET (Alias \X Strategy),   \* history: whom it stopped, and why
              status : {"pending", "store_applied", "completed"}]
AlertRow == [class : {"selector_validation_failed", "probe_unavailable"},
             aliases : SUBSET Alias, strategies : SUBSET Strategy,
             status : {"open", "acknowledged", "resolved"}, count : Nat]
Reading == [strategy : Strategy, snapshot : Snapshot]

EffectsTypeOK ==
  /\ deps \in DepChoice
  /\ reason \in [Strategy -> SUBSET Gate]
  /\ revision \in [Strategy -> Nat]
  /\ projection \in [Strategy -> Snapshot]
  /\ effect \in Seq(EffectRow)
  /\ alert \in Seq(AlertRow)
  /\ probeRun \in [Tick -> {"none", "running", "completed", "failed", "taken"}]
  /\ tick \in [Tick -> TickState]
  /\ reading \in [Projector -> SUBSET Reading]

Idle == [pc |-> "idle", stage |-> "before", todo |-> {}, left |-> {}, queue |-> {}]

EffInit ==
  /\ deps \in DepChoice
  /\ reason = [s \in Strategy |-> {}] /\ revision = [s \in Strategy |-> 0]
  /\ projection = [s \in Strategy |-> NoSnapshot]
  /\ effect = <<>> /\ alert = <<>>
  /\ probeRun = [t \in Tick |-> "none"] /\ tick = [t \in Tick |-> Idle]
  /\ reading = [p \in Projector |-> {}]
  /\ disturbances = 0

Disturbed == disturbances < MaxDisturbances /\ disturbances' = disturbances + 1

AliasesOf(s, aliases) == {a \in aliases : <<a, s>> \in deps}
Depending(aliases)    == {s \in Strategy : AliasesOf(s, aliases) # {}}

-------------------------------------------------------------------------------
(* Projection of gates to Redis *)

\* _durable_snapshot, one transaction
ReadGate(p, s) ==
  reading' = [reading EXCEPT ![p] = {[strategy |-> s,
                snapshot |-> [gates |-> reason[s], revision |-> revision[s]]]}]

\* GATE_PROJECT_LUA: an older revision than the projected one is refused.
Projected(s, snapshot) ==
  IF projection[s].revision > snapshot.revision THEN projection
  ELSE [projection EXCEPT ![s] = snapshot]

WriteProjection(p) ==
  /\ \E r \in reading[p] : projection' = Projected(r.strategy, r.snapshot)
  /\ reading' = [reading EXCEPT ![p] = {}]

-------------------------------------------------------------------------------
(* Applying an effect: one transaction on gates and alerts *)

\* Fault: a new reason is written without its aliases.
ReasonedBare(s, source, aliases) ==
  LET open == {g \in reason[s] : g.source = source}
  IN  (reason[s] \ open) \cup {[source |-> source, aliases |-> UNION {g.aliases : g \in open}]}

\* Fault: the aliases replace those of an open reason.
ReasonedAnew(s, source, aliases) ==
  {g \in reason[s] : g.source # source} \cup {[source |-> source, aliases |-> aliases]}

\* _upsert_probe_gate_reason: the aliases join those of an open reason of the source.
Reasoned(s, source, aliases) ==
  LET open == {g \in reason[s] : g.source = source}
  IN  (reason[s] \ open) \cup
        {[source |-> source, aliases |-> aliases \cup UNION {g.aliases : g \in open}]}

\* Fault: a reason that only gets more aliases is no new revision.
RegateQuietly(new) ==
  /\ reason' = new
  /\ revision' = [s \in Strategy |-> revision[s] +
       (IF {g.source : g \in new[s]} # {g.source : g \in reason[s]} THEN 1 ELSE 0)]

\* The gates of `new` replace the present ones, each change with a new revision.
Regate(new) ==
  /\ reason' = new
  /\ revision' = [s \in Strategy |-> revision[s] + (IF new[s] # reason[s] THEN 1 ELSE 0)]

Unresolved == {i \in DOMAIN alert : alert[i].status # "resolved"}

\* The unresolved alert of the same fingerprint is updated, or a new one is opened.
Alerted(class, aliases, strategies) ==
  LET same == {i \in Unresolved : alert[i].class = class /\ alert[i].aliases = aliases}
  IN  IF same = {}
      THEN Append(alert, [class |-> class, aliases |-> aliases, strategies |-> strategies,
                          status |-> "open", count |-> 1])
      ELSE [i \in DOMAIN alert |-> IF i \notin same THEN alert[i] ELSE
              [alert[i] EXCEPT !.strategies = strategies, !.count = @ + 1]]

\* _apply_selector_failure_effect
ApplyFailure(e) ==
  /\ Regate([s \in Strategy |-> IF s \in Depending(e.aliases)
               THEN Reasoned(s, "selector_validation_failed", AliasesOf(s, e.aliases))
               ELSE reason[s]])
  /\ alert' = Alerted("selector_validation_failed", e.aliases, Depending(e.aliases))

\* _apply_probe_unavailable_effect: only an alert
ApplyUnavailable == /\ alert' = Alerted("probe_unavailable", {}, Depending(Alias))
                    /\ UNCHANGED <<reason, revision>>

\* _apply_probe_stale_effect: everything that depends on a selector stops.
ApplyStale ==
  /\ Regate([s \in Strategy |-> IF s \in Depending(Alias)
               THEN Reasoned(s, "probe_validation_stale", AliasesOf(s, Alias))
               ELSE reason[s]])
  /\ alert' = Alerted("probe_unavailable", {}, Depending(Alias))

Covered(g, covered) == g.source # "operator_pause" /\ g.aliases # {} /\ g.aliases \subseteq covered

\* _apply_recovery_effect: releases the gates it covers and resolves their alerts.
ApplyRecovery(e) ==
  /\ Regate([s \in Strategy |-> {g \in reason[s] : ~Covered(g, e.aliases)}])
  /\ alert' = [i \in DOMAIN alert |->
                 IF i \in Unresolved /\ (alert[i].class = "probe_unavailable"
                                         \/ alert[i].aliases \subseteq e.aliases)
                 THEN [alert[i] EXCEPT !.status = "resolved"] ELSE alert[i]]

\* The gates an effect names for projection.
Touched(e) == CASE e.type = "selector_failure" -> Depending(e.aliases)
                [] e.type = "recovery" -> {s \in Strategy :
                                             \E g \in reason[s] : Covered(g, e.aliases)}
                [] OTHER -> Depending(Alias)

Stops(e) == CASE e.type = "selector_failure" -> deps \cap (e.aliases \X Strategy)
              [] e.type = "probe_stale" -> deps
              [] OTHER -> {}

\* Fault: an effect that was applied and not completed is applied again.
ApplyEffectAgain(i) ==
  LET e == effect[i] IN
    /\ CASE e.type = "selector_failure"  -> ApplyFailure(e)
         [] e.type = "probe_stale"       -> ApplyStale
         [] e.type = "probe_unavailable" -> ApplyUnavailable
         [] e.type = "recovery"          -> ApplyRecovery(e)
    /\ effect' = [effect EXCEPT ![i].status = IF @ = "pending" THEN "store_applied" ELSE @,
                                ![i].strategies = Touched(e),
                                ![i].stops = Stops(e)]

\* apply_probe_effect: a pending effect only; otherwise its stored result is returned.
ApplyEffect(i) ==
  IF effect[i].status # "pending" THEN UNCHANGED <<reason, revision, alert, effect>>
  ELSE LET e == effect[i] IN
    /\ CASE e.type = "selector_failure"  -> ApplyFailure(e)
         [] e.type = "probe_stale"       -> ApplyStale
         [] e.type = "probe_unavailable" -> ApplyUnavailable
         [] e.type = "recovery"          -> ApplyRecovery(e)
    /\ effect' = [effect EXCEPT ![i].status = "store_applied", ![i].strategies = Touched(e),
                                ![i].stops = Stops(e)]

-------------------------------------------------------------------------------
(* The tick (run_tick), once it holds the lease *)

At(t, pc) == tick[t].pc = pc
Goto(t, pc) == tick' = [tick EXCEPT ![t].pc = pc]

\* A tick begins while no other one runs, or while another lost its lease.
BeginTick(t) ==
  /\ At(t, "idle")
  /\ tick' = [tick EXCEPT ![t] = [Idle EXCEPT !.pc = "drain"]]
  /\ IF \A u \in Tick : At(u, "idle") THEN UNCHANGED disturbances
     ELSE Disturbed
  /\ UNCHANGED <<gates, projection, effect, alert, probeRun, reading>>

\* Fault: newest effects first.
NewestOf(t) == Max(tick[t].todo)

\* A drain goes through the effects it read by their ids.
OldestOf(t) == Min(tick[t].todo)

\* pending_probe_effects
Pending == {i \in DOMAIN effect : effect[i].status # "completed"}

ReadPending(t) ==
  /\ At(t, "drain")
  /\ tick' = [tick EXCEPT ![t].pc = "apply", ![t].todo = Pending]
  /\ UNCHANGED <<gates, projection, effect, alert, probeRun, reading, disturbances>>

\* The lease is released; nobody has the token of the tick's run any more.
EndTick(t) == /\ tick' = [tick EXCEPT ![t] = Idle]
              /\ probeRun' = [probeRun EXCEPT ![t] = "none"]

\* A drain returns: to the probe, or to the end of the tick.
DrainReturns(t) ==
  IF tick[t].stage = "before"
  THEN /\ tick' = [tick EXCEPT ![t].pc = "probe", ![t].todo = {}, ![t].left = {}]
       /\ UNCHANGED probeRun
  ELSE EndTick(t)

\* An exception: a tick whose run has started records it, once.
Raises(t) ==
  IF tick[t].stage = "after" \/ At(t, "finish")
  THEN /\ tick' = [tick EXCEPT ![t].pc = "fail", ![t].todo = {}, ![t].left = {}]
       /\ UNCHANGED probeRun
  ELSE EndTick(t)

Apply(t) ==
  /\ At(t, "apply")
  /\ IF tick[t].todo = {}
     THEN DrainReturns(t) /\ UNCHANGED <<reason, revision, alert, effect>>
     ELSE LET i == OldestOf(t) IN
          /\ ApplyEffect(i)
          /\ LET left == effect'[i].strategies
             IN  tick' = [tick EXCEPT ![t].pc = IF left = {} THEN "complete" ELSE "project",
                                      ![t].left = left]
          /\ UNCHANGED probeRun
  /\ UNCHANGED <<deps, projection, reading, disturbances>>

\* project_strategy_ids: a snapshot and a Lua call for each strategy
Project(t) ==
  /\ At(t, "project")
  /\ \/ /\ reading[t] = {}
        /\ LET s == CHOOSE s \in tick[t].left : TRUE
           IN  ReadGate(t, s) /\ tick' = [tick EXCEPT ![t].left = tick[t].left \ {s}]
        /\ UNCHANGED projection
     \/ /\ reading[t] # {} /\ WriteProjection(t)
        /\ IF tick[t].left = {} THEN Goto(t, "complete") ELSE UNCHANGED tick
  /\ UNCHANGED <<gates, effect, alert, probeRun, disturbances>>

\* Redis does not answer: the drain breaks off.
ProjectFails(t) ==
  /\ At(t, "project") /\ reading[t] # {} /\ Disturbed
  /\ reading' = [reading EXCEPT ![t] = {}] /\ DrainReturns(t)
  /\ UNCHANGED <<gates, projection, effect, alert>>

\* complete_probe_effect: who finds the effect completed already raises.
Complete(t) ==
  /\ At(t, "complete")
  /\ LET i == OldestOf(t)
     IN  IF effect[i].status = "store_applied"
         THEN /\ effect' = [effect EXCEPT ![i].status = "completed"]
              /\ tick' = [tick EXCEPT ![t].pc = "apply", ![t].todo = tick[t].todo \ {i}]
              /\ UNCHANGED probeRun
         ELSE Raises(t) /\ UNCHANGED effect
  /\ UNCHANGED <<gates, projection, alert, reading, disturbances>>

NotDue(t) ==
  /\ At(t, "probe") /\ EndTick(t)
  /\ UNCHANGED <<gates, projection, effect, alert, reading, disturbances>>

\* start_run: the row is the tick's own, or that of the slot another one works on.
StartRun(t) ==
  \/ probeRun' = [probeRun EXCEPT ![t] = "running"]
  \/ \E u \in Tick \ {t} :
       /\ probeRun[u] \in {"running", "failed"}
       /\ probeRun' = [probeRun EXCEPT ![t] = "running", ![u] = "taken"]

\* Fault: only alerts are looked at.
AlertsPending == Unresolved # {}

RecoveryPending ==
  \/ \E s \in Strategy : \E g \in reason[s] : g.source # "operator_pause"
  \/ Unresolved # {}

\* The probe runs, with an outcome and the effect that goes with it: the selectors are
\* valid (and a bundle that covers `covered` is active), some are not, or the probe
\* itself failed.
Probe(t, covered) ==
  /\ At(t, "probe") /\ StartRun(t)
  /\ IF covered = Alias THEN UNCHANGED disturbances ELSE Disturbed
  /\ tick' = [tick EXCEPT ![t].pc = "finish",
        ![t].queue = IF RecoveryPending THEN {[type |-> "recovery", aliases |-> covered]} ELSE {}]
  /\ UNCHANGED <<gates, projection, effect, alert, reading>>

ProbeFails(t, type, aliases) ==
  /\ At(t, "probe") /\ StartRun(t) /\ Disturbed
  /\ tick' = [tick EXCEPT ![t].pc = "finish",
                          ![t].queue = {[type |-> type, aliases |-> aliases]}]
  /\ UNCHANGED <<gates, projection, effect, alert, reading>>

Queued(queue) == effect \o [i \in 1..Cardinality(queue) |->
  [type |-> (CHOOSE q \in queue : TRUE).type, aliases |-> (CHOOSE q \in queue : TRUE).aliases,
   strategies |-> {}, stops |-> {}, status |-> "pending"]]

\* finish_run: the row, if it still carries the tick's token, and the effect
FinishRun(t) ==
  /\ At(t, "finish")
  /\ IF probeRun[t] = "taken" THEN EndTick(t) /\ UNCHANGED effect
     ELSE /\ probeRun' = [probeRun EXCEPT ![t] =
                IF \A q \in tick[t].queue : q.type = "recovery" THEN "completed" ELSE "failed"]
          /\ effect' = Queued(tick[t].queue)
          /\ tick' = [tick EXCEPT ![t].pc = "drain", ![t].stage = "after"]
  /\ UNCHANGED <<gates, projection, alert, reading, disturbances>>

\* The exception path finishes the run a second time, whatever its status became; an
\* effect of the type that the first time queued is refused (its key exists), and so may be
\* any other when the store fails again.
FailRun(t, type) ==
  /\ At(t, "fail")
  /\ IF \/ probeRun[t] = "taken" \/ Len(effect) >= MaxEffects
        \/ (tick[t].stage = "after" /\ \E q \in tick[t].queue : q.type = type)
     THEN EndTick(t) /\ UNCHANGED effect
     ELSE /\ probeRun' = [probeRun EXCEPT ![t] = "failed"]
          /\ effect' = Queued({[type |-> type, aliases |-> {}]})
          /\ tick' = [tick EXCEPT ![t].pc = "drain", ![t].stage = "failed"]
  /\ UNCHANGED <<gates, projection, alert, reading, disturbances>>

\* The store does not answer, or a step raises.
StepRaises(t) ==
  /\ tick[t].pc \in {"drain", "apply", "complete", "finish"} /\ Disturbed
  /\ Raises(t)
  /\ UNCHANGED <<gates, projection, effect, alert, reading>>

Dies(t) ==
  /\ ~At(t, "idle") /\ Disturbed
  /\ EndTick(t) /\ reading' = [reading EXCEPT ![t] = {}]
  /\ UNCHANGED <<gates, projection, effect, alert>>

-------------------------------------------------------------------------------
(* Operators, readers, and Redis *)

Snapshots(strategies) == {[strategy |-> s, snapshot |-> [gates |-> reason'[s],
                                                         revision |-> revision'[s]]] :
                          s \in strategies}

\* set_manual_gate_cas, then the projection of the gate
SetManualGate(s, paused) ==
  /\ Disturbed /\ reading[Web] = {}
  /\ Regate([reason EXCEPT ![s] = {g \in @ : g.source # "operator_pause"} \cup
        (IF paused THEN {[source |-> "operator_pause", aliases |-> {}]} ELSE {})])
  /\ reading' = [reading EXCEPT ![Web] = Snapshots({s})]
  /\ UNCHANGED <<deps, projection, effect, alert, probeRun, tick>>

\* rebuild_dependencies: every strategy that had or has dependencies is projected.
RebuildDependencies(new) ==
  /\ Disturbed /\ reading[Web] = {}
  /\ LET managed == {d[2] : d \in deps \cup new} IN
     /\ deps' = new /\ UNCHANGED reason
     /\ revision' = [s \in Strategy |-> revision[s] + (IF s \in managed THEN 1 ELSE 0)]
     /\ reading' = [reading EXCEPT ![Web] = Snapshots(managed)]
  /\ UNCHANGED <<projection, effect, alert, probeRun, tick>>

\* transition_alert_cas: an alert cannot be resolved while one of its gates is closed.
TransitionAlert(i, status) ==
  /\ Disturbed /\ alert[i].status # "resolved"
  /\ status = "resolved" => \A s \in alert[i].strategies : reason[s] = {}
  /\ alert' = [alert EXCEPT ![i].status = status]
  /\ UNCHANGED <<gates, projection, effect, probeRun, tick, reading>>

\* check: a reader that finds another projection than the store's writes it anew.
Check(s) ==
  /\ reading[Reader] = {} /\ revision[s] > 0
  /\ projection[s] # [gates |-> reason[s], revision |-> revision[s]]
  /\ ReadGate(Reader, s)
  /\ UNCHANGED <<gates, projection, effect, alert, probeRun, tick, disturbances>>

WriteGate(p) ==
  /\ p \in {Web, Reader} /\ reading[p] # {}
  /\ \E r \in reading[p] :
       /\ projection' = Projected(r.strategy, r.snapshot)
       /\ reading' = [reading EXCEPT ![p] = @ \ {r}]
  /\ UNCHANGED <<gates, effect, alert, probeRun, tick, disturbances>>

\* Redis does not answer a projection outside a tick, which nobody notices.
GateUnwritten(p) ==
  /\ p \in {Web, Reader} /\ reading[p] # {} /\ Disturbed
  /\ reading' = [reading EXCEPT ![p] = {}]
  /\ UNCHANGED <<gates, projection, effect, alert, probeRun, tick>>

ProjectionsLost ==
  /\ Disturbed /\ projection' = [s \in Strategy |-> NoSnapshot]
  /\ UNCHANGED <<gates, effect, alert, probeRun, tick, reading>>

TickStep(t) == \/ ReadPending(t) \/ Apply(t) \/ Project(t) \/ Complete(t)
               \/ FinishRun(t)
               \/ \E type \in {"probe_unavailable", "probe_stale"} : FailRun(t, type)

EffNext ==
  \/ \E t \in Tick :
       \/ BeginTick(t) \/ TickStep(t) \/ NotDue(t)
       \/ \E c \in CoverChoice : Probe(t, c)
       \/ \E a \in (SUBSET Alias) \ {{}} : ProbeFails(t, "selector_failure", a)
       \/ \E type \in {"probe_unavailable", "probe_stale"} : ProbeFails(t, type, {})
       \/ ProjectFails(t) \/ StepRaises(t) \/ Dies(t)
  \/ \E s \in Strategy : Check(s) \/ \E paused \in BOOLEAN : SetManualGate(s, paused)
  \/ \E d \in DepChoice : RebuildDependencies(d)
  \/ \E i \in DOMAIN alert : \E st \in {"acknowledged", "resolved"} : TransitionAlert(i, st)
  \/ \E p \in {Web, Reader} : WriteGate(p) \/ GateUnwritten(p)
  \/ ProjectionsLost

EffSpec == EffInit /\ [][EffNext]_effVars

\* Ticks are run again and again, each to its end, and again and again one finds all
\* selectors valid in a bundle that covers every alias.
EffFairness ==
  /\ WF_effVars(\E t \in Tick : BeginTick(t))
  /\ \A t \in Tick : WF_effVars(TickStep(t) \/ NotDue(t))
  /\ \A t \in Tick : SF_effVars(Probe(t, Alias))

FairEffSpec == EffSpec /\ EffFairness

-------------------------------------------------------------------------------
(* Properties *)

\* A projection is never ahead of the store, and one of the store's revision says what
\* the store says, so that readers can trust the comparison of revisions.
ProjectionsAgree ==
  \A s \in Strategy :
    /\ projection[s].revision <= revision[s]
    /\ projection[s].revision = revision[s] => projection[s].gates = reason[s]

AppliedEffect(i) == effect[i].status # "pending"

\* Effects are applied in the order in which their runs ended, whoever drains them.
EffectsInOrder == \A i, j \in DOMAIN effect : i < j /\ AppliedEffect(j) => AppliedEffect(i)

\* A failing run is counted once in the alerts, however often its effect is drained.
FailuresCountedOnce ==
  FoldSeq(LAMBDA a, n : a.count + n, 0, alert)
    = Cardinality({i \in DOMAIN effect : AppliedEffect(i) /\ effect[i].type # "recovery"})

GateSourceOf(type) == IF type = "selector_failure" THEN "selector_validation_failed"
                                                   ELSE "probe_validation_stale"

\* A strategy that a failure stopped stays stopped until a later run found all the
\* selectors it was stopped for: no other run, operator or rebuild lets it go on.
NoPauseLost ==
  \A i \in DOMAIN effect, s \in Strategy :
    LET aliases == {a \in Alias : <<a, s>> \in effect[i].stops} IN
    AppliedEffect(i) /\ aliases # {} =>
      \/ \E g \in reason[s] : g.source = GateSourceOf(effect[i].type) /\ aliases \subseteq g.aliases
      \/ \E j \in DOMAIN effect : /\ j > i /\ AppliedEffect(j) /\ effect[j].type = "recovery"
                                  /\ aliases \subseteq effect[j].aliases

\* What the probe stopped, the probe releases again.
PausesEnd ==
  \A s \in Strategy : (\E g \in reason[s] : g.source # "operator_pause")
                        ~> (\A g \in reason[s] : g.source = "operator_pause")

\* Gates, their projections and the alerts say of the strategies what the runs found, in
\* whatever order ticks, operators and readers come by (apply_probe_effect, project).
EffectsSafe == /\ EffectsTypeOK
               /\ ProjectionsAgree
               /\ EffectsInOrder
               /\ NoPauseLost

\* Every failure comes into the alerts once, and in the end to its own end (apply_probe_effect,
\* whose effects are drained again and again until one is completed).
FailuresEndWell == []FailuresCountedOnce /\ PausesEnd
================================================================================
