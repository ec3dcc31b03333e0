-------------------------- MODULE PublicationProofs ---------------------------
(***************************************************************************)
(* The safety of the publication of selectors, proved for any number of    *)
(* attempts, versions and faults.                                          *)
(***************************************************************************)
EXTENDS SelectorPublication, FiniteSetTheorems, TLAPS

\* The least of some natural numbers is one of them.
LEMMA LeastIsOne ==
  ASSUME NEW S \in SUBSET Nat, S # {}
  PROVE  Min(S) \in S /\ \A x \in S : Min(S) <= x
<1> DEFINE R == OpToRel(<, Nat)
<1>1. IsWellFoundedOn(R, Nat)
    BY NatLessThanWellFounded
<1>2. \A x, y \in Nat : <<x, y>> \in R <=> x < y
    BY DEF OpToRel
<1> HIDE DEF R
<1>3. PICK x \in S : \A y \in S : ~ (<<y, x>> \in R)
    BY <1>1, WFMin
<1>4. ASSUME NEW y \in S PROVE x <= y
  <2>1. x \in Nat /\ y \in Nat
      OBVIOUS
  <2>2. ~ (y < x)
      BY <2>1, <1>2, <1>3
  <2> QED
      BY <2>1, <2>2
<1> QED
    BY <1>4 DEF Min

(* Publication.  What holds of the store alone, of the registry beside it, and of each  *)
(* attempt beside both.                                                                  *)

\* Versions are stored in their order, each with its event.
Numbered ==
  /\ \A v \in Version : version[v].status = "absent" <=> outbox[v].status = "absent"
  /\ \A u, v \in Version : u < v /\ version[u].status = "absent" => version[v].status = "absent"

OpenIsValidated == \A v \in Version : v \in Open => version[v].status = "validated"

\* What comes after an open event is not claimed before it.
ClaimedInOrder ==
  \A u, v \in Version : u < v /\ u \in Open =>
    /\ version[v].status \in {"absent", "validated"}
    /\ outbox[v].status \in {"absent", "pending"}

OnlyOne == \A u, v \in Published : u = v

StoreHolds == Numbered /\ OpenIsValidated /\ ClaimedInOrder /\ OnlyOne

RegistryHolds == /\ active # 0 => active \in live
                 /\ PublishedWasLive
                 /\ ActiveIsAccounted

\* The attempts that handle an event they claimed.
Handling(a) == worker[a].pc \in {"look", "republish", "compare", "publish", "settle"}

Known(a) ==
  /\ Handling(a) \/ worker[a].pc = "repopulate" => worker[a].event \in Version
  /\ worker[a].pc = "republish" => worker[a].base \in Version
  /\ worker[a].pc # "settle" => worker[a].reply = "published"
  /\ worker[a].pc = "settle" /\ worker[a].reply \in {"published", "idempotent"} =>
       worker[a].event \in live
  /\ worker[a].pc = "repopulate" => version[worker[a].event].status \in {"published", "superseded"}

\* What was claimed stays so until the claimer settles it.
HoldsClaim(a) == Handling(a) => ClaimHeld(a) /\ ~outbox[worker[a].event].ready

\* What the attempt found of the registry is still so: only its own publication changes it
\* with respect to its event.
Follows(a) ==
  /\ worker[a].pc = "settle" /\ worker[a].reply \in {"published", "idempotent"} =>
       active = worker[a].event
  /\ worker[a].pc = "settle" /\ worker[a].reply \in {"conflict", "lease_lost"} =>
       active # worker[a].event
  /\ worker[a].pc \in {"republish", "compare", "publish"} => active # worker[a].event
  /\ worker[a].pc = "republish" => worker[a].base = LastPublished
  /\ worker[a].pc = "repopulate" /\ active = 0 => worker[a].event = LastPublished

OneHandles == \A a, b \in Attempt : Handling(a) /\ Handling(b) => a = b

AttemptsHold == /\ \A a \in Attempt : Known(a)
                /\ contested = {} => \A a \in Attempt : HoldsClaim(a) /\ Follows(a)
                /\ contested = {} => OneHandles

PublicationInv == PublicationTypeOK /\ StoreHolds /\ RegistryHolds /\ AttemptsHold

-----------------------------------------------------------------------------

LEMMA VersionsAreNumbers == Version \in SUBSET Nat /\ 0 \notin Version
BY PublicationAssumption DEF Version

\* Of at most one published version, the last one.
LEMMA TheLast ==
  ASSUME OnlyOne
  PROVE  /\ Published = {} => LastPublished = 0
         /\ \A v \in Published : LastPublished = v
         /\ LastPublished \in {0} \cup Version
         /\ LastPublished # 0 => LastPublished \in Published
<1>1. Published \subseteq Version /\ 0 \notin Version
    BY VersionsAreNumbers DEF Published
<1>2. CASE Published = {}
    BY <1>2 DEF LastPublished
<1>3. ASSUME NEW v \in Published PROVE LastPublished = v
  <2>1. Published = {v} /\ v \in Nat
      BY <1>1, VersionsAreNumbers DEF OnlyOne
  <2>2. Max({v}) = v
      BY <2>1 DEF Max
  <2> QED
      BY <2>1, <2>2 DEF LastPublished
<1> QED
    BY <1>1, <1>2, <1>3

\* The registry does not serve an older version: what is open comes after what is published.
LEMMA NotOlder ==
  ASSUME PublicationInv
  PROVE  RegistryNotOlder
<1> SUFFICES ASSUME contested = {}, active # 0 PROVE active >= LastPublished
    BY DEF RegistryNotOlder
<1>0. active \in Version /\ OnlyOne /\ ClaimedInOrder
    BY DEF PublicationInv, PublicationTypeOK, StoreHolds
<1>1. CASE version[active].status = "published"
  <2>1. active \in Published
      BY <1>0, <1>1 DEF Published
  <2> QED
      BY <1>0, <2>1, TheLast, VersionsAreNumbers
<1>2. CASE active \in Open /\ version[active].status = "validated"
  <2>1. CASE LastPublished = 0
      BY <1>0, <2>1, VersionsAreNumbers
  <2>2. CASE LastPublished # 0
    <3>1. LastPublished \in Version /\ version[LastPublished].status = "published"
        BY <1>0, <2>2, TheLast DEF Published
    <3>2. ~ (active < LastPublished)
        BY <1>0, <1>2, <3>1 DEF ClaimedInOrder
    <3> QED
        BY <1>0, <3>1, <3>2, VersionsAreNumbers
  <2> QED
      BY <2>1, <2>2
<1> QED
    BY <1>1, <1>2 DEF PublicationInv, RegistryHolds, ActiveIsAccounted

LEMMA AtMostOne ==
  ASSUME OnlyOne
  PROVE  OnePublished
<1>1. CASE Published = {}
    BY <1>1, FS_EmptySet DEF OnePublished
<1>2. ASSUME NEW v \in Published PROVE OnePublished
  <2>1. Published = {v}
      BY DEF OnlyOne
  <2> QED
      BY <2>1, FS_Singleton DEF OnePublished
<1> QED
    BY <1>1, <1>2

LEMMA InvIsSafe == PublicationInv => PublicationSafe
BY NotOlder, AtMostOne DEF PublicationInv, PublicationSafe, StoreHolds, RegistryHolds

LEMMA PublicationStarts == PubInit => PublicationInv
<1> SUFFICES ASSUME PubInit PROVE PublicationInv
    OBVIOUS
<1>1. PublicationTypeOK
    BY PublicationAssumption DEF PubInit, PublicationTypeOK, VersionRow, OutboxRow, VersionStatus,
       OutboxStatus, Worker, Resting, Reply
<1>2. Open = {} /\ Published = {}
    BY DEF PubInit, Open, Published
<1>3. StoreHolds
    BY <1>2 DEF PubInit, StoreHolds, Numbered, OpenIsValidated, ClaimedInOrder, OnlyOne
<1>4. RegistryHolds
    BY DEF PubInit, RegistryHolds, PublishedWasLive, ActiveIsAccounted
<1>5. AttemptsHold
    BY DEF PubInit, AttemptsHold, Known, Handling, HoldsClaim, Follows, OneHandles, Resting
<1> QED
    BY <1>1, <1>3, <1>4, <1>5 DEF PublicationInv

-----------------------------------------------------------------------------
(* Steps that leave the store as it is *)

\* The statuses and events stay.
StoreStays == /\ \A v \in Version : version'[v].status = version[v].status
              /\ outbox' = outbox

RegistryStays == active' = active /\ live' = live /\ contested' = contested

\* Only attempt a moves.
Alone(a) == \A b \in Attempt \ {a} : worker'[b] = worker[b]

\* An attempt that has no event in hand nor a version to restore.
Rests(a) == /\ ~Handling(a) /\ worker[a].pc # "repopulate" /\ worker[a].reply = "published"

LEMMA StoreKept ==
  ASSUME StoreStays
  PROVE  /\ Open' = Open /\ Published' = Published /\ LastPublished' = LastPublished
         /\ StoreHolds => StoreHolds'
<1>1. Open' = Open
    BY DEF StoreStays, Open
<1>2. Published' = Published
    BY DEF StoreStays, Published
<1>3. LastPublished' = LastPublished
    BY <1>2 DEF LastPublished
<1>4. StoreHolds => StoreHolds'
    BY <1>1, <1>2 DEF StoreStays, StoreHolds, Numbered, OpenIsValidated, ClaimedInOrder, OnlyOne
<1> QED
    BY <1>1, <1>2, <1>3, <1>4

LEMMA RegistryKept ==
  ASSUME PublicationInv, StoreStays, RegistryStays
  PROVE  RegistryHolds'
<1>1. Open' = Open
    BY StoreKept
<1>2. active # 0 => active \in Version
    BY DEF PublicationInv, PublicationTypeOK
<1> QED
    BY <1>1, <1>2 DEF PublicationInv, RegistryHolds, PublishedWasLive, ActiveIsAccounted,
       StoreStays,
       RegistryStays

\* An attempt that does not move keeps what it knows, while versions that were active, and
\* those that were published, remain so.
LEMMA KnownKept ==
  ASSUME PublicationInv, NEW b \in Attempt, worker'[b] = worker[b], live \subseteq live',
         \A v \in Version : version[v].status \in {"published", "superseded"} =>
                              version'[v].status \in {"published", "superseded"}
  PROVE  Known(b)'
BY DEF PublicationInv, AttemptsHold, Known, Handling

LEMMA OthersKept ==
  ASSUME PublicationInv, StoreStays, RegistryStays, NEW a \in Attempt, Alone(a)
  PROVE  \A b \in Attempt \ {a} : /\ Known(b)'
                                  /\ contested' = {} => HoldsClaim(b)' /\ Follows(b)'
<1> SUFFICES ASSUME NEW b \in Attempt \ {a}
             PROVE  /\ Known(b)'
                    /\ contested' = {} => HoldsClaim(b)' /\ Follows(b)'
    OBVIOUS
<1>1. worker'[b] = worker[b]
    BY DEF Alone
<1>2. Known(b)'
    BY <1>1, KnownKept DEF StoreStays, RegistryStays
<1>3. ASSUME contested' = {} PROVE HoldsClaim(b)' /\ Follows(b)'
  <2>1. HoldsClaim(b) /\ Follows(b)
      BY <1>3 DEF PublicationInv, AttemptsHold, RegistryStays
  <2>2. HoldsClaim(b)'
      BY <1>1, <2>1 DEF HoldsClaim, Handling, ClaimHeld, StoreStays
  <2>3. Follows(b)'
      BY <1>1, <2>1, StoreKept DEF Follows, RegistryStays
  <2> QED
      BY <2>2, <2>3
<1> QED
    BY <1>2, <1>3

\* An attempt that goes on with its event alone, or with none.
LEMMA GoesOn ==
  ASSUME PublicationInv, PublicationTypeOK', StoreStays, RegistryStays, NEW a \in Attempt, Alone(a),
         Handling(a)' => Handling(a), Known(a)',
         contested' = {} => HoldsClaim(a)' /\ Follows(a)'
  PROVE  PublicationInv'
<1>1. StoreHolds' /\ RegistryHolds'
    BY StoreKept, RegistryKept DEF PublicationInv
<1>2. \A b \in Attempt : Known(b)' /\ (contested' = {} => HoldsClaim(b)' /\ Follows(b)')
    BY OthersKept
<1>3. contested' = {} => OneHandles'
  <2> SUFFICES ASSUME contested' = {}, NEW x \in Attempt, NEW y \in Attempt, Handling(x)', Handling(y)'
               PROVE  x = y
      BY DEF OneHandles
  <2>1. \A b \in Attempt : Handling(b)' => Handling(b)
      BY DEF Alone, Handling
  <2> QED
      BY <2>1 DEF PublicationInv, AttemptsHold, OneHandles, RegistryStays
<1> QED
    BY <1>1, <1>2, <1>3 DEF PublicationInv, AttemptsHold

\* In particular one that has none.
LEMMA GoesToRest ==
  ASSUME PublicationInv, PublicationTypeOK', StoreStays, RegistryStays, NEW a \in Attempt, Alone(a),
         Rests(a)'
  PROVE  PublicationInv'
<1>1. Known(a)' /\ HoldsClaim(a)' /\ Follows(a)' /\ ~Handling(a)'
    BY DEF Rests, Known, HoldsClaim, Follows, Handling
<1> QED
    BY <1>1, GoesOn

-----------------------------------------------------------------------------
(* Type correctness of the steps, and what attempt they move *)

\* An attempt's record is replaced.
LEMMA MoveTyped ==
  ASSUME PublicationInv, NEW a \in Attempt, NEW w \in Worker, worker' = [worker EXCEPT ![a] = w]
  PROVE  worker' \in [Attempt -> Worker] /\ worker'[a] = w /\ Alone(a)
BY DEF PublicationInv, PublicationTypeOK, Alone

LEMMA RestIsTyped ==
  ASSUME NEW n \in Nat, NEW pc \in {"idle", "claim", "run", "check", "finish"}
  PROVE  /\ [Resting EXCEPT !.own = n, !.pc = pc] \in Worker
         /\ [Resting EXCEPT !.pc = pc] \in Worker /\ Resting \in Worker
BY DEF Resting, Worker, Reply

\* A pass that returns, a tick that ends, and one that begins rest.
LEMMA Returns ==
  ASSUME PublicationInv, NEW a \in Attempt, Return(a)
  PROVE  worker' \in [Attempt -> Worker] /\ Alone(a) /\ Rests(a)'
<1> DEFINE w == [Resting EXCEPT !.own = worker[a].own,
                                !.pc = IF worker[a].own = 0 THEN "run" ELSE "check"]
<1>1. worker[a].own \in Nat
    BY DEF PublicationInv, PublicationTypeOK, Worker
<1>2. w \in Worker
    BY <1>1, RestIsTyped
<1>3. w.pc \in {"run", "check"} /\ w.reply = "published"
    BY DEF Resting
<1>4. worker' = [worker EXCEPT ![a] = w]
    BY DEF Return
<1> HIDE DEF w
<1>5. worker' \in [Attempt -> Worker] /\ worker'[a] = w /\ Alone(a)
    BY <1>2, <1>4, MoveTyped
<1> QED
    BY <1>3, <1>5 DEF Rests, Handling

LEMMA Leaves ==
  ASSUME PublicationInv, NEW a \in Attempt, NEW pc \in {"idle", "claim", "finish"},
         worker' = [worker EXCEPT ![a] = [Resting EXCEPT !.pc = pc]]
  PROVE  worker' \in [Attempt -> Worker] /\ Alone(a) /\ Rests(a)'
<1> DEFINE w == [Resting EXCEPT !.pc = pc]
<1>1. w \in Worker
    BY RestIsTyped
<1>2. w.pc = pc /\ w.reply = "published"
    BY DEF Resting
<1> HIDE DEF w
<1>3. worker' \in [Attempt -> Worker] /\ worker'[a] = w /\ Alone(a)
    BY <1>1, MoveTyped DEF w
<1> QED
    BY <1>2, <1>3 DEF Rests, Handling

LEMMA Dismissed ==
  ASSUME PublicationInv, NEW a \in Attempt, worker' = [worker EXCEPT ![a] = Resting]
  PROVE  worker' \in [Attempt -> Worker] /\ Alone(a) /\ Rests(a)'
<1>1. Resting \in Worker /\ Resting.pc = "idle" /\ Resting.reply = "published"
    BY RestIsTyped DEF Resting
<1>2. worker' \in [Attempt -> Worker] /\ worker'[a] = Resting /\ Alone(a)
    BY <1>1, MoveTyped
<1> QED
    BY <1>1, <1>2 DEF Rests, Handling

\* A step of the tick that does not touch an event.
LEMMA Moves ==
  ASSUME PublicationInv, NEW a \in Attempt, ~Handling(a), NEW n \in Nat,
         NEW pc \in {"claim", "empty", "run", "base", "store", "owned", "check"},
         worker' \in {[worker EXCEPT ![a].pc = pc], [worker EXCEPT ![a].pc = pc, ![a].base = n]}
  PROVE  worker' \in [Attempt -> Worker] /\ Alone(a) /\ Rests(a)'
<1>1. worker[a] \in Worker /\ worker[a].reply = "published"
    BY DEF PublicationInv, PublicationTypeOK, AttemptsHold, Known, Handling
<1>2. PICK w \in Worker : w.pc = pc /\ w.reply = "published" /\ worker' = [worker EXCEPT ![a] = w]
  <2> DEFINE w1 == [worker[a] EXCEPT !.pc = pc]
             w2 == [worker[a] EXCEPT !.pc = pc, !.base = n]
  <2>1. w1 \in Worker /\ w1.pc = pc /\ w1.reply = "published"
      BY <1>1 DEF Worker
  <2>2. w2 \in Worker /\ w2.pc = pc /\ w2.reply = "published"
      BY <1>1 DEF Worker
  <2>3. worker' = [worker EXCEPT ![a] = w1] \/ worker' = [worker EXCEPT ![a] = w2]
      BY DEF PublicationInv, PublicationTypeOK
  <2> HIDE DEF w1, w2
  <2> QED
      BY <2>1, <2>2, <2>3
<1>3. worker' \in [Attempt -> Worker] /\ worker'[a] = w /\ Alone(a)
    BY <1>2, MoveTyped
<1> QED
    BY <1>2, <1>3 DEF Rests, Handling

\* What is left of type correctness when only the attempt, lease or run changes.
LEMMA RestOfTypes ==
  ASSUME PublicationInv, worker' \in [Attempt -> Worker], lease' \in Attempt \cup {NoAttempt},
         run' \subseteq Attempt, pubFaults' \in 0..MaxFaults,
         UNCHANGED <<version, outbox, active, live, contested, flushes>>
  PROVE  PublicationTypeOK' /\ StoreStays /\ RegistryStays
BY DEF PublicationInv, PublicationTypeOK, StoreStays, RegistryStays

\* Faults are counted up to their bound.
LEMMA FaultIsCounted ==
  ASSUME PublicationInv, PubFault \/ UNCHANGED pubFaults
  PROVE  pubFaults' \in 0..MaxFaults
BY PublicationAssumption DEF PublicationInv, PublicationTypeOK, PubFault

-----------------------------------------------------------------------------
(* The steps of a tick outside its passes *)

LEMMA AcquireHolds ==
  ASSUME PublicationInv, NEW a \in Attempt, Acquire(a)
  PROVE  PublicationInv'
<1>1. worker' \in [Attempt -> Worker] /\ Alone(a) /\ Rests(a)'
    BY Leaves DEF Acquire
<1>2. version' \in [Version -> VersionRow] /\ StoreStays
  <2>1. \A v \in Version : /\ [version[v] EXCEPT !.owner = FormerAttempt] \in VersionRow
                           /\ [version[v] EXCEPT !.owner = FormerAttempt].status = version[v].status
      BY DEF PublicationInv, PublicationTypeOK, VersionRow
  <2> QED
      BY <2>1 DEF Acquire, StoreStays, PublicationInv, PublicationTypeOK
<1>3. PublicationTypeOK' /\ RegistryStays
    BY <1>1, <1>2 DEF Acquire, RegistryStays, PublicationInv, PublicationTypeOK
<1> QED
    BY <1>1, <1>2, <1>3, GoesToRest

LEMMA TickHolds ==
  ASSUME PublicationInv, NEW a \in Attempt,
         BeginRun(a) \/ ReadBase(a) \/ RequireOwned(a) \/ CheckPublished(a) \/ Finish(a) \/ Die(a)
  PROVE  PublicationInv'
<1>1. worker' \in [Attempt -> Worker] /\ Alone(a) /\ Rests(a)'
  <2>0. active \in Nat
      BY VersionsAreNumbers DEF PublicationInv, PublicationTypeOK
  <2>1. CASE BeginRun(a)
      BY <2>1, Moves, Leaves DEF BeginRun, MoveTo, Leave, Handling
  <2>2. CASE ReadBase(a)
      BY <2>0, <2>2, Moves, Leaves DEF ReadBase, Leave, Handling
  <2>3. CASE RequireOwned(a)
      BY <2>3, Moves, Leaves DEF RequireOwned, MoveTo, Leave, Handling
  <2>4. CASE CheckPublished(a)
      BY <2>4, Moves, Leaves DEF CheckPublished, MoveTo, Leave, Handling
  <2>5. CASE Finish(a) \/ Die(a)
      BY <2>5, Dismissed DEF Finish, Die
  <2> QED
      BY <2>1, <2>2, <2>3, <2>4, <2>5
<1>2. /\ lease' \in Attempt \cup {NoAttempt} /\ run' \subseteq Attempt
      /\ UNCHANGED <<version, outbox, active, live, contested, flushes>>
    BY DEF BeginRun, ReadBase, RequireOwned, CheckPublished, Finish, Die, PublicationInv,
       PublicationTypeOK
<1>3. pubFaults' \in 0..MaxFaults
    BY FaultIsCounted DEF BeginRun, ReadBase, RequireOwned, CheckPublished, Finish, Die
<1> QED
    BY <1>1, <1>2, <1>3, RestOfTypes, GoesToRest

LEMMA LeaseHolds ==
  ASSUME PublicationInv, LeaseExpires
  PROVE  PublicationInv'
<1>1. pubFaults' \in 0..MaxFaults
    BY FaultIsCounted DEF LeaseExpires
<1>2. UNCHANGED <<version, outbox, active, run, worker, live, contested, flushes>> /\ lease' = NoAttempt
    BY DEF LeaseExpires
<1>3. PublicationTypeOK' /\ StoreStays /\ RegistryStays
    BY <1>1, <1>2, RestOfTypes DEF PublicationInv, PublicationTypeOK
<1>4. StoreHolds' /\ RegistryHolds'
    BY <1>3, StoreKept, RegistryKept DEF PublicationInv
<1>5. AttemptsHold'
    BY <1>2, StoreKept, <1>3 DEF PublicationInv, AttemptsHold, Known, Handling, HoldsClaim,
       Follows,
       ClaimHeld, OneHandles
<1> QED
    BY <1>3, <1>4, <1>5 DEF PublicationInv

LEMMA PublicationRests ==
  ASSUME PublicationInv, UNCHANGED pubVars
  PROVE  PublicationInv'
<1>1. PublicationTypeOK' /\ StoreStays /\ RegistryStays /\ worker' = worker
    BY DEF pubVars, PublicationInv, PublicationTypeOK, StoreStays, RegistryStays
<1>2. StoreHolds' /\ RegistryHolds'
    BY <1>1, StoreKept, RegistryKept DEF PublicationInv
<1>3. AttemptsHold'
    BY <1>1, StoreKept DEF pubVars, PublicationInv, AttemptsHold, Known, Handling, HoldsClaim,
       Follows,
       ClaimHeld, OneHandles
<1> QED
    BY <1>1, <1>2, <1>3 DEF PublicationInv

-----------------------------------------------------------------------------
(* The steps of a pass that only look *)

LEMMA EmptyHolds ==
  ASSUME PublicationInv, NEW a \in Attempt, Empty(a)
  PROVE  PublicationInv'
<1>1. CASE active # 0 \/ Published = {}
    BY <1>1, Returns, RestOfTypes, GoesToRest DEF Empty, PublicationInv, PublicationTypeOK
<1>2. CASE active = 0 /\ Published # {}
  <2> DEFINE w == [worker[a] EXCEPT !.pc = "repopulate", !.event = LastPublished]
  <2>1. /\ worker[a] \in Worker /\ worker[a].pc = "empty" /\ worker[a].reply = "published"
        /\ worker \in [Attempt -> Worker]
      BY DEF Empty, PublicationInv, PublicationTypeOK, AttemptsHold, Known
  <2>2. LastPublished \in Published /\ LastPublished \in Version
      BY <1>2, TheLast DEF PublicationInv, StoreHolds, Published
  <2>3. w \in Worker /\ w.pc = "repopulate" /\ w.event = LastPublished /\ w.reply = "published"
    <3>1. LastPublished \in Nat
        BY <2>2, VersionsAreNumbers
    <3> QED
        BY <2>1, <3>1 DEF Worker
  <2>4. worker' = [worker EXCEPT ![a] = w]
      BY <1>2, <2>1 DEF Empty
  <2> HIDE DEF w
  <2>5. worker' \in [Attempt -> Worker] /\ worker'[a] = w /\ Alone(a)
      BY <2>3, <2>4, MoveTyped
  <2>6. PublicationTypeOK' /\ StoreStays /\ RegistryStays
      BY <2>5, RestOfTypes DEF Empty, PublicationInv, PublicationTypeOK
  <2>7. version'[LastPublished].status = "published" /\ LastPublished' = LastPublished
      BY <2>2, <2>6, StoreKept DEF StoreStays, Published
  <2>8. Known(a)' /\ HoldsClaim(a)' /\ Follows(a)' /\ ~Handling(a)'
      BY <2>2, <2>3, <2>5, <2>7 DEF Known, Handling, HoldsClaim, Follows
  <2> QED
      BY <2>5, <2>6, <2>8, GoesOn
<1> QED
    BY <1>1, <1>2

\* An attempt goes on with its event.
LEMMA Proceeds ==
  ASSUME PublicationInv, NEW a \in Attempt, Handling(a), NEW r \in Reply, NEW n \in Nat,
         NEW pc \in {"republish", "compare", "publish", "settle"},
         worker' = [worker EXCEPT ![a] = [worker[a] EXCEPT !.pc = pc, !.base = n, !.reply = r]]
  PROVE  /\ worker' \in [Attempt -> Worker] /\ Alone(a) /\ Handling(a)'
         /\ worker'[a].pc = pc /\ worker'[a].event = worker[a].event /\ worker'[a].event \in Version
         /\ worker'[a].gen = worker[a].gen /\ worker'[a].base = n /\ worker'[a].reply = r
<1> DEFINE w == [worker[a] EXCEPT !.pc = pc, !.base = n, !.reply = r]
<1>1. worker[a] \in Worker /\ worker[a].event \in Version
    BY DEF PublicationInv, PublicationTypeOK, AttemptsHold, Known
<1>2. /\ w \in Worker /\ w.pc = pc /\ w.event = worker[a].event /\ w.gen = worker[a].gen
      /\ w.base = n /\ w.reply = r
    BY <1>1 DEF Worker
<1> HIDE DEF w
<1>3. worker' \in [Attempt -> Worker] /\ worker'[a] = w /\ Alone(a)
    BY <1>2, MoveTyped DEF w
<1> QED
    BY <1>1, <1>2, <1>3 DEF Handling

\* It still holds its claim, if it did, as long as the event stays.
LEMMA ClaimStays ==
  ASSUME PublicationInv, NEW a \in Attempt, Handling(a), contested = {}, outbox' = outbox,
         worker'[a].event = worker[a].event, worker'[a].gen = worker[a].gen
  PROVE  HoldsClaim(a)'
BY DEF PublicationInv, AttemptsHold, HoldsClaim, ClaimHeld

LEMMA ComparedHolds ==
  ASSUME PublicationInv, NEW a \in Attempt, worker[a].pc \in {"look", "compare"}, Compared(a),
         UNCHANGED <<version, outbox, active, lease, run, live, contested, flushes, pubFaults>>
  PROVE  PublicationInv'
<1> DEFINE pc == IF active = worker[a].event THEN "settle" ELSE "publish"
<1>1. /\ worker[a] \in Worker /\ worker \in [Attempt -> Worker] /\ Handling(a)
      /\ worker[a].reply = "published" /\ worker[a].base \in Nat /\ "published" \in Reply
      /\ worker[a].event \in Version
    BY DEF PublicationInv, PublicationTypeOK, AttemptsHold, Known, Handling, Worker, Reply
<1>2. [worker[a] EXCEPT !.pc = pc] =
        [worker[a] EXCEPT !.pc = pc, !.base = worker[a].base, !.reply = "published"]
    BY <1>1 DEF Worker
<1>3. worker' = [worker EXCEPT ![a] = [worker[a] EXCEPT !.pc = pc, !.base = worker[a].base,
                                                        !.reply = "published"]]
    BY <1>1, <1>2 DEF Compared
<1>4. /\ worker' \in [Attempt -> Worker] /\ Alone(a) /\ Handling(a)'
      /\ worker'[a].pc = pc /\ worker'[a].event = worker[a].event
      /\ worker'[a].gen = worker[a].gen /\ worker'[a].reply = "published"
    BY <1>1, <1>3, Proceeds
<1>5. PublicationTypeOK' /\ StoreStays /\ RegistryStays
    BY <1>4, RestOfTypes DEF PublicationInv, PublicationTypeOK
<1>6. active = worker[a].event => worker[a].event \in live
    BY <1>1, VersionsAreNumbers DEF PublicationInv, RegistryHolds
<1>7. Known(a)'
    BY <1>1, <1>4, <1>6 DEF Known
<1>8. Follows(a)'
    BY <1>4 DEF Follows
<1> HIDE DEF pc
<1>9. contested' = {} => HoldsClaim(a)' /\ Follows(a)'
    BY <1>1, <1>4, <1>8, ClaimStays
<1> QED
    BY <1>1, <1>4, <1>5, <1>7, <1>9, GoesOn

LEMMA InspectHolds ==
  ASSUME PublicationInv, NEW a \in Attempt, Inspect(a)
  PROVE  PublicationInv'
<1> DEFINE base == version[worker[a].event].base
<1>1. CASE active = 0 /\ base # 0 /\ LastPublished = base
  <2>1. /\ worker[a] \in Worker /\ worker \in [Attempt -> Worker] /\ Handling(a)
        /\ worker[a].reply = "published" /\ "published" \in Reply /\ worker[a].event \in Version
      BY DEF PublicationInv, PublicationTypeOK, AttemptsHold, Known, Handling, Reply, Inspect
  <2>2. base \in Version /\ base \in Nat /\ base = LastPublished
      BY <1>1, TheLast, VersionsAreNumbers DEF PublicationInv, StoreHolds
  <2> HIDE DEF base
  <2>3. worker' = [worker EXCEPT ![a] = [worker[a] EXCEPT !.pc = "republish", !.base = base,
                                                          !.reply = "published"]]
    <3>1. [worker[a] EXCEPT !.pc = "republish", !.base = base] =
            [worker[a] EXCEPT !.pc = "republish", !.base = base, !.reply = "published"]
        BY <2>1 DEF Worker
    <3> QED
        BY <1>1, <2>1, <3>1 DEF Inspect, base
  <2>4. /\ worker' \in [Attempt -> Worker] /\ Alone(a) /\ Handling(a)'
        /\ worker'[a].pc = "republish" /\ worker'[a].event = worker[a].event
        /\ worker'[a].gen = worker[a].gen /\ worker'[a].base = base /\ worker'[a].reply = "published"
      BY <2>1, <2>2, <2>3, Proceeds
  <2>5. PublicationTypeOK' /\ StoreStays /\ RegistryStays
      BY <2>4, RestOfTypes DEF Inspect, PublicationInv, PublicationTypeOK
  <2>6. Known(a)'
      BY <2>1, <2>2, <2>4 DEF Known
  <2>7. Follows(a)'
    <3>1. active' = 0 /\ LastPublished' = LastPublished /\ worker'[a].event # 0
        BY <1>1, <2>1, <2>4, <2>5, StoreKept, VersionsAreNumbers DEF RegistryStays
    <3> QED
        BY <2>2, <2>4, <3>1 DEF Follows
  <2>8. contested' = {} => HoldsClaim(a)'
      BY <2>1, <2>4, ClaimStays DEF Inspect
  <2> QED
      BY <2>1, <2>4, <2>5, <2>6, <2>7, <2>8, GoesOn
<1>2. CASE ~(active = 0 /\ base # 0 /\ LastPublished = base)
    BY <1>2, ComparedHolds DEF Inspect
<1> QED
    BY <1>1, <1>2

LEMMA CompareHolds ==
  ASSUME PublicationInv, NEW a \in Attempt, Compare(a)
  PROVE  PublicationInv'
BY ComparedHolds DEF Compare

\* An event whose publication did not come to an answer is only retried.
LEMMA FailureHolds ==
  ASSUME PublicationInv, NEW a \in Attempt, RegistryFails(a)
  PROVE  PublicationInv'
<1>0. pubFaults' \in 0..MaxFaults
    BY FaultIsCounted DEF RegistryFails
<1>1. CASE Leave(a)
    BY <1>0, <1>1, Leaves, RestOfTypes, GoesToRest DEF Leave, RegistryFails, PublicationInv,
       PublicationTypeOK
<1>2. CASE /\ worker[a].pc \in {"look", "republish", "compare", "publish"}
           /\ worker' = [worker EXCEPT ![a].pc = "settle", ![a].reply = "unreachable"]
  <2>1. /\ worker[a] \in Worker /\ worker \in [Attempt -> Worker] /\ Handling(a)
        /\ "unreachable" \in Reply /\ worker[a].base \in Nat
      BY <1>2 DEF PublicationInv, PublicationTypeOK, Handling, Reply, Worker
  <2>2. worker' = [worker EXCEPT ![a] = [worker[a] EXCEPT !.pc = "settle", !.base = worker[a].base,
                                                          !.reply = "unreachable"]]
    <3>1. [worker[a] EXCEPT !.pc = "settle", !.reply = "unreachable"] =
            [worker[a] EXCEPT !.pc = "settle", !.base = worker[a].base, !.reply = "unreachable"]
        BY <2>1 DEF Worker
    <3> QED
        BY <1>2, <2>1, <3>1
  <2>3. /\ worker' \in [Attempt -> Worker] /\ Alone(a) /\ Handling(a)'
        /\ worker'[a].pc = "settle" /\ worker'[a].event = worker[a].event
        /\ worker'[a].event \in Version
        /\ worker'[a].gen = worker[a].gen /\ worker'[a].reply = "unreachable"
      BY <2>1, <2>2, Proceeds
  <2>4. PublicationTypeOK' /\ StoreStays /\ RegistryStays
      BY <1>0, <2>3, RestOfTypes DEF RegistryFails, PublicationInv, PublicationTypeOK
  <2>5. Known(a)' /\ Follows(a)'
      BY <2>3 DEF Known, Follows
  <2>6. contested' = {} => HoldsClaim(a)'
      BY <2>1, <2>3, ClaimStays DEF RegistryFails
  <2> QED
      BY <2>1, <2>3, <2>4, <2>5, <2>6, GoesOn
<1> QED
    BY <1>1, <1>2 DEF RegistryFails

-----------------------------------------------------------------------------
(* The steps that change the registry *)

\* What a script call leaves: its answer, and the active version with the history of them.
LEMMA LuaChanges ==
  ASSUME PublicationInv, NEW v \in Version, NEW e, NEW o, Lua(v, LuaReply(v, e, o))
  PROVE  /\ LuaReply(v, e, o) \in Reply \ {"unreachable"}
         /\ active' \in {active, v} /\ active' \in {0} \cup Version
         /\ active' # active => LuaReply(v, e, o) = "published"
         /\ live' \in {live, live \cup {v}} /\ live' \subseteq Version /\ live \subseteq live'
         /\ active' # 0 => active' \in live'
         /\ LuaReply(v, e, o) \in {"published", "idempotent"} => active' = v
         /\ LuaReply(v, e, o) = "published" => active = e \/ active = v
         /\ LuaReply(v, e, o) = "conflict" => active # v
BY DEF Lua, LuaReply, Reply, PublicationInv, PublicationTypeOK, RegistryHolds

LEMMA PublishHolds ==
  ASSUME PublicationInv, NEW a \in Attempt, PublishEvent(a)
  PROVE  PublicationInv'
<1> DEFINE v == worker[a].event
           r == LuaReply(v, version[v].base, version[v].owner)
<1>0. pubFaults' \in 0..MaxFaults
    BY FaultIsCounted DEF PublishEvent
<1>1. /\ worker[a] \in Worker /\ worker \in [Attempt -> Worker] /\ Handling(a)
      /\ worker[a].base \in Nat /\ v \in Version /\ v # 0
    BY VersionsAreNumbers DEF PublicationInv, PublicationTypeOK, AttemptsHold, Known, Handling,
       Worker,
       PublishEvent
<1>2. Lua(v, r)
    BY DEF PublishEvent
<1>3. /\ r \in Reply \ {"unreachable"}
      /\ active' \in {active, v} /\ active' \in {0} \cup Version
      /\ live' \in {live, live \cup {v}} /\ live' \subseteq Version /\ live \subseteq live'
      /\ active' # 0 => active' \in live'
      /\ r \in {"published", "idempotent"} => active' = v
      /\ r \notin {"published", "idempotent"} => active' = active
    BY <1>1, <1>2, LuaChanges
<1> HIDE DEF r
<1>4. PICK s \in {r, "unreachable"} :
        worker' = [worker EXCEPT ![a].pc = "settle", ![a].reply = s]
    BY DEF PublishEvent, r
<1>5. worker' = [worker EXCEPT ![a] = [worker[a] EXCEPT !.pc = "settle", !.base = worker[a].base,
                                                        !.reply = s]]
  <2>1. [worker[a] EXCEPT !.pc = "settle", !.reply = s] =
          [worker[a] EXCEPT !.pc = "settle", !.base = worker[a].base, !.reply = s]
      BY <1>1 DEF Worker
  <2> QED
      BY <1>1, <1>4, <2>1
<1>6. /\ worker' \in [Attempt -> Worker] /\ Alone(a) /\ Handling(a)'
      /\ worker'[a].pc = "settle" /\ worker'[a].event = v /\ worker'[a].gen = worker[a].gen
      /\ worker'[a].reply = s
  <2>1. s \in Reply
      BY <1>3 DEF Reply
  <2> QED
      BY <1>1, <1>5, <2>1, Proceeds
<1>7. UNCHANGED <<version, outbox, lease, run, contested, flushes>>
    BY DEF PublishEvent
<1>8. PublicationTypeOK' /\ StoreStays
    BY <1>0, <1>3, <1>6, <1>7 DEF PublicationInv, PublicationTypeOK, StoreStays
<1>9. Open' = Open /\ StoreHolds'
    BY <1>8, StoreKept DEF PublicationInv
<1> HIDE DEF v
<1>10. ASSUME contested = {} PROVE v \in Open /\ version[v].status = "validated" /\ active # v
  <2>1. v \in Open
      BY <1>1, <1>10 DEF v, PublicationInv, AttemptsHold, HoldsClaim, ClaimHeld, Open
  <2>2. active # v
      BY <1>10 DEF v, PublicationInv, AttemptsHold, Follows, PublishEvent
  <2> QED
      BY <2>1, <2>2, <1>1 DEF PublicationInv, StoreHolds, OpenIsValidated
<1>11. RegistryHolds'
  <2>1. PublishedWasLive'
      BY <1>3, <1>7 DEF PublicationInv, RegistryHolds, PublishedWasLive
  <2>2. ActiveIsAccounted'
    <3> SUFFICES ASSUME contested' = {}, active' # 0
                 PROVE  \/ version'[active'].status = "published"
                        \/ version'[active'].status = "validated" /\ active' \in Open'
        BY DEF ActiveIsAccounted
    <3> QED
        BY <1>3, <1>7, <1>9, <1>10 DEF PublicationInv, RegistryHolds, ActiveIsAccounted
  <2> QED
      BY <1>3, <2>1, <2>2 DEF RegistryHolds
<1>12. Known(a)'
    BY <1>1, <1>3, <1>6 DEF Known
<1>13. ASSUME contested' = {} PROVE HoldsClaim(a)' /\ Follows(a)'
  <2>1. HoldsClaim(a)'
      BY <1>1, <1>6, <1>7, <1>13, ClaimStays DEF v
  <2>2. Follows(a)'
      BY <1>3, <1>6, <1>7, <1>10, <1>13 DEF Follows
  <2> QED
      BY <2>1, <2>2
<1>14. ASSUME NEW b \in Attempt \ {a}
       PROVE  Known(b)' /\ (contested' = {} => HoldsClaim(b)' /\ Follows(b)')
  <2>1. worker'[b] = worker[b]
      BY <1>6 DEF Alone
  <2>2. Known(b)'
      BY <1>3, <1>8, <2>1, KnownKept DEF StoreStays
  <2>3. ASSUME contested' = {} PROVE HoldsClaim(b)' /\ Follows(b)'
    <3>1. ~Handling(b) /\ Follows(b)
        BY <1>1, <1>7, <2>3 DEF PublicationInv, AttemptsHold, OneHandles
    <3>2. worker[b].pc = "repopulate" /\ active' = 0 => active = 0 /\ LastPublished' = LastPublished
        BY <1>1, <1>3, <1>8, StoreKept
    <3> QED
        BY <2>1, <3>1, <3>2 DEF HoldsClaim, Follows, Handling
  <2> QED
      BY <2>2, <2>3
<1>15. contested' = {} => OneHandles'
    BY <1>1, <1>6, <1>7 DEF PublicationInv, AttemptsHold, OneHandles, Alone, Handling
<1> QED
    BY <1>8, <1>9, <1>11, <1>12, <1>13, <1>14, <1>15 DEF PublicationInv, AttemptsHold

LEMMA RepublishHolds ==
  ASSUME PublicationInv, NEW a \in Attempt, Republish(a)
  PROVE  PublicationInv'
<1> DEFINE v == worker[a].base
           r == LuaReply(v, 0, NoAttempt)
           pc == IF r = "conflict" THEN "settle" ELSE "compare"
           s == IF r = "conflict" THEN "conflict" ELSE "published"
<1>1. /\ worker[a] \in Worker /\ worker \in [Attempt -> Worker] /\ Handling(a)
      /\ v \in Version /\ v # 0 /\ worker[a].reply = "published" /\ worker[a].event \in Version
    BY VersionsAreNumbers DEF PublicationInv, PublicationTypeOK, AttemptsHold, Known, Handling,
       Republish
<1>2. Lua(v, r)
    BY DEF Republish
<1>3. /\ active' \in {active, v} /\ active' \in {0} \cup Version
      /\ live' \in {live, live \cup {v}} /\ live' \subseteq Version /\ live \subseteq live'
      /\ active' # 0 => active' \in live'
      /\ r = "conflict" => active' = active
    BY <1>1, <1>2, LuaChanges
<1>4. /\ worker' \in [Attempt -> Worker] /\ Alone(a) /\ Handling(a)'
      /\ worker'[a].pc = pc /\ worker'[a].event = worker[a].event /\ worker'[a].gen = worker[a].gen
      /\ worker'[a].reply = s
  <2>1. worker' = [worker EXCEPT ![a] = [worker[a] EXCEPT !.pc = pc, !.base = 0, !.reply = s]]
      BY <1>1 DEF Republish
  <2>2. s \in Reply /\ pc \in {"compare", "settle"}
      BY DEF Reply
  <2> HIDE DEF pc, s
  <2> QED
      BY <1>1, <2>1, <2>2, Proceeds
<1> HIDE DEF r
<1>5. UNCHANGED <<version, outbox, lease, run, contested, flushes, pubFaults>>
    BY DEF Republish
<1>6. PublicationTypeOK' /\ StoreStays
    BY <1>3, <1>4, <1>5 DEF PublicationInv, PublicationTypeOK, StoreStays
<1>7. Open' = Open /\ LastPublished' = LastPublished /\ StoreHolds'
    BY <1>6, StoreKept DEF PublicationInv
<1> HIDE DEF v
<1>8. ASSUME contested = {}
      PROVE  /\ version[v].status = "published" /\ v # worker[a].event /\ active # worker[a].event
  <2>1. worker[a].event \in Open /\ version[worker[a].event].status = "validated"
      BY <1>1, <1>8 DEF PublicationInv, AttemptsHold, HoldsClaim, ClaimHeld, Open, StoreHolds,
         OpenIsValidated
  <2>2. v = LastPublished /\ active # worker[a].event
      BY <1>8 DEF v, PublicationInv, AttemptsHold, Follows, Republish
  <2>3. version[v].status = "published"
      BY <1>1, <2>2, TheLast DEF PublicationInv, StoreHolds, Published
  <2> QED
      BY <2>1, <2>2, <2>3
<1>9. RegistryHolds'
  <2>1. PublishedWasLive'
      BY <1>3, <1>5 DEF PublicationInv, RegistryHolds, PublishedWasLive
  <2>2. ActiveIsAccounted'
      BY <1>3, <1>5, <1>7, <1>8 DEF PublicationInv, RegistryHolds, ActiveIsAccounted
  <2> QED
      BY <1>3, <2>1, <2>2 DEF RegistryHolds
<1>10. Known(a)'
    BY <1>1, <1>4 DEF Known
<1>11. ASSUME contested' = {} PROVE HoldsClaim(a)' /\ Follows(a)'
  <2>1. HoldsClaim(a)'
      BY <1>1, <1>4, <1>5, <1>11, ClaimStays
  <2>2. Follows(a)'
      BY <1>3, <1>4, <1>5, <1>8, <1>11 DEF Follows
  <2> QED
      BY <2>1, <2>2
<1>12. ASSUME NEW b \in Attempt \ {a}
       PROVE  Known(b)' /\ (contested' = {} => HoldsClaim(b)' /\ Follows(b)')
  <2>1. worker'[b] = worker[b]
      BY <1>4 DEF Alone
  <2>2. Known(b)'
      BY <1>3, <1>6, <2>1, KnownKept DEF StoreStays
  <2>3. ASSUME contested' = {} PROVE HoldsClaim(b)' /\ Follows(b)'
    <3>1. ~Handling(b) /\ Follows(b)
        BY <1>1, <1>5, <2>3 DEF PublicationInv, AttemptsHold, OneHandles
    <3>2. active' = 0 => active = 0
        BY <1>1, <1>3
    <3> QED
        BY <1>7, <2>1, <3>1, <3>2 DEF HoldsClaim, Follows, Handling
  <2> QED
      BY <2>2, <2>3
<1>13. contested' = {} => OneHandles'
    BY <1>1, <1>4, <1>5 DEF PublicationInv, AttemptsHold, OneHandles, Alone, Handling
<1> QED
    BY <1>6, <1>7, <1>9, <1>10, <1>11, <1>12, <1>13 DEF PublicationInv, AttemptsHold

\* A version is restored while the registry is empty, and while it is still the published one.
LEMMA RepopulateHolds ==
  ASSUME PublicationInv, NEW a \in Attempt, Repopulate(a)
  PROVE  PublicationInv'
<1> DEFINE v == worker[a].event
           r == LuaReply(v, 0, NoAttempt)
<1>1. v \in Version /\ v # 0 /\ ~Handling(a) /\ version[v].status \in {"published", "superseded"}
    BY VersionsAreNumbers DEF PublicationInv, AttemptsHold, Known, Handling, Repopulate
<1>2. Lua(v, r)
    BY DEF Repopulate
<1>3. /\ active' \in {active, v} /\ active' \in {0} \cup Version
      /\ active' # active => active = 0
      /\ live' \in {live, live \cup {v}} /\ live' \subseteq Version /\ live \subseteq live'
      /\ active' # 0 => active' \in live'
  <2>1. /\ active' \in {active, v} /\ active' \in {0} \cup Version
        /\ live' \in {live, live \cup {v}} /\ live' \subseteq Version /\ live \subseteq live'
        /\ active' # 0 => active' \in live'
      BY <1>1, <1>2, LuaChanges
  <2>2. active' # active => active = 0
      BY <1>2 DEF Lua, LuaReply
  <2> QED
      BY <2>1, <2>2
<1>4. worker' \in [Attempt -> Worker] /\ Alone(a) /\ Rests(a)'
    BY Returns, Leaves DEF Repopulate, Leave
<1>5. UNCHANGED <<version, outbox, lease, run, contested, flushes, pubFaults>>
    BY DEF Repopulate
<1>6. PublicationTypeOK' /\ StoreStays
    BY <1>3, <1>4, <1>5 DEF PublicationInv, PublicationTypeOK, StoreStays
<1>7. Open' = Open /\ LastPublished' = LastPublished /\ StoreHolds'
    BY <1>6, StoreKept DEF PublicationInv
<1> HIDE DEF r
<1>8. ASSUME contested = {}, active = 0 PROVE version[v].status = "published"
  <2>1. v = LastPublished
      BY <1>8 DEF PublicationInv, AttemptsHold, Follows, Repopulate
  <2> QED
      BY <1>1, <2>1, TheLast DEF PublicationInv, StoreHolds, Published
<1> HIDE DEF v
<1>9. RegistryHolds'
  <2>1. PublishedWasLive'
      BY <1>3, <1>5 DEF PublicationInv, RegistryHolds, PublishedWasLive
  <2>2. ActiveIsAccounted'
      BY <1>3, <1>5, <1>7, <1>8 DEF PublicationInv, RegistryHolds, ActiveIsAccounted
  <2> QED
      BY <1>3, <2>1, <2>2 DEF RegistryHolds
<1>10. Known(a)' /\ HoldsClaim(a)' /\ Follows(a)' /\ ~Handling(a)'
    BY <1>4 DEF Rests, Known, HoldsClaim, Follows, Handling
<1>11. ASSUME NEW b \in Attempt \ {a}
       PROVE  Known(b)' /\ (contested' = {} => HoldsClaim(b)' /\ Follows(b)')
  <2>1. worker'[b] = worker[b]
      BY <1>4 DEF Alone
  <2>2. Known(b)'
      BY <1>3, <1>6, <2>1, KnownKept DEF StoreStays
  <2>3. ASSUME contested' = {} PROVE HoldsClaim(b)' /\ Follows(b)'
    <3>1. HoldsClaim(b) /\ Follows(b)
        BY <1>5, <2>3 DEF PublicationInv, AttemptsHold
    <3>2. HoldsClaim(b)'
        BY <1>5, <2>1, <3>1 DEF HoldsClaim, Handling, ClaimHeld
    <3>3. CASE active' = active
        BY <1>7, <2>1, <3>1, <3>2, <3>3 DEF Follows
    <3>4. CASE active' # active
      <4>1. active = 0 /\ active' = v /\ version[v].status = "published"
          BY <1>3, <1>5, <1>8, <2>3, <3>4
      <4>2. Handling(b) => worker[b].event \in Version /\ worker[b].event # 0 /\ worker[b].event # v
        <5>1. Handling(b) => worker[b].event \in Version /\ worker[b].event \in Open
            BY <3>1 DEF HoldsClaim, ClaimHeld, Open, PublicationInv, AttemptsHold, Known
        <5> QED
            BY <4>1, <5>1, VersionsAreNumbers DEF PublicationInv, StoreHolds, OpenIsValidated
      <4> QED
          BY <1>1, <1>7, <2>1, <3>1, <3>2, <4>1, <4>2 DEF Follows, Handling
    <3> QED
        BY <3>3, <3>4
  <2> QED
      BY <2>2, <2>3
<1>12. contested' = {} => OneHandles'
  <2>1. \A b \in Attempt : Handling(b)' => Handling(b)
      BY <1>4, <1>10 DEF Alone, Handling
  <2> QED
      BY <1>5, <2>1 DEF PublicationInv, AttemptsHold, OneHandles
<1> QED
    BY <1>6, <1>7, <1>9, <1>10, <1>11, <1>12 DEF PublicationInv, AttemptsHold

\* A version that Redis loses before its acknowledgement is contested, and so is one that a
\* pass is about to restore though it was replaced.
LEMMA FlushHolds ==
  ASSUME PublicationInv, Flush
  PROVE  PublicationInv'
<1>1. /\ active' = 0 /\ contested \subseteq contested'
      /\ UNCHANGED <<version, outbox, run, worker, live, pubFaults>>
      /\ contested' = {} => contested = {} /\ active \notin Open /\ Restoring \subseteq {LastPublished}
    BY DEF Flush
<1>2. PublicationTypeOK' /\ StoreStays
  <2>1. Open \subseteq Version /\ Restoring \subseteq Version
      BY DEF Open, Restoring, PublicationInv, AttemptsHold, Known
  <2> QED
      BY <2>1, PublicationAssumption DEF Flush, PublicationInv, PublicationTypeOK, StoreStays
<1>3. LastPublished' = LastPublished /\ StoreHolds'
    BY <1>2, StoreKept DEF PublicationInv
<1>4. RegistryHolds'
    BY <1>1 DEF PublicationInv, RegistryHolds, PublishedWasLive, ActiveIsAccounted
<1>5. \A a \in Attempt : Known(a)'
    BY <1>1 DEF PublicationInv, AttemptsHold, Known, Handling
<1>6. ASSUME contested' = {}, NEW a \in Attempt PROVE HoldsClaim(a)' /\ Follows(a)'
  <2>1. HoldsClaim(a) /\ Follows(a)
      BY <1>1, <1>6 DEF PublicationInv, AttemptsHold
  <2>2. HoldsClaim(a)'
      BY <1>1, <2>1 DEF HoldsClaim, Handling, ClaimHeld
  <2>3. Handling(a) => worker[a].event \in Open /\ worker[a].event # 0
      BY <2>1, VersionsAreNumbers DEF HoldsClaim, ClaimHeld, Open, PublicationInv, AttemptsHold,
         Known
  <2>4. worker[a].pc = "repopulate" => worker[a].event = LastPublished
      BY <1>1, <1>6 DEF Restoring
  <2>5. Follows(a)'
      BY <1>1, <1>3, <1>6, <2>1, <2>3, <2>4 DEF Follows, Handling
  <2> QED
      BY <2>2, <2>5
<1>7. contested' = {} => OneHandles'
    BY <1>1 DEF PublicationInv, AttemptsHold, OneHandles, Handling
<1> QED
    BY <1>2, <1>3, <1>4, <1>5, <1>6, <1>7 DEF PublicationInv, AttemptsHold

-----------------------------------------------------------------------------
(* The steps that change the store *)

\* Events in hand are the oldest open ones, and not to be claimed.
LEMMA InHandIsOldest ==
  ASSUME PublicationInv, contested = {}, NEW a \in Attempt, Handling(a)
  PROVE  /\ worker[a].event \in Open /\ outbox[worker[a].event].status = "processing"
         /\ ~outbox[worker[a].event].ready /\ worker[a].gen = outbox[worker[a].event].gen
         /\ \A v \in Open : worker[a].event <= v
<1>1. /\ worker[a].event \in Version /\ outbox[worker[a].event].status = "processing"
      /\ ~outbox[worker[a].event].ready /\ worker[a].gen = outbox[worker[a].event].gen
    BY DEF PublicationInv, AttemptsHold, HoldsClaim, ClaimHeld, Known
<1>2. ASSUME NEW v \in Open PROVE ~(v < worker[a].event)
    BY <1>1 DEF PublicationInv, StoreHolds, ClaimedInOrder, Open
<1>3. \A v \in Open : v \in Nat /\ worker[a].event \in Nat
    BY <1>1, VersionsAreNumbers DEF Open
<1> QED
    BY <1>1, <1>2, <1>3 DEF Open

LEMMA ClaimHolds ==
  ASSUME PublicationInv, NEW a \in Attempt, Claim(a)
  PROVE  PublicationInv'
<1>0. /\ worker[a] \in Worker /\ worker \in [Attempt -> Worker] /\ ~Handling(a)
      /\ worker[a].pc = "claim" /\ worker[a].reply = "published"
      /\ UNCHANGED <<version, active, lease, run, live, contested, flushes, pubFaults>>
    BY DEF Claim, PublicationInv, PublicationTypeOK, AttemptsHold, Known, Handling
<1>1. CASE ~(Open # {} /\ Claimable(Min(Open)))
  <2>1. UNCHANGED outbox /\ worker' = [worker EXCEPT ![a].pc = "empty"]
      BY <1>1 DEF Claim, MoveTo
  <2>2. worker' \in [Attempt -> Worker] /\ Alone(a) /\ Rests(a)'
      BY <1>0, <2>1, Moves
  <2> QED
      BY <1>0, <2>1, <2>2, RestOfTypes, GoesToRest DEF PublicationInv, PublicationTypeOK
<1>2. CASE Open # {} /\ Claimable(Min(Open))
  <2> DEFINE v == Min(Open)
             row == [status |-> "processing", gen |-> outbox[v].gen + 1, ready |-> FALSE]
             w == [worker[a] EXCEPT !.pc = "look", !.event = v, !.gen = outbox[v].gen + 1]
  <2>1. v \in Open /\ v \in Version /\ \A u \in Open : v <= u
    <3>1. Open \in SUBSET Nat /\ Open \subseteq Version
        BY VersionsAreNumbers DEF Open
    <3> QED
        BY <1>2, <3>1, LeastIsOne
  <2>2. outbox' = [outbox EXCEPT ![v] = row] /\ worker' = [worker EXCEPT ![a] = w]
      BY <1>0, <1>2 DEF Claim
  <2>3. outbox[v].ready
      BY <1>2 DEF Claimable
  <2> HIDE DEF v
  <2>4. /\ row \in OutboxRow /\ row.status = "processing" /\ row.gen = outbox[v].gen + 1
        /\ ~row.ready /\ outbox \in [Version -> OutboxRow] /\ outbox[v].gen + 1 \in Nat
      BY <2>1 DEF PublicationInv, PublicationTypeOK, OutboxRow, OutboxStatus
  <2>5. w \in Worker /\ w.pc = "look" /\ w.event = v /\ w.gen = row.gen /\ w.reply = "published"
      BY <1>0, <2>1, <2>4, VersionsAreNumbers DEF Worker
  <2> HIDE DEF row, w
  <2>6. worker' \in [Attempt -> Worker] /\ worker'[a] = w /\ Alone(a)
      BY <2>2, <2>5, MoveTyped
  <2>7. /\ outbox' \in [Version -> OutboxRow] /\ outbox'[v] = row
        /\ \A u \in Version \ {v} : outbox'[u] = outbox[u]
      BY <2>1, <2>2, <2>4
  <2>8. PublicationTypeOK'
      BY <1>0, <2>6, <2>7 DEF PublicationInv, PublicationTypeOK
  <2>9. Open' = Open
      BY <2>1, <2>4, <2>7 DEF Open
  <2>10. Published' = Published /\ LastPublished' = LastPublished
    <3>1. Published' = Published
        BY <1>0 DEF Published
    <3> QED
        BY <3>1 DEF LastPublished
  <2>11. StoreHolds'
    <3>1. Numbered'
        BY <1>0, <2>1, <2>4, <2>7 DEF PublicationInv, StoreHolds, Numbered, Open
    <3>2. OpenIsValidated' /\ OnlyOne'
        BY <1>0, <2>9, <2>10 DEF PublicationInv, StoreHolds, OpenIsValidated, OnlyOne
    <3>3. ClaimedInOrder'
      <4> SUFFICES ASSUME NEW x \in Version, NEW y \in Version, x < y, x \in Open
                   PROVE  /\ version[y].status \in {"absent", "validated"}
                          /\ outbox'[y].status \in {"absent", "pending"}
          BY <1>0, <2>9 DEF ClaimedInOrder
      <4>1. y # v
          BY <2>1, VersionsAreNumbers
      <4> QED
          BY <2>7, <4>1 DEF PublicationInv, StoreHolds, ClaimedInOrder
    <3> QED
        BY <3>1, <3>2, <3>3 DEF StoreHolds
  <2>12. RegistryHolds'
      BY <1>0, <2>9 DEF PublicationInv, RegistryHolds, PublishedWasLive, ActiveIsAccounted
  <2>13. ASSUME contested = {} PROVE \A b \in Attempt : ~Handling(b)
    <3> SUFFICES ASSUME NEW b \in Attempt, Handling(b) PROVE FALSE
        OBVIOUS
    <3>1. /\ worker[b].event \in Open /\ ~outbox[worker[b].event].ready
          /\ \A u \in Open : worker[b].event <= u
        BY <2>13, InHandIsOldest
    <3>2. worker[b].event \in Nat /\ v \in Nat
        BY <2>1, <3>1, VersionsAreNumbers DEF Open
    <3>3. worker[b].event <= v /\ v <= worker[b].event
        BY <2>1, <3>1
    <3> QED
        BY <2>3, <3>1, <3>2, <3>3
  <2>14. Known(a)' /\ HoldsClaim(a)' /\ Follows(a)'
      BY <2>1, <2>4, <2>5, <2>6, <2>7 DEF Known, HoldsClaim, ClaimHeld, Follows, Handling
  <2>15. ASSUME NEW b \in Attempt \ {a}
         PROVE  Known(b)' /\ (contested' = {} => ~Handling(b)' /\ HoldsClaim(b)' /\ Follows(b)')
    <3>1. worker'[b] = worker[b]
        BY <2>6 DEF Alone
    <3>2. Known(b)'
        BY <1>0, <3>1, KnownKept
    <3>3. contested' = {} => ~Handling(b) /\ Follows(b)
        BY <1>0, <2>13 DEF PublicationInv, AttemptsHold
    <3> QED
        BY <1>0, <2>10, <3>1, <3>2, <3>3 DEF HoldsClaim, Follows, Handling
  <2>16. AttemptsHold'
      BY <2>14, <2>15 DEF AttemptsHold, OneHandles
  <2> QED
      BY <2>8, <2>11, <2>12, <2>16 DEF PublicationInv
<1> QED
    BY <1>1, <1>2

LEMMA ReadyHolds ==
  ASSUME PublicationInv, NEW v \in Version, BecomesReady(v)
  PROVE  PublicationInv'
<1>0. /\ v \in Open /\ ~outbox[v].ready /\ outbox \in [Version -> OutboxRow]
      /\ UNCHANGED <<version, active, lease, run, worker, live, flushes>>
      /\ contested \subseteq contested' /\ contested' \subseteq Version
      /\ contested' = {} => ~(outbox[v].status = "processing" /\ InHands(v))
    BY DEF BecomesReady, PublicationInv, PublicationTypeOK
<1>1. /\ outbox' \in [Version -> OutboxRow]
      /\ \A u \in Version : outbox'[u].status = outbox[u].status /\ outbox'[u].gen = outbox[u].gen
      /\ \A u \in Version \ {v} : outbox'[u] = outbox[u]
  <2>1. [outbox[v] EXCEPT !.ready = TRUE] \in OutboxRow
      BY <1>0 DEF OutboxRow
  <2>2. outbox' = [outbox EXCEPT ![v] = [outbox[v] EXCEPT !.ready = TRUE]]
      BY <1>0 DEF BecomesReady
  <2>3. /\ [outbox[v] EXCEPT !.ready = TRUE].status = outbox[v].status
        /\ [outbox[v] EXCEPT !.ready = TRUE].gen = outbox[v].gen
      BY <1>0 DEF OutboxRow
  <2> QED
      BY <1>0, <2>1, <2>2, <2>3
<1>2. pubFaults' \in 0..MaxFaults
    BY FaultIsCounted DEF BecomesReady
<1>3. PublicationTypeOK'
    BY <1>0, <1>1, <1>2 DEF PublicationInv, PublicationTypeOK
<1>4. Open' = Open /\ Published' = Published /\ LastPublished' = LastPublished
  <2>1. Open' = Open
      BY <1>1 DEF Open
  <2>2. Published' = Published
      BY <1>0 DEF Published
  <2> QED
      BY <2>1, <2>2 DEF LastPublished
<1>5. StoreHolds'
    BY <1>0, <1>1, <1>4 DEF PublicationInv, StoreHolds, Numbered, OpenIsValidated, ClaimedInOrder,
       OnlyOne
<1>6. RegistryHolds'
    BY <1>0, <1>4 DEF PublicationInv, RegistryHolds, PublishedWasLive, ActiveIsAccounted
<1>7. \A a \in Attempt : Known(a)'
    BY <1>0 DEF PublicationInv, AttemptsHold, Known, Handling
<1>8. ASSUME contested' = {}, NEW a \in Attempt PROVE HoldsClaim(a)' /\ Follows(a)'
  <2>0. contested = {}
      BY <1>0, <1>8
  <2>1. HoldsClaim(a)'
    <3> SUFFICES ASSUME Handling(a) PROVE (ClaimHeld(a) /\ ~outbox[worker[a].event].ready)'
        BY <1>0 DEF HoldsClaim, Handling
    <3>1. /\ worker[a].event \in Open /\ outbox[worker[a].event].status = "processing"
          /\ ~outbox[worker[a].event].ready /\ worker[a].gen = outbox[worker[a].event].gen
        BY <2>0, InHandIsOldest
    <3>2. worker[a].event # v
        BY <1>0, <1>8, <3>1 DEF InHands, Handling
    <3> QED
        BY <1>0, <1>1, <3>1, <3>2 DEF ClaimHeld, Open
  <2>2. Follows(a)'
      BY <1>0, <1>4, <2>0 DEF PublicationInv, AttemptsHold, Follows
  <2> QED
      BY <2>1, <2>2
<1>9. contested' = {} => OneHandles'
    BY <1>0 DEF PublicationInv, AttemptsHold, OneHandles, Handling
<1> QED
    BY <1>3, <1>5, <1>6, <1>7, <1>8, <1>9 DEF PublicationInv, AttemptsHold

\* What a settlement in time does to the other versions, and to its own event and version.
OthersFollow(e, r) ==
  \A u \in Version \ {e} :
    /\ outbox'[u] = outbox[u]
    /\ \/ version'[u].status = version[u].status /\ version[u].status # "published"
       \/ /\ version[u].status = "published"
          /\ version'[u].status =
               IF r \in {"published", "idempotent"} THEN "superseded" ELSE "published"

EventLeaves(e, r) ==
  \/ /\ r \in {"published", "idempotent"}
     /\ version'[e].status = "published" /\ outbox'[e].status = "completed"
  \/ /\ r = "conflict"
     /\ version'[e].status = "publication_failed" /\ outbox'[e].status = "conflict"
  \/ r = "lease_lost" /\ version'[e].status = "cancelled" /\ outbox'[e].status = "cancelled"
  \/ r = "unreachable" /\ version'[e].status = "validated" /\ outbox'[e].status = "pending"

LEMMA SettlementChanges ==
  ASSUME PublicationInv, NEW e \in Version, outbox[e].status = "processing", NEW r \in Reply,
         SettledAs(e, r)
  PROVE  /\ version' \in [Version -> VersionRow] /\ outbox' \in [Version -> OutboxRow]
         /\ OthersFollow(e, r) /\ EventLeaves(e, r)
<1>1. /\ version \in [Version -> VersionRow] /\ outbox \in [Version -> OutboxRow]
      /\ version[e] \in VersionRow /\ outbox[e] \in OutboxRow /\ version[e].status = "validated"
    BY DEF PublicationInv, PublicationTypeOK, StoreHolds, OpenIsValidated, Open
<1> DEFINE V(s) == [version EXCEPT ![e].status = s]
           O(s) == [outbox EXCEPT ![e].status = s]
<1>2. ASSUME NEW s \in VersionStatus
      PROVE  /\ V(s) \in [Version -> VersionRow] /\ V(s)[e].status = s
             /\ \A u \in Version \ {e} : V(s)[u] = version[u]
  <2>1. [version[e] EXCEPT !.status = s] \in VersionRow /\ [version[e] EXCEPT !.status = s].status = s
      BY <1>1 DEF VersionRow
  <2> QED
      BY <1>1, <2>1
<1>3. ASSUME NEW s \in OutboxStatus
      PROVE  /\ O(s) \in [Version -> OutboxRow] /\ O(s)[e].status = s
             /\ \A u \in Version \ {e} : O(s)[u] = outbox[u]
  <2>1. [outbox[e] EXCEPT !.status = s] \in OutboxRow /\ [outbox[e] EXCEPT !.status = s].status = s
      BY <1>1 DEF OutboxRow
  <2> QED
      BY <1>1, <2>1
<1>4. CASE r \in {"published", "idempotent"}
  <2>1. version' = Acknowledged(e) /\ outbox' = O("completed")
      BY <1>4 DEF SettledAs
  <2>2. \A u \in Version : /\ [version[u] EXCEPT !.status = "published"] \in VersionRow
                           /\ [version[u] EXCEPT !.status = "superseded"] \in VersionRow
                           /\ [version[u] EXCEPT !.status = "published"].status = "published"
                           /\ [version[u] EXCEPT !.status = "superseded"].status = "superseded"
      BY <1>1 DEF VersionRow, VersionStatus
  <2>3. /\ version' \in [Version -> VersionRow] /\ version'[e].status = "published"
        /\ \A u \in Version \ {e} : IF version[u].status = "published"
                                    THEN version'[u].status = "superseded"
                                    ELSE version'[u] = version[u]
      BY <1>1, <2>1, <2>2 DEF Acknowledged
  <2>4. "completed" \in OutboxStatus
      BY DEF OutboxStatus
  <2> HIDE DEF O
  <2> QED
      BY <1>3, <1>4, <2>1, <2>3, <2>4 DEF OthersFollow, EventLeaves
<1>5. CASE r = "conflict"
  <2>1. version' = V("publication_failed") /\ outbox' = O("conflict")
      BY <1>5 DEF SettledAs
  <2>2. "publication_failed" \in VersionStatus /\ "conflict" \in OutboxStatus
      BY DEF VersionStatus, OutboxStatus
  <2> HIDE DEF V, O
  <2> QED
      BY <1>2, <1>3, <1>5, <2>1, <2>2 DEF OthersFollow, EventLeaves
<1>6. CASE r = "lease_lost"
  <2>1. version' = V("cancelled") /\ outbox' = O("cancelled")
      BY <1>1, <1>6 DEF SettledAs
  <2>2. "cancelled" \in VersionStatus /\ "cancelled" \in OutboxStatus
      BY DEF VersionStatus, OutboxStatus
  <2> HIDE DEF V, O
  <2> QED
      BY <1>2, <1>3, <1>6, <2>1, <2>2 DEF OthersFollow, EventLeaves
<1>7. CASE r = "unreachable"
  <2>1. version' = version /\ outbox' = [outbox EXCEPT ![e].status = "pending", ![e].ready = FALSE]
      BY <1>7 DEF SettledAs
  <2>2. /\ [outbox[e] EXCEPT !.status = "pending", !.ready = FALSE] \in OutboxRow
        /\ [outbox[e] EXCEPT !.status = "pending", !.ready = FALSE].status = "pending"
      BY <1>1 DEF OutboxRow, OutboxStatus
  <2>3. outbox' = [outbox EXCEPT ![e] = [outbox[e] EXCEPT !.status = "pending", !.ready = FALSE]]
      BY <1>1, <2>1
  <2> QED
      BY <1>1, <1>7, <2>1, <2>2, <2>3 DEF OthersFollow, EventLeaves
<1> QED
    BY <1>4, <1>5, <1>6, <1>7 DEF Reply

LEMMA SettleHolds ==
  ASSUME PublicationInv, NEW a \in Attempt, Settle(a)
  PROVE  PublicationInv'
<1> DEFINE e == worker[a].event
           r == worker[a].reply
           ok == r \in {"published", "idempotent"}
<1>0. /\ worker' \in [Attempt -> Worker] /\ Alone(a) /\ Rests(a)'
      /\ UNCHANGED <<active, lease, run, live, contested, flushes, pubFaults>>
    BY Returns DEF Settle
<1>1. CASE ~ClaimHeld(a)
    BY <1>0, <1>1, RestOfTypes, GoesToRest DEF Settle, PublicationInv, PublicationTypeOK
<1>2. CASE ClaimHeld(a)
  <2>1. /\ e \in Version /\ e # 0 /\ r \in Reply /\ outbox[e].status = "processing" /\ Handling(a)
        /\ worker[a].pc = "settle"
        /\ ok => e \in live
      BY <1>2, VersionsAreNumbers DEF Settle, ClaimHeld, PublicationInv, PublicationTypeOK,
         Worker,
         AttemptsHold, Known, Handling
  <2>2. /\ version' \in [Version -> VersionRow] /\ outbox' \in [Version -> OutboxRow]
        /\ OthersFollow(e, r) /\ EventLeaves(e, r)
    <3>1. SettledAs(e, r)
        BY <1>2 DEF Settle
    <3> HIDE DEF e, r
    <3> QED
        BY <2>1, <3>1, SettlementChanges
  <2>3. version[e].status = "validated" /\ e \in Open
      BY <2>1 DEF PublicationInv, StoreHolds, OpenIsValidated, Open
  <2>4. EventLeaves(e, r)
      BY <2>2
  <2>5. PublicationTypeOK'
      BY <1>0, <2>2 DEF PublicationInv, PublicationTypeOK
  <2>6. contested = {} => Follows(a) /\ \A b \in Attempt \ {a} : ~Handling(b)
      BY <2>1 DEF PublicationInv, AttemptsHold, OneHandles
  <2>7. ASSUME contested = {}
        PROVE  (ok => active = e) /\ (r \in {"conflict", "lease_lost"} => active # e)
    <3>1. Follows(a)
        BY <2>6, <2>7
    <3> QED
        BY <2>1, <3>1 DEF Follows
  <2> HIDE DEF e, r
  <2>8. Open' \subseteq Open /\ Open \subseteq Open' \cup {e} /\ (r = "unreachable" => e \in Open')
      BY <2>1, <2>2, <2>3, <2>4 DEF Open, OthersFollow, EventLeaves
  <2>9. IF ok THEN Published' = {e} ELSE Published' = Published
    <3>1. CASE ok
        BY <2>1, <2>2, <2>4, <3>1 DEF Published, OthersFollow, EventLeaves
    <3>2. CASE ~ok
        BY <2>1, <2>2, <2>3, <2>4, <3>2 DEF Published, OthersFollow, EventLeaves
    <3> QED
        BY <3>1, <3>2
  <2>10. StoreHolds'
    <3>1. Numbered'
      <4>1. \A u \in Version : /\ version'[u].status = "absent" <=> version[u].status = "absent"
                               /\ outbox'[u].status = "absent" <=> outbox[u].status = "absent"
          BY <2>1, <2>2, <2>3, <2>4 DEF OthersFollow, EventLeaves
      <4> QED
          BY <4>1 DEF PublicationInv, StoreHolds, Numbered
    <3>2. OpenIsValidated'
      <4> SUFFICES ASSUME NEW u \in Version, u \in Open' PROVE version'[u].status = "validated"
          BY DEF OpenIsValidated
      <4>1. version[u].status = "validated"
          BY <2>8 DEF PublicationInv, StoreHolds, OpenIsValidated
      <4> QED
          BY <2>2, <2>4, <4>1 DEF Open, OthersFollow, EventLeaves
    <3>3. ClaimedInOrder'
      <4> SUFFICES ASSUME NEW x \in Version, NEW y \in Version, x < y, x \in Open'
                   PROVE  /\ version'[y].status \in {"absent", "validated"}
                          /\ outbox'[y].status \in {"absent", "pending"}
          BY DEF ClaimedInOrder
      <4>1. /\ version[y].status \in {"absent", "validated"}
            /\ outbox[y].status \in {"absent", "pending"}
          BY <2>8 DEF PublicationInv, StoreHolds, ClaimedInOrder
      <4> QED
          BY <2>1, <2>2, <4>1 DEF OthersFollow
    <3>4. OnlyOne'
        BY <2>9 DEF PublicationInv, StoreHolds, OnlyOne
    <3> QED
        BY <3>1, <3>2, <3>3, <3>4 DEF StoreHolds
  <2>11. \A u \in Version : version[u].status \in {"published", "superseded"} =>
                              version'[u].status \in {"published", "superseded"}
      BY <2>2, <2>3, <2>4 DEF OthersFollow, EventLeaves
  <2>12. RegistryHolds'
    <3>1. PublishedWasLive'
      <4> SUFFICES ASSUME NEW u \in Version, version'[u].status \in {"published", "superseded"}
                   PROVE  u \in live
          BY <1>0 DEF PublishedWasLive
      <4>1. CASE u = e
          BY <2>1, <2>4, <4>1 DEF EventLeaves
      <4>2. CASE u # e
        <5>1. version[u].status \in {"published", "superseded"}
            BY <2>2, <4>2 DEF OthersFollow
        <5> QED
            BY <5>1 DEF PublicationInv, RegistryHolds, PublishedWasLive
      <4> QED
          BY <4>1, <4>2
    <3>2. ActiveIsAccounted'
      <4> SUFFICES ASSUME contested = {}, active # 0
                   PROVE  \/ version'[active].status = "published"
                          \/ version'[active].status = "validated" /\ active \in Open'
          BY <1>0 DEF ActiveIsAccounted
      <4>0. active \in Version
          BY DEF PublicationInv, PublicationTypeOK
      <4>1. CASE active = e
          BY <2>4, <2>7, <2>8, <4>1 DEF EventLeaves
      <4>2. CASE active # e
        <5>1. ~ok
            BY <2>7, <4>2
        <5> QED
            BY <2>2, <2>8, <4>0, <4>2, <5>1 DEF PublicationInv, RegistryHolds, ActiveIsAccounted,
               OthersFollow
      <4> QED
          BY <4>1, <4>2
    <3> QED
        BY <1>0, <3>1, <3>2 DEF PublicationInv, RegistryHolds
  <2>13. Known(a)' /\ HoldsClaim(a)' /\ Follows(a)' /\ ~Handling(a)'
      BY <1>0 DEF Rests, Known, HoldsClaim, Follows, Handling
  <2>14. ASSUME NEW b \in Attempt \ {a}
         PROVE  Known(b)' /\ (contested' = {} => ~Handling(b)' /\ HoldsClaim(b)' /\ Follows(b)')
    <3>1. worker'[b] = worker[b]
        BY <1>0 DEF Alone
    <3>2. Known(b)'
        BY <1>0, <2>11, <3>1, KnownKept
    <3>3. ASSUME contested' = {} PROVE ~Handling(b)' /\ HoldsClaim(b)' /\ Follows(b)'
      <4>1. ~Handling(b) /\ Follows(b)
          BY <1>0, <2>6, <3>3 DEF PublicationInv, AttemptsHold
      <4>2. active = 0 => LastPublished' = LastPublished
          BY <1>0, <2>1, <2>7, <2>9, <3>3 DEF LastPublished
      <4> QED
          BY <1>0, <3>1, <4>1, <4>2 DEF HoldsClaim, Follows, Handling
    <3> QED
        BY <3>2, <3>3
  <2>15. AttemptsHold'
      BY <2>13, <2>14 DEF AttemptsHold, OneHandles
  <2> QED
      BY <2>5, <2>10, <2>12, <2>15 DEF PublicationInv
<1> QED
    BY <1>1, <1>2

LEMMA StoreVersionHolds ==
  ASSUME PublicationInv, NEW a \in Attempt, StoreVersion(a)
  PROVE  PublicationInv'
<1> DEFINE free == {v \in Version : version[v].status = "absent"}
<1>0. /\ worker[a] \in Worker /\ worker \in [Attempt -> Worker] /\ ~Handling(a)
      /\ worker[a].reply = "published" /\ worker[a].base \in Nat
      /\ UNCHANGED <<active, lease, run, live, contested, flushes, pubFaults>>
    BY DEF StoreVersion, PublicationInv, PublicationTypeOK, AttemptsHold, Known, Handling, Worker
<1>1. CASE ~(a \in run /\ free # {})
    BY <1>0, <1>1, Leaves, RestOfTypes, GoesToRest DEF StoreVersion, Leave, PublicationInv,
       PublicationTypeOK
<1>2. CASE a \in run /\ free # {}
  <2> DEFINE v == Min(free)
             row == [status |-> "validated", owner |-> a, base |-> worker[a].base]
             event == [status |-> "pending", gen |-> 0, ready |-> TRUE]
             w == [worker[a] EXCEPT !.pc = "owned", !.own = v, !.base = 0]
  <2>1. /\ v \in Version /\ v # 0 /\ v \in Nat /\ version[v].status = "absent"
        /\ \A u \in Version : version[u].status = "absent" => v <= u
    <3>1. free \in SUBSET Nat
        BY VersionsAreNumbers
    <3>2. v \in free /\ \A u \in free : v <= u
        BY <1>2, <3>1, LeastIsOne
    <3> QED
        BY <3>2, VersionsAreNumbers
  <2>2. /\ version' = [version EXCEPT ![v] = row] /\ outbox' = [outbox EXCEPT ![v] = event]
        /\ worker' = [worker EXCEPT ![a] = w]
      BY <1>0, <1>2 DEF StoreVersion
  <2> HIDE DEF v
  <2>3. /\ row \in VersionRow /\ row.status = "validated" /\ event \in OutboxRow
        /\ event.status = "pending" /\ w \in Worker /\ w.pc = "owned" /\ w.reply = "published"
      BY <1>0, <2>1 DEF VersionRow, VersionStatus, OutboxRow, OutboxStatus, Worker
  <2> HIDE DEF row, event, w
  <2>4. worker' \in [Attempt -> Worker] /\ Alone(a) /\ Rests(a)'
      BY <2>2, <2>3, MoveTyped DEF Rests, Handling
  <2>5. /\ version' \in [Version -> VersionRow] /\ version'[v] = row
        /\ outbox' \in [Version -> OutboxRow] /\ outbox'[v] = event
        /\ \A u \in Version \ {v} : version'[u] = version[u] /\ outbox'[u] = outbox[u]
      BY <2>1, <2>2, <2>3 DEF PublicationInv, PublicationTypeOK
  <2>6. PublicationTypeOK'
      BY <1>0, <2>4, <2>5 DEF PublicationInv, PublicationTypeOK
  <2>7. Open' = Open \cup {v}
      BY <2>1, <2>3, <2>5 DEF Open
  <2>8. Published' = Published /\ LastPublished' = LastPublished
    <3>1. Published' = Published
        BY <2>1, <2>3, <2>5 DEF Published
    <3> QED
        BY <3>1 DEF LastPublished
  <2>9. StoreHolds'
    <3>1. Numbered'
      <4>1. \A u \in Version : version'[u].status = "absent" <=> outbox'[u].status = "absent"
          BY <2>3, <2>5 DEF PublicationInv, StoreHolds, Numbered
      <4>2. ASSUME NEW x \in Version, NEW y \in Version, x < y, version'[x].status = "absent"
            PROVE  version'[y].status = "absent"
        <5>1. version[x].status = "absent" /\ v <= x
            BY <2>1, <2>3, <2>5, <4>2
        <5>2. y # v
            BY <2>1, <4>2, <5>1, VersionsAreNumbers
        <5> QED
            BY <2>5, <4>2, <5>1, <5>2 DEF PublicationInv, StoreHolds, Numbered
      <4> QED
          BY <4>1, <4>2 DEF Numbered
    <3>2. OpenIsValidated' /\ OnlyOne'
        BY <2>3, <2>5, <2>7, <2>8 DEF PublicationInv, StoreHolds, OpenIsValidated, OnlyOne
    <3>3. ClaimedInOrder'
      <4> SUFFICES ASSUME NEW x \in Version, NEW y \in Version, x < y, x \in Open'
                   PROVE  /\ version'[y].status \in {"absent", "validated"}
                          /\ outbox'[y].status \in {"absent", "pending"}
          BY DEF ClaimedInOrder
      <4>1. CASE y = v
          BY <2>3, <2>5, <4>1
      <4>2. CASE y # v /\ x = v
          BY <2>1, <2>5, <4>2 DEF PublicationInv, StoreHolds, Numbered
      <4>3. CASE y # v /\ x # v
          BY <2>5, <2>7, <4>3 DEF PublicationInv, StoreHolds, ClaimedInOrder
      <4> QED
          BY <4>1, <4>2, <4>3
    <3> QED
        BY <3>1, <3>2, <3>3 DEF StoreHolds
  <2>10. RegistryHolds'
    <3>1. PublishedWasLive'
        BY <1>0, <2>3, <2>5 DEF PublicationInv, RegistryHolds, PublishedWasLive
    <3>2. ActiveIsAccounted'
      <4>1. active # 0 => active \in Version
          BY DEF PublicationInv, PublicationTypeOK
      <4> QED
          BY <1>0, <2>1, <2>5, <2>7, <4>1 DEF PublicationInv, RegistryHolds, ActiveIsAccounted
    <3> QED
        BY <1>0, <3>1, <3>2 DEF PublicationInv, RegistryHolds
  <2>11. Known(a)' /\ HoldsClaim(a)' /\ Follows(a)' /\ ~Handling(a)'
      BY <2>4 DEF Rests, Known, HoldsClaim, Follows, Handling
  <2>12. ASSUME NEW b \in Attempt \ {a}
         PROVE  Known(b)' /\ (contested' = {} => HoldsClaim(b)' /\ Follows(b)')
    <3>1. worker'[b] = worker[b]
        BY <2>4 DEF Alone
    <3>2. Known(b)'
        BY <1>0, <2>1, <2>5, <3>1, KnownKept
    <3>3. ASSUME contested' = {} PROVE HoldsClaim(b)' /\ Follows(b)'
      <4>1. HoldsClaim(b) /\ Follows(b)
          BY <1>0, <3>3 DEF PublicationInv, AttemptsHold
      <4>2. outbox[v].status = "absent"
          BY <2>1 DEF PublicationInv, StoreHolds, Numbered
      <4>3. Handling(b) => outbox'[worker[b].event] = outbox[worker[b].event]
          BY <2>5, <4>1, <4>2 DEF HoldsClaim, ClaimHeld, PublicationInv, AttemptsHold, Known
      <4>4. HoldsClaim(b)'
          BY <3>1, <4>1, <4>3 DEF HoldsClaim, ClaimHeld, Handling
      <4>5. Follows(b)'
          BY <1>0, <2>8, <3>1, <4>1 DEF Follows
      <4> QED
          BY <4>4, <4>5
    <3> QED
        BY <3>2, <3>3
  <2>13. contested' = {} => OneHandles'
    <3>1. \A b \in Attempt : Handling(b)' => Handling(b)
        BY <2>4, <2>11 DEF Alone, Handling
    <3> QED
        BY <1>0, <3>1 DEF PublicationInv, AttemptsHold, OneHandles
  <2> QED
      BY <2>6, <2>9, <2>10, <2>11, <2>12, <2>13 DEF PublicationInv, AttemptsHold
<1> QED
    BY <1>1, <1>2

LEMMA PublicationGoes ==
  ASSUME PublicationInv, PubNext
  PROVE  PublicationInv'
<1>1. ASSUME NEW a \in Attempt, Step(a) PROVE PublicationInv'
    BY <1>1, ClaimHolds, EmptyHolds, RepopulateHolds, InspectHolds, RepublishHolds, CompareHolds,
       PublishHolds, SettleHolds, TickHolds, StoreVersionHolds DEF Step
<1>2. ASSUME NEW a \in Attempt, Acquire(a) \/ RegistryFails(a) \/ Die(a) PROVE PublicationInv'
    BY <1>2, AcquireHolds, FailureHolds, TickHolds
<1> QED
    BY <1>1, <1>2, ReadyHolds, LeaseHolds, FlushHolds DEF PubNext

\* The store and the registry agree on what is published, whatever dies, expires, comes late
\* or is lost, but for the contested versions (reconcile_registry, PUBLISH_LUA and the outbox).
THEOREM PublicationHolds == PubSpec => []PublicationSafe
<1>1. PublicationInv /\ [PubNext]_pubVars => PublicationInv'
    BY PublicationGoes, PublicationRests
<1> QED
    BY <1>1, PublicationStarts, InvIsSafe, PTL DEF PubSpec
===============================================================================
