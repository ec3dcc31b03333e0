----------------------------- MODULE DispatchProofs -----------------------------
(***************************************************************************)
(* What Central's queue promises, for any number of subtasks, devices and  *)
(* accounts (CentralDispatch, LeasesSafe, DependentsWait, FencedQueue).    *)
(***************************************************************************)
EXTENDS CentralDispatch, FiniteSetTheorems, WellFoundedInduction, TLAPS

LEMMA Constants ==
  /\ TaskOf \in [SubTask -> Task] /\ AccountOf \in [SubTask -> Account]
  /\ ParentsOf \in [SubTask -> SUBSET SubTask]
  /\ Preferred \in [Account -> Device \cup {NoDevice}] /\ NoDevice \notin Device
  /\ Probe \subseteq SubTask /\ \A s \in Probe : ParentsOf[s] = {}
  /\ Rank \in [SubTask -> Nat] /\ DeviceRank \in [Device -> Nat]
  /\ \A r, s \in SubTask : Rank[r] = Rank[s] => r = s
  /\ Outcomes \subseteq {"success", "retry", "fatal"}
  /\ MaxRetry \in Nat /\ CircuitBreaker \in Nat /\ MaxFaults \in Nat /\ Limit \in Nat
  BY DispatchAssumption

Loop == [pc : {"idle", "execute", "prove", "next"}, todo : SUBSET Job, cur : SUBSET Job,
         sent : SUBSET (Result \cup Handle)]

LEMMA AbsentTyped == Absent \in Row /\ Resting \in Loop
  BY DEF Absent, Row, SubStatus, Resting, Loop

LEMMA ReadTyped ==
  ASSUME NEW S \in SUBSET SubTask, NEW cur, \A s \in S : cur[s] \in Row
  PROVE  /\ Read(cur, S) \in [SubTask -> Row]
         /\ \A s \in S : Read(cur, S)[s] = cur[s]
  BY AbsentTyped DEF Read

LEMMA OverTyped == Over \in TickState /\ Over.pc = "idle"
<1>1. Read(<<>>, {}) \in [SubTask -> Row]
  BY ReadTyped
<1> HIDE DEF Read
<1> QED BY <1>1 DEF Over, TickState

\* The rows of a row.
LEMMA RowTyped ==
  ASSUME NEW r \in Row
  PROVE  /\ r.status \in SubStatus /\ r.owner \in Device \cup {NoDevice} /\ r.gen \in Nat
         /\ r.attempts \in Nat /\ r.placed \in BOOLEAN /\ r.late \in BOOLEAN
  BY DEF Row

\* The oldest of the devices that are online exists.
LEMMA OldestExists ==
  ASSUME NEW S \in SUBSET Device, S # {}
  PROVE  \E d \in S : \A e \in S : DeviceRank[d] <= DeviceRank[e]
<1> DEFINE T == {DeviceRank[d] : d \in S}
           R == {p \in Nat \X Nat : p[1] < p[2]}
<1>1. IsWellFoundedOn(R, Nat)
  BY NatLessThanWellFounded DEF OpToRel
<1>2. T \subseteq Nat /\ T # {}
  BY Constants
<1>3. PICK n \in T : \A m \in T : <<m, n>> \notin R
  <2> HIDE DEF T, R
  <2> QED BY <1>1, <1>2, WFMin
<1>4. \A m \in T : n <= m
  <2>1. n \in Nat /\ \A m \in T : m \in Nat /\ ~(m < n)
    BY <1>2, <1>3
  <2> HIDE DEF T
  <2> QED BY <2>1
<1> QED BY <1>4

LEMMA DeviceTyped ==
  ASSUME NEW s \in SubTask, online \subseteq Device, online # {}
  PROVE  PickDevice(s) \in online
  BY OldestExists DEF PickDevice

LEMMA GrantedTyped ==
  ASSUME NEW r \in Row, NEW read \in Row, NEW d \in Device
  PROVE  /\ Granted(r, read, d) \in Row
         /\ Granted(r, read, d).status = "ASSIGNED" /\ Granted(r, read, d).owner = d
         /\ Granted(r, read, d).gen = read.gen + 1
         /\ Granted(r, read, d).attempts = r.attempts
         /\ Granted(r, read, d).placed
<1>1. read.gen + 1 \in Nat /\ "ASSIGNED" \in SubStatus /\ d \in Device \cup {NoDevice}
      /\ TRUE \in BOOLEAN /\ FALSE \in BOOLEAN
  BY RowTyped DEF SubStatus
<1> DEFINE gen == read.gen + 1
<1> HIDE DEF gen
<1>2. Granted(r, read, d) = [r EXCEPT !.status = "ASSIGNED", !.owner = d, !.gen = gen,
                                      !.placed = TRUE, !.late = FALSE]
  BY DEF Granted, gen
<1>3. Granted(r, read, d) \in Row
  BY <1>1, <1>2 DEF Row, gen
<1>4. Granted(r, read, d).placed = TRUE
  BY <1>2, Zenon DEF Row
<1> QED BY <1>2, <1>3, <1>4 DEF Row, gen

LEMMA GrantedFields ==
  ASSUME NEW r \in Row, NEW read \in Row, NEW d \in Device, NEW new, new = Granted(r, read, d)
  PROVE  /\ new.status = "ASSIGNED" /\ new.owner = d /\ new.gen = read.gen + 1
         /\ new.attempts = r.attempts /\ new.placed
  BY GrantedTyped

\* The grants of a dispatch, and what becomes of the other rows.
LEMMA DispatchedTyped ==
  ASSUME NEW cur \in [SubTask -> Row], NEW rows \in [SubTask -> Row], NEW list \in SUBSET SubTask,
         online \subseteq Device
  PROVE  /\ Dispatched(cur, list, rows) \in [SubTask -> Row]
         /\ Chosen(cur, list) \subseteq list
         /\ \A s \in Chosen(cur, list) :
              /\ PickDevice(s) \in Device
              /\ Dispatched(cur, list, rows)[s] = Granted(cur[s], rows[s], PickDevice(s))
         /\ \A s \in SubTask \ Chosen(cur, list) :
              LET new == Dispatched(cur, list, rows)[s] IN
              /\ new.status = cur[s].status /\ new.gen = cur[s].gen /\ new.owner = cur[s].owner
              /\ new.attempts = cur[s].attempts
              /\ cur[s].placed => new.placed
<1>1. Chosen(cur, list) \subseteq list
  BY DEF Chosen
<1>2. ASSUME NEW s \in Chosen(cur, list)
      PROVE  /\ PickDevice(s) \in Device
             /\ Dispatched(cur, list, rows)[s] = Granted(cur[s], rows[s], PickDevice(s))
             /\ Dispatched(cur, list, rows)[s] \in Row
  <2>1. s \in SubTask /\ online # {}
    BY <1>1 DEF Chosen
  <2>2. PickDevice(s) \in Device
    BY <2>1, DeviceTyped
  <2>3. Dispatched(cur, list, rows)[s] = Granted(cur[s], rows[s], PickDevice(s))
    BY <2>1 DEF Dispatched
  <2>4. cur[s] \in Row /\ rows[s] \in Row
    BY <2>1
  <2> QED BY <2>2, <2>3, <2>4, GrantedTyped
<1>3. ASSUME NEW s \in SubTask \ Chosen(cur, list)
      PROVE  LET new == Dispatched(cur, list, rows)[s] IN
             /\ new.status = cur[s].status /\ new.gen = cur[s].gen /\ new.owner = cur[s].owner
             /\ new.attempts = cur[s].attempts
             /\ cur[s].placed => new.placed
             /\ new \in Row
  <2>1. Dispatched(cur, list, rows)[s] \in {cur[s], [cur[s] EXCEPT !.placed = TRUE]}
    BY DEF Dispatched
  <2>2. cur[s] \in Row
    OBVIOUS
  <2>3. CASE Dispatched(cur, list, rows)[s] = cur[s]
    BY <2>2, <2>3
  <2>4. CASE Dispatched(cur, list, rows)[s] = [cur[s] EXCEPT !.placed = TRUE]
    <3>1. [cur[s] EXCEPT !.placed = TRUE].placed = TRUE
      BY <2>2 DEF Row
    <3> QED BY <2>2, <2>4, <3>1 DEF Row
  <2> QED BY <2>1, <2>3, <2>4
<1>4. Dispatched(cur, list, rows) \in [SubTask -> Row]
  BY <1>2, <1>3 DEF Dispatched
<1> QED BY <1>1, <1>2, <1>3, <1>4

\* What reclaiming does to a row.
LEMMA ReclaimedTyped ==
  ASSUME TypeOK, NEW t \in TickRequest
  PROVE  /\ Reclaimed(t) \in [SubTask -> Row]
         /\ Stale(t) \subseteq tick[t].list /\ tick[t].list \subseteq SubTask
         /\ tick[t].rows \in [SubTask -> Row]
         /\ \A s \in SubTask \ Stale(t) : Reclaimed(t)[s] = sub[s]
         /\ \A s \in Stale(t) :
              LET read == tick[t].rows[s]
                  new  == Reclaimed(t)[s]
              IN  /\ new.status = IF read.attempts + 1 > MaxRetry THEN "DLQ" ELSE "QUEUED"
                  /\ new.gen = read.gen + 1 /\ new.attempts = read.attempts + 1
<1>1. /\ sub \in [SubTask -> Row] /\ tick[t] \in TickState
      /\ tick[t].list \subseteq SubTask /\ tick[t].rows \in [SubTask -> Row]
  BY DEF TypeOK, TickState
<1>2. Stale(t) \subseteq tick[t].list
  BY DEF Stale
<1>3. ASSUME NEW s \in SubTask \ Stale(t) PROVE Reclaimed(t)[s] = sub[s]
  BY DEF Reclaimed
<1>4. ASSUME NEW s \in Stale(t)
      PROVE  LET read == tick[t].rows[s]
                 new  == Reclaimed(t)[s]
             IN  /\ new \in Row
                 /\ new.status = IF read.attempts + 1 > MaxRetry THEN "DLQ" ELSE "QUEUED"
                 /\ new.gen = read.gen + 1 /\ new.attempts = read.attempts + 1
  <2> DEFINE read == tick[t].rows[s]
             status == IF read.attempts + 1 > MaxRetry THEN "DLQ" ELSE "QUEUED"
             gen == read.gen + 1
             attempts == read.attempts + 1
  <2>1. s \in SubTask /\ sub[s] \in Row /\ read \in Row
    BY <1>1, <1>2
  <2>2. Reclaimed(t)[s] = [sub[s] EXCEPT !.status = status, !.owner = NoDevice, !.late = FALSE,
                                         !.gen = gen, !.attempts = attempts]
    BY <2>1 DEF Reclaimed
  <2>3. gen \in Nat /\ attempts \in Nat /\ status \in SubStatus
    BY <2>1, RowTyped DEF SubStatus
  <2> HIDE DEF status, gen, attempts
  <2>4. /\ Reclaimed(t)[s] \in Row /\ Reclaimed(t)[s].status = status
        /\ Reclaimed(t)[s].gen = gen /\ Reclaimed(t)[s].attempts = attempts
    BY <2>1, <2>2, <2>3 DEF Row
  <2> QED BY <2>4 DEF status, gen, attempts
<1>5. Reclaimed(t) \in [SubTask -> Row]
  BY <1>1, <1>2, <1>3, <1>4 DEF Reclaimed
<1> QED BY <1>1, <1>2, <1>3, <1>4, <1>5

\* What the activation does to a row.
LEMMA ActivatedTyped ==
  ASSUME NEW cur \in [SubTask -> Row]
  PROVE  /\ Activated(cur) \in [SubTask -> Row]
         /\ \A s \in SubTask :
              LET new == Activated(cur)[s] IN
              /\ new.gen = cur[s].gen /\ new.owner = cur[s].owner
              /\ new.attempts = cur[s].attempts /\ new.placed = cur[s].placed
              /\ \/ new.status = cur[s].status
                 \/ cur[s].status = "WAITING_DEPENDENCY" /\ new.status = "FAILED"
                 \/ cur[s].status = "WAITING_DEPENDENCY" /\ new.status = "QUEUED"
                    /\ ParentsOf[s] \subseteq handles
<1>1. ASSUME NEW s \in SubTask
      PROVE  \/ Activated(cur)[s] = cur[s]
             \/ /\ cur[s].status = "WAITING_DEPENDENCY"
                /\ Activated(cur)[s] = [cur[s] EXCEPT !.status = "FAILED"]
             \/ /\ cur[s].status = "WAITING_DEPENDENCY" /\ ParentsOf[s] \subseteq handles
                /\ Activated(cur)[s] = [cur[s] EXCEPT !.status = "QUEUED"]
  BY DEF Activated
<1>2. ASSUME NEW s \in SubTask, NEW status \in SubStatus
      PROVE  LET new == [cur[s] EXCEPT !.status = status] IN
             /\ new \in Row /\ new.status = status
             /\ new.gen = cur[s].gen /\ new.owner = cur[s].owner
             /\ new.attempts = cur[s].attempts /\ new.placed = cur[s].placed
  BY DEF Row
<1>3. "FAILED" \in SubStatus /\ "QUEUED" \in SubStatus
  BY DEF SubStatus
<1>4. ASSUME NEW s \in SubTask
      PROVE  LET new == Activated(cur)[s] IN
              /\ new \in Row
              /\ new.gen = cur[s].gen /\ new.owner = cur[s].owner
              /\ new.attempts = cur[s].attempts /\ new.placed = cur[s].placed
              /\ \/ new.status = cur[s].status
                 \/ cur[s].status = "WAITING_DEPENDENCY" /\ new.status = "FAILED"
                 \/ cur[s].status = "WAITING_DEPENDENCY" /\ new.status = "QUEUED"
                    /\ ParentsOf[s] \subseteq handles
  <2>1. cur[s] \in Row
    OBVIOUS
  <2>2. CASE Activated(cur)[s] = cur[s]
    BY <2>1, <2>2
  <2>3. ASSUME NEW status \in {"FAILED", "QUEUED"},
               Activated(cur)[s] = [cur[s] EXCEPT !.status = status],
               cur[s].status = "WAITING_DEPENDENCY",
               status = "FAILED" \/ ParentsOf[s] \subseteq handles
        PROVE  LET new == Activated(cur)[s] IN
              /\ new \in Row
              /\ new.gen = cur[s].gen /\ new.owner = cur[s].owner
              /\ new.attempts = cur[s].attempts /\ new.placed = cur[s].placed
              /\ \/ cur[s].status = "WAITING_DEPENDENCY" /\ new.status = "FAILED"
                 \/ cur[s].status = "WAITING_DEPENDENCY" /\ new.status = "QUEUED"
                    /\ ParentsOf[s] \subseteq handles
    BY <1>2, <1>3, <2>3
  <2> QED BY <1>1, <2>2, <2>3
<1>5. Activated(cur) \in [SubTask -> Row]
  BY <1>4 DEF Activated
<1> QED BY <1>4, <1>5

LEMMA FinishTyped ==
  ASSUME TypeOK, NEW t \in TickRequest, NEW cur \in [SubTask -> Row],
         NEW rows \in [SubTask -> Row], NEW list \in SUBSET SubTask,
         NEW granted \in SUBSET (SubTask \X Nat \X Device), Finish(t, cur, list, rows, granted)
  PROVE  /\ sub' \in [SubTask -> Row] /\ holders' \subseteq SubTask \X Nat \X Device
         /\ tick' \in [TickRequest -> TickState]
<1>1. sub' \in [SubTask -> Row]
  BY DispatchedTyped DEF TypeOK, Finish
<1>2. ASSUME NEW s \in Chosen(cur, list)
      PROVE  s \in SubTask /\ rows[s].gen + 1 \in Nat /\ PickDevice(s) \in Device
  <2>1. s \in SubTask /\ PickDevice(s) \in Device
    BY DispatchedTyped DEF TypeOK
  <2>2. rows[s] \in Row
    BY <2>1
  <2> QED BY <2>1, <2>2, RowTyped
<1>3. holders' \subseteq SubTask \X Nat \X Device
  BY <1>2 DEF TypeOK, Finish
<1> QED BY <1>1, <1>3, OverTyped DEF TypeOK, Finish

-------------------------------------------------------------------------------
(* Types *)

LEMMA InitTyped == Init => TypeOK
<1> SUFFICES ASSUME Init PROVE TypeOK
  OBVIOUS
<1>1. account \in [Account -> AccountRow]
  BY DEF Init, AccountRow, AccountStatus
<1>2. agent \in [Device -> Loop] /\ sub \in [SubTask -> Row]
  BY AbsentTyped DEF Init
<1>3. tick \in [TickRequest -> TickState]
  BY OverTyped DEF Init
<1> QED BY <1>1, <1>2, <1>3, Constants DEF Init, TypeOK, Loop

\* A tick writes its first grant g.
WriteOf(t, g) ==
  LET rows == tick[t].rows
      list == tick[t].list
      next == [sub EXCEPT ![g[1]] = Granted(@, rows[g[1]], g[2])]
  IN  /\ Finish(t, next, list, rows, {<<g[1], rows[g[1]].gen + 1, g[2]>>})
      /\ raced' = raced \cup Moved(sub, rows, {g[1]} \cup Chosen(next, list))
                   \cup {r \in {g[1]} : Busy(sub, r)}

LEMMA TicksTyped ==
  ASSUME TypeOK, NEW t \in TickRequest, TickStep(t)
  PROVE  TypeOK'
<1>1. /\ sub \in [SubTask -> Row] /\ tick[t] \in TickState
      /\ tick[t].list \subseteq SubTask /\ tick[t].rows \in [SubTask -> Row]
      /\ tick[t].pick \subseteq SubTask \X Device /\ raced \subseteq SubTask
  BY DEF TypeOK, TickState
<1>2. ASSUME StartTick(t) PROVE TypeOK'
  <2> DEFINE leased == {s \in SubTask : Leased(sub[s])}
             new == [pc |-> "reclaim", list |-> leased, rows |-> Read(sub, leased), pick |-> {}]
  <2>1. new \in TickState
    BY <1>1, ReadTyped DEF TickState
  <2> QED BY <1>2, <2>1 DEF StartTick, TypeOK
<1>3. ASSUME Reclaim(t) PROVE TypeOK'
  <2> DEFINE next == Activated(Reclaimed(t))
             looking == [pc |-> "look", list |-> Queued(sub), rows |-> Read(sub, Queued(sub)),
                         pick |-> {}]
  <2>1. next \in [SubTask -> Row] /\ Queued(next) \subseteq SubTask /\ Queued(sub) \subseteq SubTask
    BY ReclaimedTyped, ActivatedTyped DEF Queued
  <2>2. looking \in TickState
    BY <1>1, <2>1, ReadTyped DEF TickState
  <2>3. CASE Finish(t, next, Queued(next), next, {})
    <3> HIDE DEF next
    <3>1. /\ sub' \in [SubTask -> Row] /\ holders' \subseteq SubTask \X Nat \X Device
          /\ tick' \in [TickRequest -> TickState]
      BY <2>1, <2>3, FinishTyped
    <3>2. raced' \subseteq SubTask
      BY <1>1, <1>3, ReclaimedTyped DEF Reclaim, Moved
    <3> QED BY <1>3, <3>1, <3>2 DEF Reclaim, TypeOK
  <2> HIDE DEF looking
  <2>4. CASE tick' = [tick EXCEPT ![t] = looking] /\ UNCHANGED <<sub, holders, raced>>
    BY <1>3, <2>2, <2>4 DEF Reclaim, TypeOK
  <2> QED BY <1>3, <2>3, <2>4 DEF Reclaim, looking
<1>4. ASSUME Look(t) PROVE TypeOK'
  <2> DEFINE list == tick[t].list
             rows == tick[t].rows
             able == {s \in list : MayRun(s)}
  <2>1. able \subseteq SubTask
    BY <1>1
  <2>6. UNCHANGED <<task, account, online, handles, results, review, agent, wire, requeued,
                    faults>>
    BY <1>4 DEF Look
  <2>2. CASE tick' = [tick EXCEPT ![t] = Over] /\ UNCHANGED <<sub, holders, raced>>
    BY <1>4, <2>2, OverTyped DEF Look, TypeOK
  <2>3. CASE Finish(t, sub, able, rows, {}) /\ raced' = raced \cup Moved(sub, rows, Chosen(sub, able))
    <3>3. raced' \subseteq SubTask
      BY <1>1, <2>3 DEF Moved, Chosen
    <3> HIDE DEF able
    <3>2. {} \in SUBSET (SubTask \X Nat \X Device) /\ Finish(t, sub, able, rows, {})
      BY <2>3
    <3>1. /\ sub' \in [SubTask -> Row] /\ holders' \subseteq SubTask \X Nat \X Device
          /\ tick' \in [TickRequest -> TickState]
      BY <1>1, <2>1, <3>2, FinishTyped
    <3> QED BY <2>6, <3>1, <3>3 DEF TypeOK
  <2>4. ASSUME NEW s \in able, UNCHANGED <<sub, holders, raced>>,
               tick' = [tick EXCEPT ![t].list = After(list, s)]
        PROVE  TypeOK'
    <3>1. [tick[t] EXCEPT !.list = After(list, s)] \in TickState
      BY <1>1 DEF TickState, After
    <3> QED BY <1>4, <2>4, <3>1 DEF Look, TypeOK
  <2>5. ASSUME NEW s \in able, UNCHANGED <<sub, holders, raced>>, online # {},
               tick' = [tick EXCEPT ![t].pc = "write", ![t].list = After(list, s),
                                                 ![t].pick = {<<s, PickDevice(s)>>}]
        PROVE  TypeOK'
    <3>1. PickDevice(s) \in Device
      BY <1>1, <2>5, DeviceTyped DEF TypeOK
    <3> DEFINE new == [tick[t] EXCEPT !.pc = "write", !.list = After(list, s),
                                                 !.pick = {<<s, PickDevice(s)>>}]
    <3>2. new \in TickState
      <4>1. After(list, s) \in SUBSET SubTask /\ {<<s, PickDevice(s)>>} \in SUBSET (SubTask \X Device)
        BY <1>1, <2>1, <3>1 DEF After
      <4> QED BY <1>1, <4>1 DEF TickState
    <3>3. tick' = [tick EXCEPT ![t] = new]
      BY <2>5
    <3> HIDE DEF new
    <3>4. tick' \in [TickRequest -> TickState]
      BY <3>2, <3>3 DEF TypeOK
    <3>5. UNCHANGED <<sub, holders, raced>>
      BY <2>5
    <3> QED BY <2>6, <3>4, <3>5 DEF TypeOK
  <2> QED BY <1>4, <2>2, <2>3, <2>4, <2>5 DEF Look
<1>5. ASSUME Write(t) PROVE TypeOK'
  <2> DEFINE rows == tick[t].rows
  <2>1. PICK g \in tick[t].pick : WriteOf(t, g)
    BY <1>5 DEF Write, WriteOf
  <2>2. g[1] \in SubTask /\ g[2] \in Device
    BY <1>1
  <2> DEFINE cur == [sub EXCEPT ![g[1]] = Granted(@, rows[g[1]], g[2])]
             granted == {<<g[1], rows[g[1]].gen + 1, g[2]>>}
  <2>3. cur \in [SubTask -> Row]
    BY <1>1, <2>2, GrantedTyped
  <2>4. granted \in SUBSET (SubTask \X Nat \X Device)
    BY <1>1, <2>2, RowTyped
  <2>5. /\ sub' \in [SubTask -> Row] /\ holders' \subseteq SubTask \X Nat \X Device
        /\ tick' \in [TickRequest -> TickState]
    <3> HIDE DEF cur, granted
    <3>1. Finish(t, cur, tick[t].list, rows, granted)
      BY <2>1 DEF cur, granted, WriteOf
    <3> QED BY <1>1, <2>3, <2>4, <3>1, FinishTyped
  <2>6. raced' \subseteq SubTask
    BY <1>1, <2>1, <2>2 DEF WriteOf, Moved, Chosen
  <2> QED BY <1>5, <2>5, <2>6 DEF Write, TypeOK
<1> QED BY <1>2, <1>3, <1>4, <1>5 DEF TickStep

LEMMA AnsweredTyped ==
  ASSUME NEW r \in Row, NEW outcome \in Outcomes
  PROVE  LET new == Answered(r, outcome) IN
         /\ new \in Row
         /\ \/ new.status = "SUCCESS" /\ new.gen = r.gen /\ new.attempts = r.attempts
            \/ /\ r.attempts + 1 <= MaxRetry
               /\ new.status = "QUEUED" /\ new.gen = r.gen + 1 /\ new.attempts = r.attempts + 1
            \/ new.status = "DLQ" /\ new.gen = r.gen /\ new.attempts = r.attempts + 1
<1>1. "SUCCESS" \in SubStatus /\ "QUEUED" \in SubStatus /\ "DLQ" \in SubStatus
      /\ r.gen + 1 \in Nat /\ r.attempts + 1 \in Nat /\ FALSE \in BOOLEAN
      /\ NoDevice \in Device \cup {NoDevice}
  BY RowTyped DEF SubStatus
<1>2. CASE outcome = "success"
  <2>1. Answered(r, outcome) = [r EXCEPT !.status = "SUCCESS", !.late = FALSE]
    BY <1>2 DEF Answered
  <2> QED BY <1>1, <2>1 DEF Row
<1>3. CASE outcome # "success" /\ outcome = "retry" /\ r.attempts + 1 <= MaxRetry
  <2> DEFINE gen == r.gen + 1
             attempts == r.attempts + 1
  <2>1. Answered(r, outcome) = [r EXCEPT !.status = "QUEUED", !.attempts = attempts,
                                         !.owner = NoDevice, !.gen = gen, !.late = FALSE]
    BY <1>3 DEF Answered
  <2>2. gen \in Nat /\ attempts \in Nat
    BY <1>1
  <2> HIDE DEF gen, attempts
  <2>3. /\ Answered(r, outcome) \in Row
        /\ Answered(r, outcome).status = "QUEUED" /\ Answered(r, outcome).gen = gen
        /\ Answered(r, outcome).attempts = attempts
    BY <1>1, <2>1, <2>2 DEF Row
  <2> QED BY <1>3, <2>3 DEF gen, attempts
<1>4. CASE outcome # "success" /\ ~(outcome = "retry" /\ r.attempts + 1 <= MaxRetry)
  <2> DEFINE attempts == r.attempts + 1
  <2>1. Answered(r, outcome) = [r EXCEPT !.status = "DLQ", !.attempts = attempts, !.late = FALSE]
    BY <1>4 DEF Answered
  <2>2. attempts \in Nat
    BY <1>1
  <2> HIDE DEF attempts
  <2>3. /\ Answered(r, outcome) \in Row
        /\ Answered(r, outcome).status = "DLQ" /\ Answered(r, outcome).gen = r.gen
        /\ Answered(r, outcome).attempts = attempts
    BY <1>1, <2>1, <2>2 DEF Row
  <2> QED BY <2>3 DEF attempts
<1> QED BY <1>2, <1>3, <1>4

LEMMA JudgedTyped ==
  ASSUME NEW a \in AccountRow, NEW s \in SubTask, NEW outcome \in Outcomes
  PROVE  Judged(a, s, outcome) \in AccountRow
<1> DEFINE probed   == s \in Probe /\ a.status = "MANUAL_VERIFIED"
           failures == IF outcome = "success" THEN 0 ELSE a.failures + 1
           status   == CASE outcome # "success" /\ failures >= CircuitBreaker -> "SUSPENDED"
                         [] outcome = "success" /\ probed -> "ACTIVE"
                         [] outcome # "success" /\ failures < CircuitBreaker /\ probed -> "CAPTCHA"
                         [] OTHER -> a.status
<1>1. a.status \in AccountStatus /\ a.failures \in Nat
  BY DEF AccountRow
<1>2. failures \in Nat
  BY <1>1
<1>3. status \in AccountStatus
  BY <1>1 DEF AccountStatus
<1>4. Judged(a, s, outcome) = [a EXCEPT !.failures = failures, !.status = status]
  BY DEF Judged
<1> HIDE DEF failures, status
<1> QED BY <1>2, <1>3, <1>4 DEF AccountRow

LEMMA FaultTyped ==
  ASSUME TypeOK, UNCHANGED faults \/ \E event : Fault(event)
  PROVE  faults' \in 0..MaxFaults
  BY Constants DEF TypeOK, Fault

LEMMA RequestsTyped ==
  ASSUME TypeOK, NEW m \in wire, Deliver(m) \/ Lose(m)
  PROVE  TypeOK'
<1>1. /\ sub \in [SubTask -> Row] /\ account \in [Account -> AccountRow] /\ AccountOf \in [SubTask -> Account]
      /\ wire \subseteq Result \cup Handle /\ wire' \subseteq wire /\ faults' \in 0..MaxFaults
  BY Constants, FaultTyped DEF TypeOK, Deliver, Lose
<1>2. CASE Lose(m)
  BY <1>1, <1>2 DEF TypeOK, Lose
<1>3. CASE Deliver(m) /\ m.kind = "result"
  <2>1. m \in Result
    BY <1>1, <1>3 DEF Handle
  <2>2. m.job[1] \in SubTask /\ m.outcome \in Outcomes
    BY <2>1 DEF Result, Job
  <2>3. SubmitResult(m)
    BY <1>3 DEF Deliver
  <2>4. sub' \in [SubTask -> Row] /\ account' \in [Account -> AccountRow] /\ results' \subseteq Result
    <3>1. Answered(sub[m.job[1]], m.outcome) \in Row
      BY <1>1, <2>2, AnsweredTyped
    <3>2. Judged(account[AccountOf[m.job[1]]], m.job[1], m.outcome) \in AccountRow
      BY <1>1, <2>2, JudgedTyped
    <3> QED BY <1>1, <2>1, <2>2, <2>3, <3>1, <3>2 DEF SubmitResult, TypeOK
  <2>5. UNCHANGED <<handles, task, online, tick, review, agent, holders, requeued, raced>>
    BY <1>3, <2>3 DEF Deliver, SubmitResult
  <2> QED BY <1>1, <2>4, <2>5 DEF TypeOK
<1>4. CASE Deliver(m) /\ m.kind # "result"
  <2>1. m \in Handle
    BY <1>1, <1>4 DEF Result
  <2>2. m.subtask \in SubTask /\ m.verified \in BOOLEAN
    BY <2>1 DEF Handle
  <2>3. SubmitHandle(m)
    BY <1>4 DEF Deliver
  <2>4. sub' \in [SubTask -> Row] /\ handles' \subseteq SubTask
    <3>1. [sub[m.subtask] EXCEPT !.status = "SUCCESS", !.late = FALSE] \in Row
      BY <1>1, <2>2 DEF Row, SubStatus
    <3>2. sub' = [sub EXCEPT ![m.subtask] = [sub[m.subtask] EXCEPT !.status = "SUCCESS", !.late = FALSE]]
      BY <2>3 DEF SubmitHandle
    <3> QED BY <1>1, <2>2, <2>3, <3>1, <3>2 DEF SubmitHandle, TypeOK
  <2>5. UNCHANGED <<account, results, task, online, tick, review, agent, holders, requeued, raced>>
    BY <1>4, <2>3 DEF Deliver, SubmitHandle
  <2> QED BY <1>1, <2>4, <2>5 DEF TypeOK
<1> QED BY <1>2, <1>3, <1>4

LEMMA OnwardTyped ==
  ASSUME NEW jobs \in SUBSET Job, NEW next \in Onward(jobs)
  PROVE  next \in Loop /\ next.todo \subseteq jobs /\ next.cur \subseteq jobs
  BY AbsentTyped DEF Onward, Loop, Resting

LEMMA AgentsTyped ==
  ASSUME TypeOK, NEW d \in Device, AgentStep(d) \/ Renew(d) \/ Heartbeat(d) \/ GoSilent(d) \/ Crash(d)
  PROVE  TypeOK'
<1>1. /\ sub \in [SubTask -> Row] /\ agent \in [Device -> Loop] /\ agent[d] \in Loop
      /\ wire \subseteq Result \cup Handle
      /\ agent[d].cur \subseteq Job /\ agent[d].todo \subseteq Job
  BY DEF TypeOK, Loop
<1>2. CASE Pull(d)
  <2> DEFINE jobs == {<<s, sub[s].gen>> : s \in {r \in SubTask : Leased(sub[r]) /\ sub[r].owner = d}}
  <2>1. jobs \in SUBSET Job
    BY <1>1, RowTyped DEF Job
  <2>2. PICK next \in Onward(jobs) : agent' = [agent EXCEPT ![d] = next]
    BY <1>2 DEF Pull
  <2> HIDE DEF jobs
  <2>3. agent' \in [Device -> Loop]
    BY <1>1, <2>1, <2>2, OnwardTyped
  <2> QED BY <1>2, <2>3 DEF Pull, TypeOK, Loop
<1>3. CASE Renew(d)
  <2>1. PICK j \in agent[d].cur : sub' = [sub EXCEPT ![j[1]].late = FALSE]
    BY <1>3 DEF Renew
  <2>2. j[1] \in SubTask
    BY <1>1 DEF Job
  <2>3. [sub[j[1]] EXCEPT !.late = FALSE] \in Row
    BY <1>1, <2>2 DEF Row
  <2> QED BY <1>1, <1>3, <2>1, <2>2, <2>3 DEF Renew, TypeOK
<1>4. ASSUME NEW m \in Result \cup Handle, NEW pc \in {"prove", "next"}, Send(d, m, pc)
      PROVE  wire' \subseteq Result \cup Handle /\ agent' \in [Device -> Loop]
  <2>1. [agent[d] EXCEPT !.pc = pc, !.sent = {m}] \in Loop
    <3>1. {m} \in SUBSET (Result \cup Handle)
      OBVIOUS
    <3> QED BY <1>1, <3>1 DEF Loop
  <2>2. agent' = [agent EXCEPT ![d] = [agent[d] EXCEPT !.pc = pc, !.sent = {m}]]
    BY <1>4 DEF Send
  <2> QED BY <1>1, <1>4, <2>1, <2>2 DEF Send
<1>5. CASE Report(d)
  <2>1. PICK j \in agent[d].cur, outcome \in Outcomes, pc \in {"prove", "next"} :
          Send(d, [kind |-> "result", job |-> j, device |-> d, outcome |-> outcome], pc)
    BY <1>5 DEF Report
  <2>2. [kind |-> "result", job |-> j, device |-> d, outcome |-> outcome] \in Result
    BY <1>1 DEF Result
  <2>3. wire' \subseteq Result \cup Handle /\ agent' \in [Device -> Loop]
    BY <1>4, <2>1, <2>2
  <2> QED BY <1>5, <2>3 DEF Report, TypeOK, Loop
<1>6. CASE SendHandle(d)
  <2>1. PICK j \in agent[d].cur, e \in Evidence \ {"none"} :
         Send(d, [kind |-> "handle", subtask |-> j[1], verified |-> e = "VERIFIED"], "next")
    BY <1>6 DEF SendHandle
  <2> DEFINE verified == e = "VERIFIED"
  <2>4. verified \in BOOLEAN /\ j[1] \in SubTask
    BY <1>1 DEF Job
  <2> HIDE DEF verified
  <2>2. [kind |-> "handle", subtask |-> j[1], verified |-> verified] \in Handle
    BY <2>4 DEF Handle
  <2>3. wire' \subseteq Result \cup Handle /\ agent' \in [Device -> Loop]
    BY <1>4, <2>1, <2>2 DEF verified
  <2>5. faults' \in 0..MaxFaults
    BY <1>6, FaultTyped DEF SendHandle, Unblocked
  <2> QED BY <1>6, <2>3, <2>5 DEF SendHandle, TypeOK, Loop
<1>7. CASE GoOn(d)
  <2>1. PICK next \in Onward(agent[d].todo) : agent' = [agent EXCEPT ![d] = next]
    BY <1>7 DEF GoOn
  <2>2. agent' \in [Device -> Loop]
    BY <1>1, <2>1, OnwardTyped
  <2>3. faults' \in 0..MaxFaults
    BY <1>7, FaultTyped DEF GoOn, Unblocked
  <2> QED BY <1>7, <2>2, <2>3 DEF GoOn, TypeOK, Loop
<1>8. CASE Heartbeat(d)
  BY <1>8 DEF Heartbeat, TypeOK
<1>9. CASE GoSilent(d)
  BY <1>9, FaultTyped DEF GoSilent, TypeOK
<1>10. CASE Crash(d)
  <2>1. agent' \in [Device -> Loop] /\ faults' \in 0..MaxFaults
    BY <1>1, <1>10, AbsentTyped, FaultTyped DEF Crash, TypeOK
  <2> QED BY <1>10, <2>1 DEF Crash, TypeOK, Loop
<1> QED BY <1>2, <1>3, <1>5, <1>6, <1>7, <1>8, <1>9, <1>10 DEF AgentStep

LEMMA TasksTyped ==
  ASSUME TypeOK, (\E k \in Task : CreateTask(k)) \/ ScheduledTick \/ ProbeTick
  PROVE  TypeOK'
<1>1. sub \in [SubTask -> Row]
  BY DEF TypeOK
<1>2. ASSUME NEW status \in SubStatus
      PROVE  [Absent EXCEPT !.status = status] \in Row
  BY DEF Absent, Row
<1>3. "QUEUED" \in SubStatus /\ "WAITING_DEPENDENCY" \in SubStatus
  BY DEF SubStatus
<1>4. ASSUME NEW k \in Task, CreateTask(k) PROVE TypeOK'
  <2>1. sub' \in [SubTask -> Row]
    BY <1>1, <1>2, <1>3, <1>4 DEF CreateTask
  <2>2. task' \in [Task -> {"absent", "PENDING", "QUEUED", "MISSED"}]
    BY <1>4 DEF CreateTask, TypeOK
  <2> QED BY <1>4, <2>1, <2>2 DEF CreateTask, TypeOK
<1>5. CASE ScheduledTick
  BY <1>5 DEF ScheduledTick, TypeOK
<1>6. CASE ProbeTick
  <2>1. sub' \in [SubTask -> Row]
    BY <1>1, <1>2, <1>3, <1>6 DEF ProbeTick
  <2>2. task' \in [Task -> {"absent", "PENDING", "QUEUED", "MISSED"}]
    BY <1>6 DEF ProbeTick, TypeOK
  <2> QED BY <1>6, <2>1, <2>2 DEF ProbeTick, TypeOK
<1> QED BY <1>4, <1>5, <1>6

\* What operators do to the dead letter they have read.
Judgement(o) == Requeue(o) \/ Terminate(o)

LEMMA OperatorsTyped ==
  ASSUME TypeOK,
         \/ \E s \in SubTask : Expire(s)
         \/ \E o \in Operator : \/ \E s \in SubTask, wants \in {"requeue", "terminate"} :
                                   OpenLetter(o, s, wants)
                              \/ Judgement(o)
         \/ \E a \in Account : MoveAccount(a) \/ CoolDown(a)
  PROVE  TypeOK'
<1>1. /\ sub \in [SubTask -> Row] /\ account \in [Account -> AccountRow]
      /\ review \in [Operator -> SUBSET Review]
      /\ requeued \in [SubTask -> Nat] /\ raced \subseteq SubTask
  BY DEF TypeOK
<1>2. ASSUME NEW s \in SubTask, Expire(s) PROVE TypeOK'
  <2>1. [sub[s] EXCEPT !.late = TRUE] \in Row
    BY <1>1 DEF Row
  <2>2. sub' \in [SubTask -> Row] /\ faults' \in 0..MaxFaults
    BY <1>1, <1>2, <2>1, FaultTyped DEF Expire, TypeOK
  <2> QED BY <1>2, <2>2 DEF Expire, TypeOK
<1>3. ASSUME NEW o \in Operator, Requeue(o) PROVE TypeOK'
  <2>1. PICK q \in review[o] :
          LET s == q.subtask IN
          /\ sub' = [sub EXCEPT ![s].status = "QUEUED", ![s].gen = q.gen + 1,
                                ![s].attempts = 0, ![s].owner = NoDevice]
          /\ requeued' = [requeued EXCEPT ![s] = q.gen]
          /\ raced' = IF sub[s].gen # q.gen THEN raced \cup {s} ELSE raced
    BY <1>3 DEF Requeue
  <2> DEFINE s == q.subtask
             gen == q.gen + 1
  <2>2. gen \in Nat /\ q.gen \in Nat /\ s \in SubTask /\ "QUEUED" \in SubStatus
    BY <1>1 DEF Review, SubStatus
  <2>3. sub' = [sub EXCEPT ![s] =
                 [sub[s] EXCEPT !.status = "QUEUED", !.gen = gen, !.attempts = 0, !.owner = NoDevice]]
    BY <2>1
  <2>4. requeued' \in [SubTask -> Nat] /\ raced' \subseteq SubTask
    BY <1>1, <2>1, <2>2
  <2> HIDE DEF gen, s
  <2>5. [sub[s] EXCEPT !.status = "QUEUED", !.gen = gen, !.attempts = 0, !.owner = NoDevice] \in Row
    BY <1>1, <2>2 DEF Row
  <2>6. sub' \in [SubTask -> Row]
    BY <1>1, <2>2, <2>3, <2>5
  <2>7. review' \in [Operator -> SUBSET Review]
    BY <1>1, <1>3 DEF Requeue
  <2> QED BY <1>3, <2>4, <2>6, <2>7 DEF Requeue, TypeOK
<1>4. ASSUME NEW o \in Operator, Terminate(o) PROVE TypeOK'
  <2>1. PICK q \in review[o] : sub' = [sub EXCEPT ![q.subtask].status = "CANCELLED",
                                                  ![q.subtask].owner = NoDevice]
    BY <1>4 DEF Terminate
  <2>2. q.subtask \in SubTask
    BY <1>1 DEF Review
  <2>3. [sub[q.subtask] EXCEPT !.status = "CANCELLED", !.owner = NoDevice] \in Row
    BY <1>1, <2>2 DEF Row, SubStatus
  <2>4. sub' \in [SubTask -> Row] /\ review' \in [Operator -> SUBSET Review]
    BY <1>1, <1>4, <2>1, <2>2, <2>3 DEF Terminate
  <2> QED BY <1>4, <2>4 DEF Terminate, TypeOK
<1>7. ASSUME NEW o \in Operator, NEW s \in SubTask, NEW wants \in {"requeue", "terminate"},
             OpenLetter(o, s, wants)
      PROVE  TypeOK'
  <2>1. {[wants |-> wants, subtask |-> s, gen |-> sub[s].gen]} \in SUBSET Review
    BY <1>1, RowTyped DEF Review
  <2>2. review' \in [Operator -> SUBSET Review] /\ faults' \in 0..MaxFaults
    BY <1>1, <1>7, <2>1, FaultTyped DEF OpenLetter, TypeOK
  <2> QED BY <1>7, <2>2 DEF OpenLetter, TypeOK
<1>5. ASSUME NEW a \in Account, MoveAccount(a) PROVE TypeOK'
  <2>1. PICK target \in AccountTransitions[account[a].status] :
       account' = [account EXCEPT ![a].status = target,
                                  ![a].cooling = @ \/ target = "MANUAL_VERIFIED"]
    BY <1>5 DEF MoveAccount
  <2> DEFINE cooling == account[a].cooling \/ target = "MANUAL_VERIFIED"
  <2>2. account[a].status \in AccountStatus /\ cooling \in BOOLEAN
    BY <1>1 DEF AccountRow
  <2>3. target \in AccountStatus
    BY <2>1, <2>2 DEF AccountStatus, AccountTransitions
  <2>4. account' = [account EXCEPT ![a] = [account[a] EXCEPT !.status = target, !.cooling = cooling]]
    BY <2>1
  <2> HIDE DEF cooling
  <2>5. [account[a] EXCEPT !.status = target, !.cooling = cooling] \in AccountRow
    BY <1>1, <2>2, <2>3 DEF AccountRow
  <2>6. account' \in [Account -> AccountRow] /\ faults' \in 0..MaxFaults
    BY <1>1, <1>5, <2>4, <2>5, FaultTyped DEF MoveAccount, TypeOK
  <2> QED BY <1>5, <2>6 DEF MoveAccount, TypeOK
<1>6. ASSUME NEW a \in Account, CoolDown(a) PROVE TypeOK'
  <2>1. [account[a] EXCEPT !.cooling = FALSE] \in AccountRow
    BY <1>1 DEF AccountRow
  <2> QED BY <1>1, <1>6, <2>1 DEF CoolDown, TypeOK
<1> QED BY <1>2, <1>3, <1>4, <1>5, <1>6, <1>7 DEF Judgement

LEMMA DispatchTypes == Spec => []TypeOK
<1>1. TypeOK /\ [Next]_vars => TypeOK'
  <2> SUFFICES ASSUME TypeOK, [Next]_vars PROVE TypeOK'
    OBVIOUS
  <2>1. CASE UNCHANGED vars
    BY <2>1 DEF vars, TypeOK
  <2> QED BY <2>1, TasksTyped, TicksTyped, RequestsTyped, AgentsTyped, OperatorsTyped
         DEF Next, Judgement
<1> QED BY <1>1, InitTyped, PTL DEF Spec

-------------------------------------------------------------------------------
(* The inductive invariant *)

LeaseOf(m) == <<m.job[1], m.job[2], m.device>>

\* Leases are of rows that exist and, but for what raced, not newer than their rows; what
\* agents work at and report is a lease; what was answered is not leased any more.
Ledgered ==
  /\ \A s \in SubTask \ Probe : task[TaskOf[s]] = "absent" => sub[s].status = "absent"
  /\ \A h \in holders : /\ sub[h[1]].status # "absent"
                        /\ h[1] \notin raced => h[2] <= sub[h[1]].gen
  /\ \A s \in SubTask : Leased(sub[s]) =>
       sub[s].placed /\ <<s, sub[s].gen, sub[s].owner>> \in holders
  /\ \A d \in Device : \A j \in agent[d].todo \cup agent[d].cur : <<j[1], j[2], d>> \in holders
  /\ \A m \in wire : IF m.kind = "result" THEN LeaseOf(m) \in holders
                     ELSE sub[m.subtask].status # "absent"
  /\ \A m \in results :
       /\ LeaseOf(m) \in holders
       /\ m.job[1] \notin raced /\ Leased(sub[m.job[1]]) => m.job[2] # sub[m.job[1]].gen
  /\ \A o \in Operator : \A q \in review[o] : sub[q.subtask].status # "absent"

\* A subtask that is not leased has used up an attempt for each of its leases.
Counted == \A s \in SubTask \ raced :
  /\ sub[s].attempts <= MaxRetry + 1
  /\ sub[s].status \in {"WAITING_DEPENDENCY", "QUEUED", "ASSIGNED"} => sub[s].attempts <= MaxRetry
  /\ IsFiniteSet(Leases(s)) /\ Cardinality(Leases(s)) <= sub[s].attempts + 1
  /\ sub[s].status \notin {"ASSIGNED", "SUCCESS", "CANCELLED"} =>
       Cardinality(Leases(s)) <= sub[s].attempts

Candidates(t) == tick[t].list \cup {g[1] : g \in tick[t].pick}

\* What a queued row may become while its generation stands.
Loose == {"QUEUED", "SUCCESS", "CANCELLED"}

\* What a tick has read was so, and still is if the generation is the one it read.
Relied(t) ==
  /\ \A s \in Candidates(t) :
       LET read == tick[t].rows[s] IN
       /\ sub[s].status # "absent"
       /\ s \notin raced => read.gen <= sub[s].gen
       /\ s \notin raced /\ read.gen = sub[s].gen =>
            IF tick[t].pc = "reclaim"
            THEN read.attempts <= MaxRetry /\ Cardinality(Leases(s)) <= read.attempts + 1
            ELSE /\ sub[s].status \in Loose /\ sub[s].attempts <= MaxRetry
                 /\ Cardinality(Leases(s)) <= sub[s].attempts
  /\ \A g \in tick[t].pick : tick[t].pc = "write" /\ g[1] \notin tick[t].list

LeaseInv == Ledgered /\ Counted /\ ProfileExclusive /\ \A t \in TickRequest : Relied(t)

LEMMA LeasesTyped ==
  ASSUME TypeOK, LeaseInv, NEW s \in SubTask
  PROVE  /\ s \notin raced => IsFiniteSet(Leases(s)) /\ Cardinality(Leases(s)) \in Nat
         /\ sub[s].status = "absent" => Leases(s) = {}
  BY FS_CardinalityType DEF LeaseInv, Counted, Ledgered, Leases

\* What no step of anybody undoes of a row that exists: its generation advances, unless
\* others race for it, and while it stands so do the leases and a queued row's attempts.
Ahead(old, new) ==
  /\ old.gen <= new.gen
  /\ new.gen = old.gen /\ old.status \in Loose =>
       new.status \in Loose /\ new.attempts = old.attempts

GoesOn ==
  /\ raced \subseteq raced'
  /\ \A s \in SubTask : sub[s].status # "absent" =>
       /\ sub'[s].status # "absent"
       /\ s \notin raced' => /\ Ahead(sub[s], sub'[s])
                             /\ sub'[s].gen = sub[s].gen => Leases(s)' = Leases(s)

\* So what a tick relies on stands until it goes on itself.
LEMMA ReliedKept ==
  ASSUME TypeOK, TypeOK', LeaseInv, GoesOn, NEW t \in TickRequest, tick'[t] = tick[t]
  PROVE  Relied(t)'
<1>1. /\ tick[t] \in TickState /\ Candidates(t) \subseteq SubTask
      /\ tick[t].rows \in [SubTask -> Row]
  BY DEF TypeOK, TickState, Candidates
<1>2. Relied(t) /\ Candidates(t)' = Candidates(t)
  BY DEF LeaseInv, Candidates
<1>3. ASSUME NEW s \in Candidates(t)
      PROVE  LET read == tick[t].rows[s] IN
             /\ sub'[s].status # "absent"
             /\ s \notin raced' => read.gen <= sub'[s].gen
             /\ s \notin raced' /\ read.gen = sub'[s].gen =>
                  IF tick[t].pc = "reclaim"
                  THEN read.attempts <= MaxRetry /\ Cardinality(Leases(s)') <= read.attempts + 1
                  ELSE /\ sub'[s].status \in Loose /\ sub'[s].attempts <= MaxRetry
                       /\ Cardinality(Leases(s)') <= sub'[s].attempts
  <2> DEFINE read == tick[t].rows[s]
  <2>1. /\ s \in SubTask /\ sub[s].status # "absent"
        /\ s \notin raced => read.gen <= sub[s].gen
        /\ s \notin raced /\ read.gen = sub[s].gen =>
            IF tick[t].pc = "reclaim"
            THEN read.attempts <= MaxRetry /\ Cardinality(Leases(s)) <= read.attempts + 1
            ELSE /\ sub[s].status \in Loose /\ sub[s].attempts <= MaxRetry
                 /\ Cardinality(Leases(s)) <= sub[s].attempts
    BY <1>1, <1>2 DEF Relied
  <2>2. sub[s] \in Row /\ sub'[s] \in Row /\ read \in Row
    BY <1>1, <2>1 DEF TypeOK
  <2>3. sub[s].gen \in Nat /\ sub'[s].gen \in Nat /\ read.gen \in Nat
    BY <2>2, RowTyped
  <2>4. /\ sub'[s].status # "absent"
        /\ s \notin raced' => /\ s \notin raced /\ sub[s].gen <= sub'[s].gen
                              /\ sub'[s].gen = sub[s].gen =>
                                   /\ Leases(s)' = Leases(s)
                                   /\ sub[s].status \in Loose =>
                                        sub'[s].status \in Loose /\ sub'[s].attempts = sub[s].attempts
    BY <2>1 DEF GoesOn, Ahead
  <2> HIDE DEF read
  <2>5. s \notin raced' => read.gen <= sub'[s].gen
    BY <2>1, <2>3, <2>4
  <2>6. s \notin raced' /\ read.gen = sub'[s].gen => s \notin raced /\ read.gen = sub[s].gen
                                                     /\ sub'[s].gen = sub[s].gen
    BY <2>1, <2>3, <2>4
  <2>7. s \notin raced' /\ read.gen = sub'[s].gen =>
                  IF tick[t].pc = "reclaim"
                  THEN read.attempts <= MaxRetry /\ Cardinality(Leases(s)') <= read.attempts + 1
                  ELSE /\ sub'[s].status \in Loose /\ sub'[s].attempts <= MaxRetry
                       /\ Cardinality(Leases(s)') <= sub'[s].attempts
    <3> SUFFICES ASSUME s \notin raced', read.gen = sub'[s].gen
                 PROVE  IF tick[t].pc = "reclaim"
                        THEN read.attempts <= MaxRetry /\ Cardinality(Leases(s)') <= read.attempts + 1
                        ELSE /\ sub'[s].status \in Loose /\ sub'[s].attempts <= MaxRetry
                             /\ Cardinality(Leases(s)') <= sub'[s].attempts
      OBVIOUS
    <3>1. s \notin raced /\ read.gen = sub[s].gen /\ Leases(s)' = Leases(s)
          /\ sub'[s].gen = sub[s].gen
      BY <2>4, <2>6
    <3>2. CASE tick[t].pc = "reclaim"
      BY <2>1, <3>1, <3>2
    <3>3. CASE tick[t].pc # "reclaim"
      BY <2>1, <2>4, <3>1, <3>3
    <3> QED BY <3>2, <3>3
  <2> QED BY <2>4, <2>5, <2>7 DEF read
<1>4. \A g \in tick[t].pick : tick[t].pc = "write" /\ g[1] \notin tick[t].list
  BY <1>2 DEF Relied
<1> QED BY <1>2, <1>3, <1>4 DEF Relied

-------------------------------------------------------------------------------
(* Everybody but the ticks *)

\* What they do to a row: nothing, or it is created, finished by a handle, answered,
\* terminated or requeued.
Moves(s) ==
  LET old == sub[s]
      new == sub'[s]
  IN
  \/ /\ requeued'[s] = requeued[s]
     /\ \/ /\ new.status = old.status /\ new.gen = old.gen /\ new.attempts = old.attempts
           /\ new.owner = old.owner /\ new.placed = old.placed
        \/ /\ old.status = "absent" /\ new.status \in {"QUEUED", "WAITING_DEPENDENCY"}
           /\ new.attempts = 0
        \/ /\ old.status # "absent" /\ new.status \in {"SUCCESS", "CANCELLED"}
           /\ new.gen = old.gen /\ new.attempts = old.attempts
        \/ /\ Leased(old) /\ new.status = "QUEUED" /\ new.gen = old.gen + 1
           /\ new.attempts = old.attempts + 1 /\ new.attempts <= MaxRetry
        \/ /\ Leased(old) /\ new.status = "DLQ" /\ new.gen = old.gen
           /\ new.attempts = old.attempts + 1
  \/ /\ old.status # "absent" /\ new.status = "QUEUED"
     /\ s \notin raced' => /\ new.gen = old.gen + 1 /\ new.attempts = 0
                           /\ requeued'[s] = old.gen

OthersMove == UNCHANGED <<tick, holders>> /\ raced \subseteq raced' /\ \A s \in SubTask : Moves(s)

LEMMA MovesCounted ==
  ASSUME TypeOK, TypeOK', LeaseInv, OthersMove
  PROVE  Counted'
<1>1. ASSUME NEW s \in SubTask \ raced'
      PROVE  /\ sub'[s].attempts <= MaxRetry + 1
             /\ sub'[s].status \in {"WAITING_DEPENDENCY", "QUEUED", "ASSIGNED"} =>
                  sub'[s].attempts <= MaxRetry
             /\ IsFiniteSet(Leases(s)')
             /\ Cardinality(Leases(s)') <= sub'[s].attempts + 1
             /\ sub'[s].status \notin {"ASSIGNED", "SUCCESS", "CANCELLED"} =>
                  Cardinality(Leases(s)') <= sub'[s].attempts
  <2>0. s \notin raced /\ Moves(s) /\ UNCHANGED holders
    BY DEF OthersMove
  <2>1. /\ sub[s] \in Row /\ sub'[s] \in Row /\ sub[s].attempts \in Nat /\ sub[s].gen \in Nat
        /\ MaxRetry \in Nat /\ IsFiniteSet(Leases(s)) /\ Cardinality(Leases(s)) \in Nat
        /\ sub'[s].attempts \in Nat
    BY <2>0, Constants, RowTyped, LeasesTyped DEF TypeOK
  <2>2. /\ sub[s].attempts <= MaxRetry + 1
        /\ sub[s].status \in {"WAITING_DEPENDENCY", "QUEUED", "ASSIGNED"} =>
             sub[s].attempts <= MaxRetry
        /\ Cardinality(Leases(s)) <= sub[s].attempts + 1
        /\ sub[s].status \notin {"ASSIGNED", "SUCCESS", "CANCELLED"} =>
             Cardinality(Leases(s)) <= sub[s].attempts
    BY <2>0 DEF LeaseInv, Counted
  <2>3. requeued'[s] = requeued[s] => Leases(s)' = Leases(s)
    BY <2>0 DEF Leases
  <2>4. requeued'[s] = sub[s].gen => Leases(s)' = {}
    <3>1. \A h \in holders : h[1] = s => h[2] \in Nat /\ h[2] <= sub[s].gen
      BY <2>0 DEF TypeOK, LeaseInv, Ledgered
    <3> QED BY <2>0, <2>1, <3>1 DEF Leases
  <2>5. sub[s].status = "absent" => Cardinality(Leases(s)) = 0
    BY LeasesTyped, FS_EmptySet
  <2>6. IsFiniteSet({}) /\ Cardinality({}) = 0
    BY FS_EmptySet
  <2>7. CASE requeued'[s] = requeued[s] /\ Leases(s)' = Leases(s)
    BY <2>0, <2>1, <2>2, <2>4, <2>5, <2>6, <2>7 DEF Moves, Leased
  <2>8. CASE requeued'[s] = sub[s].gen /\ sub'[s].status = "QUEUED" /\ sub'[s].attempts = 0
    BY <2>1, <2>4, <2>6, <2>8
  <2> QED BY <2>0, <2>3, <2>7, <2>8 DEF Moves
<1> QED BY <1>1 DEF Counted

LEMMA MovesExclude ==
  ASSUME LeaseInv, OthersMove
  PROVE  /\ ProfileExclusive'
         /\ \A s \in SubTask : Leased(sub'[s]) =>
              /\ Leased(sub[s]) /\ sub'[s].owner = sub[s].owner /\ sub'[s].gen = sub[s].gen
              /\ sub'[s].placed = sub[s].placed
<1>1. \A s \in SubTask : Leased(sub'[s]) =>
        /\ Leased(sub[s]) /\ sub'[s].owner = sub[s].owner /\ sub'[s].gen = sub[s].gen
        /\ sub'[s].placed = sub[s].placed
  BY DEF OthersMove, Moves, Leased
<1>2. ProfileExclusive'
  BY <1>1 DEF LeaseInv, ProfileExclusive, OthersMove
<1> QED BY <1>1, <1>2

LEMMA MovesGoOn ==
  ASSUME TypeOK, TypeOK', LeaseInv, OthersMove
  PROVE  GoesOn
<1>1. ASSUME NEW s \in SubTask, sub[s].status # "absent"
      PROVE  /\ sub'[s].status # "absent"
             /\ s \notin raced' => /\ Ahead(sub[s], sub'[s])
                                   /\ sub'[s].gen = sub[s].gen => Leases(s)' = Leases(s)
  <2>1. sub[s] \in Row /\ sub'[s] \in Row /\ Moves(s) /\ UNCHANGED holders
    BY DEF TypeOK, OthersMove
  <2>2. sub[s].gen \in Nat /\ sub'[s].gen \in Nat
    BY <2>1, RowTyped
  <2>3. requeued'[s] = requeued[s] => Leases(s)' = Leases(s)
    BY <2>1 DEF Leases
  <2>4. s \notin raced' => Ahead(sub[s], sub'[s])
                           /\ (sub'[s].gen = sub[s].gen => requeued'[s] = requeued[s])
    BY <1>1, <2>1, <2>2 DEF Moves, Ahead, Loose, Leased
  <2>5. sub'[s].status # "absent"
    BY <1>1, <2>1 DEF Moves, Leased
  <2> QED BY <2>3, <2>4, <2>5
<1> QED BY <1>1 DEF GoesOn, OthersMove

\* The leases, after such a step, are still of rows that exist.
LEMMA MovesLedgered ==
  ASSUME TypeOK, TypeOK', LeaseInv, OthersMove
  PROVE  /\ \A h \in holders : /\ sub'[h[1]].status # "absent"
                               /\ h[1] \notin raced' => h[2] <= sub'[h[1]].gen
         /\ \A s \in SubTask : Leased(sub'[s]) =>
              sub'[s].placed /\ <<s, sub'[s].gen, sub'[s].owner>> \in holders
         /\ \A m \in results :
              /\ LeaseOf(m) \in holders
              /\ m.job[1] \notin raced' /\ Leased(sub'[m.job[1]]) =>
                   m.job[2] # sub'[m.job[1]].gen
<1>1. ASSUME NEW h \in holders
      PROVE  /\ sub'[h[1]].status # "absent"
             /\ h[1] \notin raced' => h[2] <= sub'[h[1]].gen
  <2>1. h[1] \in SubTask /\ h[2] \in Nat /\ sub[h[1]].gen \in Nat /\ sub'[h[1]].gen \in Nat
    BY RowTyped DEF TypeOK
  <2>2. sub[h[1]].status # "absent" /\ (h[1] \notin raced => h[2] <= sub[h[1]].gen)
    BY DEF LeaseInv, Ledgered
  <2>3. /\ sub'[h[1]].status # "absent"
        /\ h[1] \notin raced' => h[1] \notin raced /\ sub[h[1]].gen <= sub'[h[1]].gen
    BY <2>1, <2>2, MovesGoOn DEF GoesOn, Ahead
  <2> QED BY <2>1, <2>2, <2>3
<1>2. \A s \in SubTask : Leased(sub'[s]) =>
        sub'[s].placed /\ <<s, sub'[s].gen, sub'[s].owner>> \in holders
  BY MovesExclude DEF LeaseInv, Ledgered
<1>3. ASSUME NEW m \in results
      PROVE  /\ LeaseOf(m) \in holders
             /\ m.job[1] \notin raced' /\ Leased(sub'[m.job[1]]) => m.job[2] # sub'[m.job[1]].gen
  <2>1. m.job[1] \in SubTask
    BY DEF TypeOK, Result, Job
  <2> QED BY <2>1, MovesExclude DEF LeaseInv, Ledgered, OthersMove
<1> QED BY <1>1, <1>2, <1>3

LEMMA MovesInvariant ==
  ASSUME TypeOK, TypeOK', LeaseInv, OthersMove,
         \A s \in SubTask \ Probe : task'[TaskOf[s]] = "absent" => sub'[s].status = "absent",
         \A d \in Device : \A j \in agent'[d].todo \cup agent'[d].cur : <<j[1], j[2], d>> \in holders,
         \A m \in wire' \ wire : IF m.kind = "result" THEN LeaseOf(m) \in holders
                                 ELSE sub'[m.subtask].status # "absent",
         \A m \in results' \ results : LeaseOf(m) \in holders /\ ~Leased(sub'[m.job[1]]),
         \A o \in Operator : \A q \in review'[o] : q \in review[o] \/ sub[q.subtask].status # "absent"
  PROVE  LeaseInv'
<1>1. ASSUME NEW m \in wire'
      PROVE  IF m.kind = "result" THEN LeaseOf(m) \in holders ELSE sub'[m.subtask].status # "absent"
  <2>1. CASE m \in wire /\ m.kind # "result"
    <3>1. m.subtask \in SubTask /\ sub[m.subtask].status # "absent"
      BY <2>1 DEF TypeOK, Result, Handle, LeaseInv, Ledgered
    <3> QED BY <2>1, <3>1, MovesGoOn DEF GoesOn
  <2> QED BY <2>1 DEF LeaseInv, Ledgered
<1>2. ASSUME NEW o \in Operator, NEW q \in review'[o] PROVE sub'[q.subtask].status # "absent"
  <2>1. q.subtask \in SubTask
    BY DEF TypeOK, Review
  <2>2. sub[q.subtask].status # "absent"
    BY DEF LeaseInv, Ledgered
  <2> QED BY <2>1, <2>2, MovesGoOn DEF GoesOn
<1>3. UNCHANGED <<tick, holders>>
  BY DEF OthersMove
<1>4. Ledgered'
  BY <1>1, <1>2, <1>3, MovesLedgered DEF Ledgered, LeaseOf
<1>5. \A t \in TickRequest : Relied(t)'
  BY <1>3, ReliedKept, MovesGoOn
<1> QED BY <1>4, <1>5, MovesCounted, MovesExclude DEF LeaseInv

LEMMA TasksKeepLeases ==
  ASSUME TypeOK, TypeOK', LeaseInv, (\E k \in Task : CreateTask(k)) \/ ScheduledTick \/ ProbeTick
  PROVE  LeaseInv'
<1>1. UNCHANGED <<tick, holders, review, agent, wire, results, requeued, raced>>
  BY DEF CreateTask, ScheduledTick, ProbeTick
<1>2. /\ sub \in [SubTask -> Row] /\ TaskOf \in [SubTask -> Task]
      /\ task \in [Task -> {"absent", "PENDING", "QUEUED", "MISSED"}]
  BY Constants DEF TypeOK
<1>3. ASSUME NEW status \in SubStatus
      PROVE  [Absent EXCEPT !.status = status].status = status
             /\ [Absent EXCEPT !.status = status].attempts = 0
  BY DEF Absent
<1>4. ASSUME NEW k \in Task, CreateTask(k)
      PROVE  /\ \A s \in SubTask : Moves(s)
             /\ \A s \in SubTask \ Probe : task'[TaskOf[s]] = "absent" => sub'[s].status = "absent"
  <2>1. \A s \in SubTask : TaskOf[s] # k \/ s \in Probe => sub'[s] = sub[s]
    BY <1>4 DEF CreateTask
  <2>2. \A s \in SubTask \ Probe : TaskOf[s] = k => sub[s].status = "absent"
    BY <1>4 DEF CreateTask, LeaseInv, Ledgered
  <2>3. ASSUME NEW s \in SubTask \ Probe, TaskOf[s] = k
        PROVE  sub'[s].status \in {"QUEUED", "WAITING_DEPENDENCY"} /\ sub'[s].attempts = 0
    BY <1>3, <1>4, <2>3 DEF CreateTask, SubStatus
  <2>4. \A s \in SubTask : Moves(s)
    BY <1>1, <2>1, <2>2, <2>3 DEF Moves
  <2>5. \A j \in Task : task'[j] = "absent" => task[j] = "absent" /\ j # k
    BY <1>2, <1>4 DEF CreateTask
  <2> QED BY <1>2, <2>1, <2>4, <2>5 DEF LeaseInv, Ledgered
<1>5. ASSUME ScheduledTick
      PROVE  /\ \A s \in SubTask : Moves(s)
             /\ \A s \in SubTask \ Probe : task'[TaskOf[s]] = "absent" => sub'[s].status = "absent"
  <2>1. \A k \in Task : task'[k] = "absent" => task[k] = "absent"
    BY <1>2, <1>5 DEF ScheduledTick
  <2>2. UNCHANGED sub
    BY <1>5 DEF ScheduledTick
  <2> QED BY <1>1, <1>2, <2>1, <2>2 DEF LeaseInv, Ledgered, Moves
<1>6. ASSUME ProbeTick
      PROVE  /\ \A s \in SubTask : Moves(s)
             /\ \A s \in SubTask \ Probe : task'[TaskOf[s]] = "absent" => sub'[s].status = "absent"
  <2>1. PICK new \in SUBSET {s \in SubTask : sub[s].status = "absent" /\ s \in Probe} :
    /\ sub' = [s \in SubTask |-> IF s \in new THEN [Absent EXCEPT !.status = "QUEUED"]
                                 ELSE sub[s]]
    /\ task' = [k \in Task |-> IF \E s \in new : TaskOf[s] = k THEN "QUEUED" ELSE task[k]]
    BY <1>6 DEF ProbeTick
  <2>2. \A k \in Task : task'[k] = "absent" => task[k] = "absent"
    BY <2>1
  <2>3. /\ \A s \in new : sub[s].status = "absent" /\ sub'[s].status = "QUEUED"
                          /\ sub'[s].attempts = 0
        /\ \A s \in SubTask \ new : sub'[s] = sub[s]
    BY <1>3, <2>1 DEF SubStatus
  <2>4. \A s \in SubTask : Moves(s)
    BY <1>1, <2>3 DEF Moves
  <2> QED BY <1>2, <2>1, <2>2, <2>3, <2>4 DEF LeaseInv, Ledgered
<1>7. /\ \A s \in SubTask : Moves(s)
      /\ \A s \in SubTask \ Probe : task'[TaskOf[s]] = "absent" => sub'[s].status = "absent"
  BY <1>4, <1>5, <1>6
<1>8. \A d \in Device : \A j \in agent'[d].todo \cup agent'[d].cur : <<j[1], j[2], d>> \in holders
  BY <1>1 DEF LeaseInv, Ledgered
<1>9. OthersMove
  BY <1>1, <1>7 DEF OthersMove
<1> QED BY <1>1, <1>7, <1>8, <1>9, MovesInvariant

\* Time, and the agents' other requests, leave the leases alone.
LEMMA OthersKeepLeases ==
  ASSUME TypeOK, TypeOK', LeaseInv,
         \/ \E s \in SubTask : Expire(s)
         \/ \E a \in Account : MoveAccount(a) \/ CoolDown(a)
         \/ \E d \in Device : Renew(d) \/ Heartbeat(d) \/ GoSilent(d)
  PROVE  LeaseInv'
<1>1. UNCHANGED <<task, review, agent, wire, results, tick, holders, requeued, raced>>
  BY DEF Expire, MoveAccount, CoolDown, Renew, Heartbeat, GoSilent
<1>2. sub \in [SubTask -> Row] /\ agent \in [Device -> Loop]
  BY DEF TypeOK, Loop
<1>3. ASSUME NEW s \in SubTask, NEW late \in BOOLEAN, sub' = [sub EXCEPT ![s].late = late]
      PROVE  \A r \in SubTask : Moves(r) /\ sub'[r].status = sub[r].status
  <2>1. /\ sub'[s].status = sub[s].status /\ sub'[s].gen = sub[s].gen
        /\ sub'[s].attempts = sub[s].attempts /\ sub'[s].owner = sub[s].owner
        /\ sub'[s].placed = sub[s].placed
    BY <1>2, <1>3 DEF Row
  <2>2. \A r \in SubTask \ {s} : sub'[r] = sub[r]
    BY <1>2, <1>3
  <2> QED BY <1>1, <2>1, <2>2 DEF Moves
<1>4. ASSUME \/ \E a \in Account : MoveAccount(a) \/ CoolDown(a)
             \/ \E d \in Device : Heartbeat(d) \/ GoSilent(d)
      PROVE  \A r \in SubTask : Moves(r) /\ sub'[r].status = sub[r].status
  <2>1. UNCHANGED sub
    BY <1>4 DEF MoveAccount, CoolDown, Heartbeat, GoSilent
  <2> QED BY <1>1, <2>1 DEF Moves
<1>5. ASSUME NEW d \in Device, Renew(d)
      PROVE  \A r \in SubTask : Moves(r) /\ sub'[r].status = sub[r].status
  <2>1. PICK j \in agent[d].cur : sub' = [sub EXCEPT ![j[1]].late = FALSE]
    BY <1>5 DEF Renew
  <2>2. j[1] \in SubTask
    BY <1>2 DEF Loop, Job
  <2> QED BY <1>3, <2>1, <2>2
<1>6. ASSUME NEW s \in SubTask, Expire(s)
      PROVE  \A r \in SubTask : Moves(r) /\ sub'[r].status = sub[r].status
  BY <1>3, <1>6 DEF Expire
<1>7. \A r \in SubTask : Moves(r) /\ sub'[r].status = sub[r].status
  BY <1>4, <1>5, <1>6
<1>8. /\ \A s \in SubTask \ Probe : task'[TaskOf[s]] = "absent" => sub'[s].status = "absent"
      /\ \A d \in Device : \A j \in agent'[d].todo \cup agent'[d].cur :
           <<j[1], j[2], d>> \in holders
  BY <1>1, <1>7 DEF LeaseInv, Ledgered
<1> QED BY <1>1, <1>7, <1>8, MovesInvariant DEF OthersMove

\* An operator reads a dead letter, and writes it by its key whatever it has become.
LEMMA OperatorsKeepLeases ==
  ASSUME TypeOK, TypeOK', LeaseInv, NEW o \in Operator,
         \/ \E s \in SubTask, wants \in {"requeue", "terminate"} : OpenLetter(o, s, wants)
         \/ Judgement(o)
  PROVE  LeaseInv'
<1>1. UNCHANGED <<task, agent, wire, results, tick, holders>>
  BY DEF OpenLetter, Judgement, Requeue, Terminate
<1>2. /\ sub \in [SubTask -> Row] /\ requeued \in [SubTask -> Nat]
      /\ review \in [Operator -> SUBSET Review]
  BY DEF TypeOK
<1>3. \A q \in review[o] : q.subtask \in SubTask /\ sub[q.subtask].status # "absent"
  BY <1>2 DEF LeaseInv, Ledgered, Review
<1>4. ASSUME OthersMove,
             \A s \in SubTask : sub[s].status = "absent" => sub'[s].status = "absent",
             \A p \in Operator : \A q \in review'[p] :
               q \in review[p] \/ sub[q.subtask].status # "absent"
      PROVE  LeaseInv'
  <2>1. /\ \A s \in SubTask \ Probe : task'[TaskOf[s]] = "absent" => sub'[s].status = "absent"
        /\ \A d \in Device : \A j \in agent'[d].todo \cup agent'[d].cur :
             <<j[1], j[2], d>> \in holders
    BY <1>1, <1>4 DEF LeaseInv, Ledgered
  <2> QED BY <1>1, <1>4, <2>1, MovesInvariant
<1>5. ASSUME NEW s \in SubTask, NEW wants, OpenLetter(o, s, wants) PROVE LeaseInv'
  <2>1. UNCHANGED <<sub, requeued, raced>> /\ sub[s].status = "DLQ"
    BY <1>5 DEF OpenLetter
  <2>2. \A p \in Operator : \A q \in review'[p] : q \in review[p] \/ q.subtask = s
    BY <1>2, <1>5 DEF OpenLetter
  <2>3. OthersMove
    BY <1>1, <2>1 DEF OthersMove, Moves
  <2> QED BY <1>4, <2>1, <2>2, <2>3
<1>6. ASSUME Terminate(o) PROVE LeaseInv'
  <2>1. PICK q \in review[o] : sub' = [sub EXCEPT ![q.subtask].status = "CANCELLED",
                                                  ![q.subtask].owner = NoDevice]
    BY <1>6 DEF Terminate
  <2> DEFINE s == q.subtask
  <2>2. /\ sub'[s].status = "CANCELLED" /\ sub'[s].gen = sub[s].gen
        /\ sub'[s].attempts = sub[s].attempts /\ sub[s].status # "absent" /\ s \in SubTask
        /\ \A r \in SubTask \ {s} : sub'[r] = sub[r]
    BY <1>2, <1>3, <2>1 DEF Row
  <2>3. UNCHANGED <<requeued, raced>> /\ \A p \in Operator : review'[p] \subseteq review[p]
    BY <1>2, <1>6 DEF Terminate
  <2>4. OthersMove
    BY <1>1, <2>2, <2>3 DEF OthersMove, Moves
  <2> QED BY <1>4, <2>2, <2>3, <2>4
<1>7. ASSUME Requeue(o) PROVE LeaseInv'
  <2>1. PICK q \in review[o] :
          LET s == q.subtask IN
          /\ sub' = [sub EXCEPT ![s].status = "QUEUED", ![s].gen = q.gen + 1,
                                ![s].attempts = 0, ![s].owner = NoDevice]
          /\ requeued' = [requeued EXCEPT ![s] = q.gen]
          /\ raced' = IF sub[s].gen # q.gen THEN raced \cup {s} ELSE raced
    BY <1>7 DEF Requeue
  <2> DEFINE s == q.subtask
             gen == q.gen + 1
  <2>2. sub[s].status # "absent" /\ s \in SubTask
    BY <1>3
  <2>3. /\ sub' = [sub EXCEPT ![s] =
                [sub[s] EXCEPT !.status = "QUEUED", !.gen = gen, !.attempts = 0,
                               !.owner = NoDevice]]
        /\ requeued' = [requeued EXCEPT ![s] = q.gen]
        /\ raced \subseteq raced' /\ (s \notin raced' => sub[s].gen = q.gen)
    BY <2>1
  <2> HIDE DEF gen
  <2>4. /\ sub'[s].status = "QUEUED" /\ sub'[s].gen = gen /\ sub'[s].attempts = 0
        /\ requeued'[s] = q.gen
        /\ \A r \in SubTask \ {s} : sub'[r] = sub[r] /\ requeued'[r] = requeued[r]
    BY <1>2, <2>2, <2>3 DEF Row
  <2>5. \A p \in Operator : review'[p] \subseteq review[p]
    BY <1>2, <1>7 DEF Requeue
  <2>6. OthersMove
    BY <1>1, <2>2, <2>3, <2>4 DEF OthersMove, Moves, gen
  <2> QED BY <1>4, <2>2, <2>4, <2>5, <2>6
<1> QED BY <1>5, <1>6, <1>7 DEF Judgement

\* Pull(d) takes what is leased to d; the rest of the loop goes on with that.
LEMMA AgentsKeepLeases ==
  ASSUME TypeOK, TypeOK', LeaseInv, NEW d \in Device, AgentStep(d) \/ Crash(d)
  PROVE  LeaseInv'
<1>1. UNCHANGED <<sub, task, results, tick, review, holders, requeued, raced>>
  BY DEF AgentStep, Pull, Report, SendHandle, GoOn, Crash
<1>2. sub \in [SubTask -> Row] /\ agent \in [Device -> Loop] /\ agent[d] \in Loop
  BY DEF TypeOK, Loop
<1>3. OthersMove
  BY <1>1 DEF OthersMove, Moves
<1>4. \A j \in agent[d].todo \cup agent[d].cur :
        /\ j \in Job /\ j[1] \in SubTask /\ <<j[1], j[2], d>> \in holders
        /\ sub[j[1]].status # "absent"
  <2>1. ASSUME NEW j \in agent[d].todo \cup agent[d].cur
        PROVE  /\ j \in Job /\ j[1] \in SubTask /\ <<j[1], j[2], d>> \in holders
               /\ sub[<<j[1], j[2], d>>[1]].status # "absent"
    BY <1>2 DEF LeaseInv, Ledgered, Loop, Job
  <2> QED BY <2>1
<1>5. \A e \in Device \ {d} : agent'[e] = agent[e]
  BY <1>2 DEF AgentStep, Pull, Report, SendHandle, GoOn, Crash, Send
<1>6. ASSUME NEW jobs \in SUBSET Job, NEW next \in Onward(jobs), agent' = [agent EXCEPT ![d] = next],
             \A j \in jobs : <<j[1], j[2], d>> \in holders
      PROVE  \A j \in agent'[d].todo \cup agent'[d].cur : <<j[1], j[2], d>> \in holders
  BY <1>2, <1>6, OnwardTyped
<1>7. ASSUME NEW m, NEW pc, Send(d, m, pc)
      PROVE  /\ agent'[d].todo = agent[d].todo /\ agent'[d].cur = agent[d].cur
             /\ wire' = wire \cup {m}
  BY <1>2, <1>7 DEF Send, Loop
<1>8. CASE Pull(d)
  <2> DEFINE jobs == {<<s, sub[s].gen>> : s \in {r \in SubTask : Leased(sub[r]) /\ sub[r].owner = d}}
  <2>1. jobs \in SUBSET Job /\ \A j \in jobs : <<j[1], j[2], d>> \in holders
    BY <1>2, RowTyped DEF Job, LeaseInv, Ledgered
  <2>2. PICK next \in Onward(jobs) : agent' = [agent EXCEPT ![d] = next]
    BY <1>8 DEF Pull
  <2>4. UNCHANGED wire
    BY <1>8 DEF Pull
  <2> HIDE DEF jobs
  <2>3. \A j \in agent'[d].todo \cup agent'[d].cur : <<j[1], j[2], d>> \in holders
    BY <1>6, <2>1, <2>2
  <2> QED BY <1>1, <1>3, <1>5, <2>3, <2>4, MovesInvariant DEF LeaseInv, Ledgered
<1>9. CASE Report(d)
  <2>1. PICK j \in agent[d].cur, outcome \in Outcomes, pc \in {"prove", "next"} :
          Send(d, [kind |-> "result", job |-> j, device |-> d, outcome |-> outcome], pc)
    BY <1>9 DEF Report
  <2> DEFINE m == [kind |-> "result", job |-> j, device |-> d, outcome |-> outcome]
  <2>2. m.kind = "result" /\ LeaseOf(m) \in holders
    BY <1>4 DEF LeaseOf
  <2>3. /\ agent'[d].todo = agent[d].todo /\ agent'[d].cur = agent[d].cur
        /\ wire' = wire \cup {m}
    BY <1>7, <2>1
  <2> HIDE DEF m
  <2> QED BY <1>1, <1>3, <1>5, <2>2, <2>3, MovesInvariant DEF LeaseInv, Ledgered
<1>10. CASE SendHandle(d)
  <2>1. PICK j \in agent[d].cur, e \in Evidence \ {"none"} :
         Send(d, [kind |-> "handle", subtask |-> j[1], verified |-> e = "VERIFIED"], "next")
    BY <1>10 DEF SendHandle
  <2> DEFINE m == [kind |-> "handle", subtask |-> j[1], verified |-> e = "VERIFIED"]
  <2>2. m.kind = "handle" /\ m.subtask = j[1]
    OBVIOUS
  <2>3. /\ agent'[d].todo = agent[d].todo /\ agent'[d].cur = agent[d].cur
        /\ wire' = wire \cup {m}
    BY <1>7, <2>1
  <2> HIDE DEF m
  <2>4. sub'[m.subtask].status # "absent"
    BY <1>1, <1>4, <2>2
  <2> QED BY <1>1, <1>3, <1>5, <2>2, <2>3, <2>4, MovesInvariant DEF LeaseInv, Ledgered
<1>11. CASE GoOn(d)
  <2>1. PICK next \in Onward(agent[d].todo) : agent' = [agent EXCEPT ![d] = next]
    BY <1>11 DEF GoOn
  <2>2. agent[d].todo \in SUBSET Job
    BY <1>2 DEF Loop
  <2>3. \A j \in agent'[d].todo \cup agent'[d].cur : <<j[1], j[2], d>> \in holders
    BY <1>4, <1>6, <2>1, <2>2
  <2>4. UNCHANGED wire
    BY <1>11 DEF GoOn
  <2> QED BY <1>1, <1>3, <1>5, <2>3, <2>4, MovesInvariant DEF LeaseInv, Ledgered
<1>12. CASE Crash(d)
  <2>1. agent'[d].todo = {} /\ agent'[d].cur = {} /\ UNCHANGED wire
    BY <1>2, <1>12 DEF Crash, Resting
  <2> QED BY <1>1, <1>3, <1>5, <2>1, MovesInvariant DEF LeaseInv, Ledgered
<1> QED BY <1>8, <1>9, <1>10, <1>11, <1>12 DEF AgentStep

\* A result is of a lease, and answers it; a handle finishes a row that exists.
LEMMA RequestsKeepLeases ==
  ASSUME TypeOK, TypeOK', LeaseInv, NEW m \in wire, Deliver(m) \/ Lose(m)
  PROVE  LeaseInv'
<1>1. /\ sub \in [SubTask -> Row] /\ wire \subseteq Result \cup Handle /\ wire' \subseteq wire
      /\ UNCHANGED <<task, tick, review, agent, holders, requeued, raced>>
  BY DEF TypeOK, Deliver, Lose
<1>2. \A d \in Device : \A j \in agent'[d].todo \cup agent'[d].cur : <<j[1], j[2], d>> \in holders
  BY <1>1 DEF LeaseInv, Ledgered
<1>3. CASE UNCHANGED <<sub, results>>
  <2>1. OthersMove
    BY <1>1, <1>3 DEF OthersMove, Moves
  <2> QED BY <1>1, <1>2, <1>3, <2>1, MovesInvariant DEF LeaseInv, Ledgered
<1>4. CASE Deliver(m) /\ m.kind = "result" /\ Accepts(m)
  <2>1. m.job[1] \in SubTask /\ m.outcome \in Outcomes
    BY <1>1, <1>4 DEF Result, Handle, Job
  <2> DEFINE s == m.job[1]
  <2>2. sub' = [sub EXCEPT ![s] = Answered(@, m.outcome)] /\ results' = results \cup {m}
    BY <1>4 DEF Deliver, SubmitResult
  <2>3. sub'[s] = Answered(sub[s], m.outcome) /\ \A r \in SubTask \ {s} : sub'[r] = sub[r]
    BY <1>1, <2>1, <2>2
  <2>4. /\ \/ sub'[s].status = "SUCCESS" /\ sub'[s].gen = sub[s].gen
                /\ sub'[s].attempts = sub[s].attempts
           \/ /\ sub[s].attempts + 1 <= MaxRetry /\ sub'[s].status = "QUEUED"
              /\ sub'[s].gen = sub[s].gen + 1 /\ sub'[s].attempts = sub[s].attempts + 1
           \/ sub'[s].status = "DLQ" /\ sub'[s].gen = sub[s].gen
                /\ sub'[s].attempts = sub[s].attempts + 1
        /\ sub[s] \in Row
    BY <1>1, <2>1, <2>3, AnsweredTyped
  <2>5. Leased(sub[s]) /\ LeaseOf(m) \in holders
    BY <1>4 DEF Accepts, LeaseInv, Ledgered
  <2>6. OthersMove
    BY <1>1, <2>3, <2>4, <2>5 DEF OthersMove, Moves, Leased
  <2>7. \A r \in SubTask \ Probe : task'[TaskOf[r]] = "absent" => sub'[r].status = "absent"
    <3>1. \A r \in SubTask : sub[r].status = "absent" => sub'[r].status = "absent"
      BY <2>3, <2>5 DEF Leased
    <3> QED BY <1>1, <3>1 DEF LeaseInv, Ledgered
  <2>8. ~Leased(sub'[s])
    BY <2>4 DEF Leased
  <2> QED BY <1>1, <1>2, <2>2, <2>5, <2>6, <2>7, <2>8, MovesInvariant
<1>5. CASE Deliver(m) /\ m.kind # "result"
  <2>1. m.subtask \in SubTask /\ sub[m.subtask].status # "absent"
    BY <1>1, <1>5 DEF Result, Handle, LeaseInv, Ledgered
  <2> DEFINE s == m.subtask
  <2>2. sub' = [sub EXCEPT ![s].status = "SUCCESS", ![s].late = FALSE] /\ UNCHANGED results
    BY <1>5 DEF Deliver, SubmitHandle
  <2>3. /\ sub'[s].status = "SUCCESS" /\ sub'[s].gen = sub[s].gen
        /\ sub'[s].attempts = sub[s].attempts
        /\ \A r \in SubTask \ {s} : sub'[r] = sub[r]
    BY <1>1, <2>1, <2>2 DEF Row
  <2>4. OthersMove
    BY <1>1, <2>1, <2>3 DEF OthersMove, Moves
  <2>5. \A r \in SubTask \ Probe : task'[TaskOf[r]] = "absent" => sub'[r].status = "absent"
    <3>1. \A r \in SubTask : sub[r].status = "absent" => sub'[r].status = "absent"
      BY <2>1, <2>3
    <3> QED BY <1>1, <3>1 DEF LeaseInv, Ledgered
  <2> QED BY <1>1, <1>2, <2>2, <2>4, <2>5, MovesInvariant
<1> QED BY <1>3, <1>4, <1>5 DEF Deliver, Lose, SubmitResult

-------------------------------------------------------------------------------
(* The ticks.  What a tick has in hand, the rows `cur` and the leases `H`, is as sound *)
(* as what is stored, but for the subtasks R that race.                                *)

LeasesIn(H, s) == {h \in H : h[1] = s /\ h[2] > requeued[s]}

Sound(cur, H, R) ==
  /\ \A s \in SubTask \ Probe : task[TaskOf[s]] = "absent" => cur[s].status = "absent"
  /\ \A h \in H : cur[h[1]].status # "absent" /\ (h[1] \notin R => h[2] <= cur[h[1]].gen)
  /\ \A s \in SubTask : Leased(cur[s]) => cur[s].placed /\ <<s, cur[s].gen, cur[s].owner>> \in H
  /\ \A m \in wire : m.kind # "result" => cur[m.subtask].status # "absent"
  /\ \A m \in results :
       /\ LeaseOf(m) \in H
       /\ m.job[1] \notin R /\ Leased(cur[m.job[1]]) => m.job[2] # cur[m.job[1]].gen
  /\ \A o \in Operator : \A q \in review[o] : cur[q.subtask].status # "absent"
  /\ \A s \in SubTask \ R :
       /\ cur[s].attempts <= MaxRetry + 1
       /\ cur[s].status \in {"WAITING_DEPENDENCY", "QUEUED", "ASSIGNED"} =>
            cur[s].attempts <= MaxRetry
       /\ IsFiniteSet(LeasesIn(H, s)) /\ Cardinality(LeasesIn(H, s)) <= cur[s].attempts + 1
       /\ cur[s].status \notin {"ASSIGNED", "SUCCESS", "CANCELLED"} =>
            Cardinality(LeasesIn(H, s)) <= cur[s].attempts
  /\ \A r, s \in SubTask \ R : r # s /\ Leased(cur[r]) /\ Leased(cur[s]) => ~SameProfile(r, s)

LEMMA SoundNow ==
  ASSUME LeaseInv, NEW R, raced \subseteq R
  PROVE  Sound(sub, holders, R) /\ \A s \in SubTask : LeasesIn(holders, s) = Leases(s)
<1>1. \A s \in SubTask : LeasesIn(holders, s) = Leases(s)
  BY DEF LeasesIn, Leases
<1>2. SubTask \ R \subseteq SubTask \ raced
  OBVIOUS
<1> QED BY <1>1, <1>2 DEF LeaseInv, Ledgered, Counted, ProfileExclusive, Sound

\* What may be leased: nobody has it, and it has an attempt left.
Ready(cur, H, s) ==
  /\ cur[s].status \in Loose /\ cur[s].attempts <= MaxRetry
  /\ Cardinality(LeasesIn(H, s)) <= cur[s].attempts

\* The rows and leases in hand go on from those stored.
Carried(cur, H, R) ==
  \A s \in SubTask : sub[s].status # "absent" =>
    /\ cur[s].status # "absent"
    /\ s \notin R => /\ Ahead(sub[s], cur[s])
                     /\ cur[s].gen = sub[s].gen => LeasesIn(H, s) = Leases(s)

\* What a tick has in hand when it comes to lease the subtasks of `list`.
InHand(cur, H, list, rows, R) ==
  /\ cur \in [SubTask -> Row] /\ rows \in [SubTask -> Row] /\ list \in SUBSET SubTask
  /\ H \in SUBSET (SubTask \X Nat \X Device) /\ Sound(cur, H, R) /\ Carried(cur, H, R)
  /\ \A s \in list : /\ cur[s].status # "absent"
                     /\ s \notin R /\ rows[s].gen = cur[s].gen => Ready(cur, H, s)
  /\ \A s \in Chosen(cur, list) \ R : rows[s].gen = cur[s].gen

\* The rows `nxt` lease G at once, no two of one profile and none of a busy one.
Lease(cur, H, G, nxt, R) ==
  /\ cur \in [SubTask -> Row] /\ nxt \in [SubTask -> Row] /\ G \in SUBSET SubTask
  /\ H \in SUBSET (SubTask \X Nat \X Device) /\ Sound(cur, H, R)
  /\ \A s \in G : /\ cur[s].status # "absent"
                  /\ nxt[s].status = "ASSIGNED" /\ nxt[s].placed
                  /\ s \notin R =>
                       /\ Ready(cur, H, s) /\ ~Busy(cur, s)
                       /\ \A r \in G \ {s} : ~SameProfile(r, s)
                       /\ nxt[s].gen = cur[s].gen + 1 /\ nxt[s].attempts = cur[s].attempts
  /\ \A s \in SubTask \ G :
       /\ nxt[s].status = cur[s].status /\ nxt[s].gen = cur[s].gen
       /\ nxt[s].owner = cur[s].owner /\ nxt[s].attempts = cur[s].attempts
       /\ cur[s].placed => nxt[s].placed

Plus(H, G, nxt) == H \cup {<<s, nxt[s].gen, nxt[s].owner>> : s \in G}

LEMMA GrantSound ==
  ASSUME TypeOK, NEW cur, NEW nxt, NEW H, NEW G, NEW R, Lease(cur, H, G, nxt, R)
  PROVE  /\ Sound(nxt, Plus(H, G, nxt), R)
         /\ \A s \in SubTask \ G : LeasesIn(Plus(H, G, nxt), s) = LeasesIn(H, s)
<1> DEFINE K == Plus(H, G, nxt)
<1>k. K = Plus(H, G, nxt)
  OBVIOUS
<1> HIDE DEF K
<1>0. /\ cur \in [SubTask -> Row] /\ nxt \in [SubTask -> Row] /\ G \in SUBSET SubTask
      /\ H \in SUBSET (SubTask \X Nat \X Device) /\ Sound(cur, H, R)
      /\ \A s \in G : /\ cur[s].status # "absent"
                      /\ nxt[s].status = "ASSIGNED" /\ nxt[s].placed
                      /\ s \notin R =>
                           /\ Ready(cur, H, s) /\ ~Busy(cur, s)
                           /\ \A r \in G \ {s} : ~SameProfile(r, s)
                           /\ nxt[s].gen = cur[s].gen + 1 /\ nxt[s].attempts = cur[s].attempts
      /\ \A s \in SubTask \ G :
           /\ nxt[s].status = cur[s].status /\ nxt[s].gen = cur[s].gen
           /\ nxt[s].owner = cur[s].owner /\ nxt[s].attempts = cur[s].attempts
           /\ cur[s].placed => nxt[s].placed
  BY DEF Lease
<1> USE <1>0, <1>k DEF Plus
<1>1. \A s \in SubTask : /\ cur[s] \in Row /\ nxt[s] \in Row /\ cur[s].gen \in Nat
                         /\ nxt[s].gen \in Nat /\ cur[s].attempts \in Nat
  BY RowTyped
<1>3. /\ \A s \in SubTask : nxt[s].status = "absent" <=> cur[s].status = "absent"
      /\ \A s \in SubTask \ R : cur[s].gen <= nxt[s].gen /\ nxt[s].attempts = cur[s].attempts
  BY <1>1
<1>4. \A s \in SubTask \ Probe : task[TaskOf[s]] = "absent" => nxt[s].status = "absent"
  BY <1>3 DEF Sound
<1>5. \A h \in K : nxt[h[1]].status # "absent" /\ (h[1] \notin R => h[2] <= nxt[h[1]].gen)
  <2>1. ASSUME NEW h \in H
        PROVE  nxt[h[1]].status # "absent" /\ (h[1] \notin R => h[2] <= nxt[h[1]].gen)
    <3>1. h[1] \in SubTask /\ h[2] \in Nat /\ nxt[h[1]].gen \in Nat /\ cur[h[1]].gen \in Nat
      BY RowTyped
    <3>2. cur[h[1]].status # "absent" /\ (h[1] \notin R => h[2] <= cur[h[1]].gen)
      BY DEF Sound
    <3> QED BY <1>3, <3>1, <3>2
  <2>2. ASSUME NEW s \in G
        PROVE  nxt[s].status # "absent" /\ nxt[s].gen <= nxt[s].gen
    BY <1>1
  <2> QED BY <2>1, <2>2
<1>6. \A s \in SubTask : Leased(nxt[s]) => nxt[s].placed /\ <<s, nxt[s].gen, nxt[s].owner>> \in K
  BY DEF Sound, Leased
<1>7. /\ \A m \in wire : m.kind # "result" => nxt[m.subtask].status # "absent"
      /\ \A o \in Operator : \A q \in review[o] : nxt[q.subtask].status # "absent"
  <2>1. /\ \A m \in wire : m.kind # "result" => m.subtask \in SubTask
        /\ \A o \in Operator : \A q \in review[o] : q.subtask \in SubTask
    BY DEF TypeOK, Result, Handle, Review
  <2> QED BY <1>3, <2>1 DEF Sound
<1>8. ASSUME NEW m \in results
      PROVE  /\ LeaseOf(m) \in K
             /\ m.job[1] \notin R /\ Leased(nxt[m.job[1]]) => m.job[2] # nxt[m.job[1]].gen
  <2>1. m.job[1] \in SubTask /\ m.job[2] \in Nat
    BY DEF TypeOK, Result, Job
  <2>2. LeaseOf(m) \in H /\ LeaseOf(m)[1] = m.job[1] /\ LeaseOf(m)[2] = m.job[2]
    BY DEF Sound, LeaseOf
  <2>3. m.job[1] \notin R => m.job[2] <= cur[m.job[1]].gen
    BY <2>2 DEF Sound
  <2>4. CASE m.job[1] \in G
    BY <1>1, <2>1, <2>2, <2>3, <2>4
  <2>5. CASE m.job[1] \notin G
    BY <2>1, <2>2, <2>5 DEF Sound, Leased
  <2> QED BY <2>4, <2>5
<1>9. ASSUME NEW s \in SubTask \ G PROVE LeasesIn(K, s) = LeasesIn(H, s)
  BY DEF LeasesIn
<1>10. ASSUME NEW s \in SubTask \ R
       PROVE  /\ nxt[s].attempts <= MaxRetry + 1
              /\ nxt[s].status \in {"WAITING_DEPENDENCY", "QUEUED", "ASSIGNED"} =>
                   nxt[s].attempts <= MaxRetry
              /\ IsFiniteSet(LeasesIn(K, s)) /\ Cardinality(LeasesIn(K, s)) <= nxt[s].attempts + 1
              /\ nxt[s].status \notin {"ASSIGNED", "SUCCESS", "CANCELLED"} =>
                   Cardinality(LeasesIn(K, s)) <= nxt[s].attempts
  <2>1. /\ cur[s].attempts <= MaxRetry + 1
        /\ cur[s].status \in {"WAITING_DEPENDENCY", "QUEUED", "ASSIGNED"} =>
             cur[s].attempts <= MaxRetry
        /\ IsFiniteSet(LeasesIn(H, s)) /\ Cardinality(LeasesIn(H, s)) <= cur[s].attempts + 1
        /\ cur[s].status \notin {"ASSIGNED", "SUCCESS", "CANCELLED"} =>
             Cardinality(LeasesIn(H, s)) <= cur[s].attempts
    BY DEF Sound
  <2>2. CASE s \notin G
    BY <1>3, <1>9, <2>1, <2>2
  <2>3. CASE s \in G
    <3> DEFINE x == <<s, nxt[s].gen, nxt[s].owner>>
    <3>1. LeasesIn(K, s) \subseteq LeasesIn(H, s) \cup {x}
      BY DEF LeasesIn
    <3>2. /\ IsFiniteSet(LeasesIn(H, s) \cup {x}) /\ Cardinality(LeasesIn(H, s)) \in Nat
          /\ Cardinality(LeasesIn(H, s) \cup {x}) <= Cardinality(LeasesIn(H, s)) + 1
      <4>1. IsFiniteSet(LeasesIn(H, s)) /\ Cardinality(LeasesIn(H, s)) \in Nat
        BY <2>1, FS_CardinalityType
      <4> HIDE DEF x
      <4>2. /\ IsFiniteSet(LeasesIn(H, s) \cup {x})
            /\ \/ Cardinality(LeasesIn(H, s) \cup {x}) = Cardinality(LeasesIn(H, s))
               \/ Cardinality(LeasesIn(H, s) \cup {x}) = Cardinality(LeasesIn(H, s)) + 1
        BY <4>1, FS_AddElement
      <4> QED BY <4>1, <4>2
    <3>3. /\ IsFiniteSet(LeasesIn(K, s)) /\ Cardinality(LeasesIn(K, s)) \in Nat
          /\ Cardinality(LeasesIn(K, s)) <= Cardinality(LeasesIn(H, s) \cup {x})
          /\ Cardinality(LeasesIn(H, s) \cup {x}) \in Nat
      <4> HIDE DEF x
      <4> QED BY <3>1, <3>2, FS_Subset, FS_CardinalityType
    <3>4. Cardinality(LeasesIn(H, s)) <= cur[s].attempts /\ cur[s].attempts <= MaxRetry
      BY <2>3 DEF Ready
    <3>5. nxt[s].status = "ASSIGNED" /\ nxt[s].attempts = cur[s].attempts
          /\ cur[s].attempts \in Nat /\ MaxRetry \in Nat
      BY <1>1, <2>3, Constants
    <3> HIDE DEF x
    <3> QED BY <3>2, <3>3, <3>4, <3>5
  <2> QED BY <2>2, <2>3
<1>11. ASSUME NEW r \in SubTask \ R, NEW s \in SubTask \ R, r # s, Leased(nxt[r]), Leased(nxt[s])
       PROVE  ~SameProfile(r, s)
  <2>1. ASSUME NEW u \in SubTask, NEW v \in G \ R, u # v, u \notin G, Leased(nxt[u])
        PROVE  ~SameProfile(u, v)
    <3>1. Leased(cur[u]) /\ cur[u].placed /\ ~Busy(cur, v)
      BY <2>1 DEF Sound, Leased
    <3> QED BY <2>1, <3>1 DEF Busy
  <2>2. CASE r \in G /\ s \in G
    BY <1>11, <2>2
  <2>3. CASE r \in G /\ s \notin G
    BY <1>11, <2>1, <2>3 DEF SameProfile
  <2>4. CASE r \notin G /\ s \in G
    BY <1>11, <2>1, <2>4
  <2>5. CASE r \notin G /\ s \notin G
    BY <1>11, <2>5 DEF Sound, Leased
  <2> QED BY <2>2, <2>3, <2>4, <2>5
<1>12. Sound(nxt, K, R)
  BY <1>4, <1>5, <1>6, <1>7, <1>8, <1>10, <1>11 DEF Sound
<1> QED BY <1>9, <1>12 DEF K

\* A tick that ends leaves the others what they rely on.
LEMMA FinishKeepsLeases ==
  ASSUME TypeOK, TypeOK', LeaseInv, NEW t \in TickRequest, raced \subseteq raced',
         UNCHANGED <<task, review, agent, wire, results, requeued>>,
         NEW cur, NEW rows, NEW list, NEW granted,
         InHand(cur, holders \cup granted, list, rows, raced'),
         Finish(t, cur, list, rows, granted)
  PROVE  LeaseInv'
<1> DEFINE H == holders \cup granted
           G == Chosen(cur, list)
           K == Plus(H, G, sub')
<1>a. Lease(cur, H, G, sub', raced') =>
       Sound(sub', K, raced') /\ \A s \in SubTask \ G : LeasesIn(K, s) = LeasesIn(H, s)
  <2> HIDE DEF H, G
  <2> QED BY GrantSound
<1>0. /\ cur \in [SubTask -> Row] /\ rows \in [SubTask -> Row] /\ list \in SUBSET SubTask
      /\ granted \in SUBSET (SubTask \X Nat \X Device) /\ Sound(cur, H, raced')
      /\ Carried(cur, H, raced')
      /\ \A s \in list : /\ cur[s].status # "absent"
                         /\ s \notin raced' /\ rows[s].gen = cur[s].gen => Ready(cur, H, s)
      /\ \A s \in G \ raced' : rows[s].gen = cur[s].gen
  BY DEF InHand
<1> USE <1>0
<1>1. sub' = Dispatched(cur, list, rows) /\ sub' \in [SubTask -> Row]
  BY DispatchedTyped DEF Finish, TypeOK
<1>2. /\ G \subseteq list /\ H \in SUBSET (SubTask \X Nat \X Device)
      /\ \A s \in G : PickDevice(s) \in Device /\ sub'[s] = Granted(cur[s], rows[s], PickDevice(s))
      /\ \A s \in SubTask \ G :
           /\ sub'[s].status = cur[s].status /\ sub'[s].gen = cur[s].gen
           /\ sub'[s].owner = cur[s].owner /\ sub'[s].attempts = cur[s].attempts
           /\ cur[s].placed => sub'[s].placed
  <2>1. online \subseteq Device /\ holders \subseteq SubTask \X Nat \X Device
    BY DEF TypeOK
  <2>2. H \in SUBSET (SubTask \X Nat \X Device)
    BY <2>1
  <2> HIDE DEF H, K
  <2> QED BY <1>1, <2>1, <2>2, DispatchedTyped
<1>3. ASSUME NEW s \in G
      PROVE  /\ sub'[s].status = "ASSIGNED" /\ sub'[s].owner = PickDevice(s)
             /\ sub'[s].gen = rows[s].gen + 1
             /\ sub'[s].attempts = cur[s].attempts /\ sub'[s].placed
  <2>1. s \in SubTask /\ PickDevice(s) \in Device /\ sub'[s] = Granted(cur[s], rows[s], PickDevice(s))
    BY <1>2
  <2>2. cur[s] \in Row /\ rows[s] \in Row
    BY <2>1
  <2> HIDE DEF G, H, K
  <2> QED BY <2>1, <2>2, GrantedTyped
<1>4. ASSUME NEW s \in G, s \notin raced'
      PROVE  /\ Ready(cur, H, s) /\ ~Busy(cur, s) /\ \A r \in G \ {s} : ~SameProfile(r, s)
             /\ sub'[s].gen = cur[s].gen + 1
  <2>1. Ready(cur, H, s) /\ ~Busy(cur, s) /\ s \in SubTask /\ rows[s].gen = cur[s].gen
    BY <1>2, <1>4 DEF Chosen
  <2>2. ASSUME NEW r \in G \ {s}, SameProfile(r, s) PROVE FALSE
    <3>1. r \in SubTask /\ SameProfile(s, r)
      BY <1>2, <2>2 DEF SameProfile
    <3>2. Rank[s] < Rank[r] /\ Rank[r] < Rank[s]
      BY <2>2, <3>1 DEF Chosen
    <3>3. Rank[s] \in Nat /\ Rank[r] \in Nat
      BY <2>1, <3>1, Constants
    <3> HIDE DEF G
    <3> QED BY <3>2, <3>3
  <2> QED BY <1>3, <2>1, <2>2
<1>5. holders' = K
  BY <1>3 DEF Finish, Plus
<1>6. Sound(sub', K, raced') /\ \A s \in SubTask \ G : LeasesIn(K, s) = LeasesIn(H, s)
  <2> HIDE DEF G, K
  <2>1. G \in SUBSET SubTask
    BY <1>2
  <2>2. \A s \in G : cur[s].status # "absent"
    BY <1>2
  <2>3. Lease(cur, H, G, sub', raced')
    BY <1>1, <1>2, <1>3, <1>4, <2>1, <2>2 DEF Lease, H
  <2> QED BY <1>a, <2>3
<1>7. holders \subseteq holders'
  BY <1>5 DEF Plus
<1>8. \A s \in SubTask : LeasesIn(holders', s) = Leases(s)'
  BY DEF LeasesIn, Leases
<1>9. GoesOn
  <2> SUFFICES ASSUME NEW s \in SubTask, sub[s].status # "absent"
               PROVE  /\ sub'[s].status # "absent"
                      /\ s \notin raced' => /\ Ahead(sub[s], sub'[s])
                                            /\ sub'[s].gen = sub[s].gen => Leases(s)' = Leases(s)
    BY DEF GoesOn
  <2>1. /\ cur[s].status # "absent"
        /\ s \notin raced' => /\ sub[s].gen <= cur[s].gen
                              /\ cur[s].gen = sub[s].gen /\ sub[s].status \in Loose =>
                                   cur[s].status \in Loose /\ cur[s].attempts = sub[s].attempts
                              /\ cur[s].gen = sub[s].gen => LeasesIn(H, s) = Leases(s)
    BY DEF Carried, Ahead
  <2>2. sub[s] \in Row /\ cur[s] \in Row
    BY DEF TypeOK
  <2>3. sub[s].gen \in Nat /\ cur[s].gen \in Nat
    BY <2>2, RowTyped
  <2>4. CASE s \in G
    <3>1. sub'[s].status = "ASSIGNED" /\ (s \notin raced' => sub'[s].gen = cur[s].gen + 1)
      BY <1>3, <1>4, <2>4
    <3> HIDE DEF G, H, K
    <3> QED BY <2>1, <2>3, <3>1 DEF Ahead
  <2>5. CASE s \notin G
    <3>1. /\ sub'[s].status = cur[s].status /\ sub'[s].gen = cur[s].gen
          /\ sub'[s].attempts = cur[s].attempts
      BY <1>2, <2>5
    <3>2. Leases(s)' = LeasesIn(H, s)
      BY <1>5, <1>6, <1>8, <2>5
    <3> HIDE DEF G, H, K
    <3> QED BY <2>1, <3>1, <3>2 DEF Ahead
  <2> QED BY <2>4, <2>5
<1> HIDE DEF G, K, H
<1>10. Ledgered'
  BY <1>5, <1>6, <1>7 DEF Sound, Ledgered, LeaseInv, LeaseOf
<1>11. Counted' /\ ProfileExclusive'
  BY <1>5, <1>6, <1>8 DEF Sound, Counted, ProfileExclusive
<1>12. ASSUME NEW u \in TickRequest PROVE Relied(u)'
  <2>1. CASE u = t
    <3>1. tick'[u] = Over
      BY <2>1 DEF Finish, TypeOK
    <3>2. Over.list = {} /\ Over.pick = {}
      BY DEF Over
    <3> QED BY <3>1, <3>2 DEF Relied, Candidates
  <2>2. CASE u # t
    <3>1. tick'[u] = tick[u]
      BY <2>2 DEF Finish, TypeOK
    <3> QED BY <1>9, <3>1, ReliedKept
  <2> QED BY <2>1, <2>2
<1> QED BY <1>10, <1>11, <1>12 DEF LeaseInv

\* A tick that writes nothing goes on to what it relies on from now on.
LEMMA LookKeepsLeases ==
  ASSUME TypeOK, TypeOK', LeaseInv, NEW t \in TickRequest,
         UNCHANGED <<sub, task, results, review, agent, wire, holders, requeued, raced>>,
         \A u \in TickRequest \ {t} : tick'[u] = tick[u], Relied(t)'
  PROVE  LeaseInv'
<1>1. Ledgered' /\ Counted' /\ ProfileExclusive'
  BY DEF LeaseInv, Ledgered, Counted, ProfileExclusive, Leases
<1>2. GoesOn
  <2>1. \A s \in SubTask : Leases(s)' = Leases(s) /\ sub[s].gen <= sub[s].gen
    BY RowTyped DEF Leases, TypeOK
  <2> QED BY <2>1 DEF GoesOn, Ahead
<1>3. \A u \in TickRequest : Relied(u)'
  BY <1>2, ReliedKept
<1> QED BY <1>1, <1>3 DEF LeaseInv

\* What is read now may be relied upon.
LEMMA ReadsRelied ==
  ASSUME TypeOK, TypeOK', LeaseInv, NEW t \in TickRequest,
         UNCHANGED <<sub, holders, requeued, raced>>, tick'[t].pick = {},
         \A s \in tick'[t].list :
           /\ s \in SubTask /\ tick'[t].rows[s] = sub[s]
           /\ sub[s].status = IF tick'[t].pc = "reclaim" THEN "ASSIGNED" ELSE "QUEUED"
  PROVE  Relied(t)'
<1>1. Candidates(t)' = tick'[t].list
  BY DEF Candidates
<1>2. ASSUME NEW s \in tick'[t].list
      PROVE  /\ sub[s].status # "absent" /\ sub[s].gen <= sub[s].gen
             /\ s \notin raced =>
                 IF tick'[t].pc = "reclaim"
                 THEN sub[s].attempts <= MaxRetry /\ Cardinality(Leases(s)') <= sub[s].attempts + 1
                 ELSE /\ sub[s].status \in Loose /\ sub[s].attempts <= MaxRetry
                      /\ Cardinality(Leases(s)') <= sub[s].attempts
  <2>1. s \in SubTask /\ sub[s].gen \in Nat /\ Leases(s)' = Leases(s)
    BY <1>2, RowTyped DEF TypeOK, Leases
  <2> QED BY <2>1 DEF LeaseInv, Counted, Loose
<1> QED BY <1>1, <1>2 DEF Relied

LEMMA StartKeepsLeases ==
  ASSUME TypeOK, TypeOK', LeaseInv, NEW t \in TickRequest, StartTick(t)
  PROVE  LeaseInv'
<1> DEFINE leased == {s \in SubTask : Leased(sub[s])}
           new == [pc |-> "reclaim", list |-> leased, rows |-> Read(sub, leased), pick |-> {}]
<1>1. /\ UNCHANGED <<sub, task, results, review, agent, wire, holders, requeued, raced>>
      /\ tick'[t] = new /\ \A u \in TickRequest \ {t} : tick'[u] = tick[u]
  BY DEF StartTick, TypeOK
<1>2. \A s \in leased : s \in SubTask /\ sub[s].status = "ASSIGNED" /\ Read(sub, leased)[s] = sub[s]
  <2>1. leased \in SUBSET SubTask /\ \A s \in leased : sub[s] \in Row
    BY DEF TypeOK
  <2>2. \A s \in leased : Read(sub, leased)[s] = sub[s]
    BY <2>1, ReadTyped
  <2> QED BY <2>2 DEF Leased
<1>3. /\ tick'[t].list = leased /\ tick'[t].rows = Read(sub, leased) /\ tick'[t].pc = "reclaim"
      /\ tick'[t].pick = {}
  BY <1>1
<1> HIDE DEF leased, new
<1>4. Relied(t)'
  BY <1>1, <1>2, <1>3, ReadsRelied
<1> QED BY <1>1, <1>4, LookKeepsLeases

\* What a reclaiming tick makes of the rows is sound, although it read the leases long ago:
\* the generation of what it reclaims stands, or the subtask is counted among those raced.
LEMMA ReclaimSound ==
  ASSUME TypeOK, LeaseInv, NEW t \in TickRequest, tick[t].pc = "reclaim", NEW next,
         next = Activated(Reclaimed(t)),
         NEW R, raced \cup Moved(sub, tick[t].rows, Stale(t)) \subseteq R
  PROVE  InHand(next, holders, Queued(next), next, R)
<1> DEFINE cur == Reclaimed(t)
<1>1. /\ cur \in [SubTask -> Row] /\ sub \in [SubTask -> Row] /\ MaxRetry \in Nat
      /\ next \in [SubTask -> Row] /\ holders \subseteq SubTask \X Nat \X Device
  BY Constants, ReclaimedTyped, ActivatedTyped DEF TypeOK
<1>2. Sound(sub, holders, R) /\ \A s \in SubTask : LeasesIn(holders, s) = Leases(s)
  BY SoundNow
<1>3. /\ Stale(t) \subseteq SubTask
      /\ \A s \in SubTask \ Stale(t) : cur[s] = sub[s]
      /\ \A s \in Stale(t) :
              LET read == tick[t].rows[s] IN
              /\ cur[s].status = IF read.attempts + 1 > MaxRetry THEN "DLQ" ELSE "QUEUED"
              /\ cur[s].gen = read.gen + 1 /\ cur[s].attempts = read.attempts + 1
              /\ read.gen \in Nat /\ read.attempts \in Nat
  BY ReclaimedTyped, RowTyped
<1>4. \A s \in Stale(t) :
        LET read == tick[t].rows[s] IN
        /\ sub[s].status # "absent"
        /\ s \notin R => /\ sub[s].gen = read.gen /\ read.attempts <= MaxRetry
                         /\ Cardinality(Leases(s)) <= read.attempts + 1
  <2>1. \A s \in Stale(t) : s \notin R => sub[s].gen = tick[t].rows[s].gen /\ s \notin raced
    BY DEF Moved
  <2>2. \A s \in Stale(t) : s \in Candidates(t)
    BY ReclaimedTyped DEF Candidates
  <2> QED BY <2>1, <2>2 DEF LeaseInv, Relied
<1>5. \A s \in SubTask :
        /\ next[s].gen = cur[s].gen /\ next[s].owner = cur[s].owner
        /\ next[s].attempts = cur[s].attempts /\ next[s].placed = cur[s].placed
        /\ \/ next[s].status = cur[s].status
           \/ cur[s].status = "WAITING_DEPENDENCY" /\ next[s].status \in {"FAILED", "QUEUED"}
  BY <1>1, ActivatedTyped
<1> HIDE DEF cur
<1>6. \A s \in SubTask : next[s].status = "absent" <=> sub[s].status = "absent"
  BY <1>3, <1>4, <1>5
<1>7. \A s \in SubTask : Leased(next[s]) =>
        /\ s \notin Stale(t) /\ Leased(sub[s]) /\ next[s].placed = sub[s].placed
        /\ next[s].gen = sub[s].gen /\ next[s].owner = sub[s].owner
  BY <1>3, <1>5 DEF Leased
<1>8. ASSUME NEW s \in SubTask \ R PROVE Ahead(sub[s], next[s])
  <2>1. sub[s].gen \in Nat
    BY <1>1, RowTyped
  <2>2. CASE s \in Stale(t)
    BY <1>3, <1>4, <1>5, <2>1, <2>2 DEF Ahead
  <2>3. CASE s \notin Stale(t)
    BY <1>3, <1>5, <2>1, <2>3 DEF Ahead, Loose
  <2> QED BY <2>2, <2>3
<1>9. ASSUME NEW h \in holders
      PROVE  next[h[1]].status # "absent" /\ (h[1] \notin R => h[2] <= next[h[1]].gen)
  <2>1. h[1] \in SubTask /\ h[2] \in Nat /\ sub[h[1]].gen \in Nat /\ next[h[1]].gen \in Nat
    BY <1>1, RowTyped
  <2>2. sub[h[1]].status # "absent" /\ (h[1] \notin R => h[2] <= sub[h[1]].gen)
    BY <1>2 DEF Sound
  <2>3. h[1] \notin R => sub[h[1]].gen <= next[h[1]].gen
    BY <1>8, <2>1 DEF Ahead
  <2> QED BY <1>6, <2>1, <2>2, <2>3
<1>10. ASSUME NEW s \in SubTask \ R
       PROVE  /\ next[s].attempts <= MaxRetry + 1
              /\ next[s].status \in {"WAITING_DEPENDENCY", "QUEUED", "ASSIGNED"} =>
                  next[s].attempts <= MaxRetry
              /\ IsFiniteSet(LeasesIn(holders, s))
              /\ Cardinality(LeasesIn(holders, s)) <= next[s].attempts + 1
              /\ next[s].status \notin {"ASSIGNED", "SUCCESS", "CANCELLED"} =>
                  Cardinality(LeasesIn(holders, s)) <= next[s].attempts
  <2>1. /\ sub[s].attempts <= MaxRetry + 1
        /\ sub[s].status \in {"WAITING_DEPENDENCY", "QUEUED", "ASSIGNED"} =>
             sub[s].attempts <= MaxRetry
        /\ IsFiniteSet(LeasesIn(holders, s))
        /\ Cardinality(LeasesIn(holders, s)) <= sub[s].attempts + 1
        /\ sub[s].status \notin {"ASSIGNED", "SUCCESS", "CANCELLED"} =>
             Cardinality(LeasesIn(holders, s)) <= sub[s].attempts
    BY <1>2 DEF Sound
  <2>2. Cardinality(LeasesIn(holders, s)) \in Nat /\ Leases(s) = LeasesIn(holders, s)
    BY <1>2, <2>1, FS_CardinalityType
  <2>3. CASE s \notin Stale(t)
    BY <1>3, <1>5, <2>1, <2>3
  <2>4. CASE s \in Stale(t)
    <3> DEFINE read == tick[t].rows[s]
    <3>1. /\ next[s].attempts = read.attempts + 1 /\ read.attempts \in Nat
          /\ read.attempts <= MaxRetry
          /\ next[s].status = IF read.attempts + 1 > MaxRetry THEN "DLQ" ELSE "QUEUED"
      BY <1>3, <1>4, <1>5, <2>4
    <3>2. Cardinality(LeasesIn(holders, s)) <= read.attempts + 1
      BY <1>4, <2>2, <2>4
    <3> HIDE DEF read
    <3> QED BY <1>1, <2>1, <2>2, <3>1, <3>2
  <2> QED BY <2>3, <2>4
<1>11. Sound(next, holders, R)
  <2>1. \A s \in SubTask \ Probe : task[TaskOf[s]] = "absent" => next[s].status = "absent"
    BY <1>2, <1>6 DEF Sound
  <2>2. \A s \in SubTask : Leased(next[s]) =>
          next[s].placed /\ <<s, next[s].gen, next[s].owner>> \in holders
    BY <1>2, <1>7 DEF Sound
  <2>3. /\ \A m \in wire : m.kind # "result" => next[m.subtask].status # "absent"
        /\ \A o \in Operator : \A q \in review[o] : next[q.subtask].status # "absent"
    <3>1. /\ \A m \in wire : m.kind # "result" => m.subtask \in SubTask
          /\ \A o \in Operator : \A q \in review[o] : q.subtask \in SubTask
      BY DEF TypeOK, Result, Handle, Review
    <3> QED BY <1>2, <1>6, <3>1 DEF Sound
  <2>4. \A m \in results :
          /\ LeaseOf(m) \in holders
          /\ m.job[1] \notin R /\ Leased(next[m.job[1]]) => m.job[2] # next[m.job[1]].gen
    <3>1. \A m \in results : m.job[1] \in SubTask
      BY DEF TypeOK, Result, Job
    <3> QED BY <1>2, <1>7, <3>1 DEF Sound
  <2>5. \A r, s \in SubTask \ R :
          r # s /\ Leased(next[r]) /\ Leased(next[s]) => ~SameProfile(r, s)
    BY <1>2, <1>7 DEF Sound
  <2> QED BY <1>9, <1>10, <2>1, <2>2, <2>3, <2>4, <2>5 DEF Sound
<1>12. Carried(next, holders, R)
  BY <1>2, <1>6, <1>8 DEF Carried
<1>13. ASSUME NEW s \in Queued(next)
       PROVE  /\ s \in SubTask /\ next[s].status # "absent"
              /\ s \notin R => Ready(next, holders, s)
  BY <1>10 DEF Queued, Ready, Loose
<1>14. holders \in SUBSET (SubTask \X Nat \X Device) /\ Queued(next) \in SUBSET SubTask
  BY <1>1, <1>13
<1> QED BY <1>1, <1>11, <1>12, <1>13, <1>14 DEF InHand

LEMMA ReclaimKeepsLeases ==
  ASSUME TypeOK, TypeOK', LeaseInv, NEW t \in TickRequest, Reclaim(t)
  PROVE  LeaseInv'
<1> DEFINE next == Activated(Reclaimed(t))
           looking == [pc |-> "look", list |-> Queued(sub), rows |-> Read(sub, Queued(sub)),
                       pick |-> {}]
<1>1. UNCHANGED <<task, results, review, agent, wire, requeued>> /\ tick[t].pc = "reclaim"
  BY DEF Reclaim
<1>2. ASSUME Finish(t, next, Queued(next), next, {}),
             raced' = raced \cup Moved(sub, tick[t].rows, Stale(t))
      PROVE  LeaseInv'
  <2> HIDE DEF next
  <2>1. holders \cup {} = holders
    OBVIOUS
  <2>2. InHand(next, holders, Queued(next), next, raced')
    BY <1>1, <1>2, ReclaimSound DEF next
  <2>3. InHand(next, holders \cup {}, Queued(next), next, raced')
    BY <2>1, <2>2
  <2> QED BY <1>1, <1>2, <2>3, FinishKeepsLeases
<1>3. ASSUME tick' = [tick EXCEPT ![t] = looking], UNCHANGED <<sub, holders, raced>>
      PROVE  LeaseInv'
  <2>1. tick'[t] = looking /\ \A u \in TickRequest \ {t} : tick'[u] = tick[u]
    BY <1>3 DEF TypeOK
  <2>2. \A s \in Queued(sub) : s \in SubTask /\ sub[s].status = "QUEUED"
                               /\ Read(sub, Queued(sub))[s] = sub[s]
    <3>1. Queued(sub) \in SUBSET SubTask /\ \A s \in Queued(sub) : sub[s] \in Row
      BY DEF Queued, TypeOK
    <3> QED BY <3>1, ReadTyped DEF Queued
  <2>3. /\ tick'[t].list = Queued(sub) /\ tick'[t].rows = Read(sub, Queued(sub))
        /\ tick'[t].pc = "look" /\ tick'[t].pick = {}
    BY <2>1
  <2>4. Relied(t)'
    BY <1>1, <1>3, <2>2, <2>3, ReadsRelied
  <2> QED BY <1>1, <1>3, <2>1, <2>4, LookKeepsLeases
<1> QED BY <1>2, <1>3 DEF Reclaim

LEMMA CandidatesReady ==
  ASSUME TypeOK, LeaseInv, NEW t \in TickRequest, tick[t].pc # "reclaim",
         NEW s \in Candidates(t), NEW R, raced \subseteq R
  PROVE  /\ s \in SubTask /\ sub[s].status # "absent"
         /\ s \notin R => tick[t].rows[s].gen <= sub[s].gen
         /\ s \notin R /\ tick[t].rows[s].gen = sub[s].gen => Ready(sub, holders, s)
<1>1. s \in SubTask
  BY DEF TypeOK, TickState, Candidates
<1> QED BY <1>1, SoundNow DEF LeaseInv, Relied, Ready

\* The candidates a tick leases under the lock, when the first of them has no profile yet.
LEMMA LookSound ==
  ASSUME TypeOK, LeaseInv, NEW t \in TickRequest, tick[t].pc = "look", NEW able,
         able \subseteq tick[t].list,
         NEW R, raced \cup Moved(sub, tick[t].rows, Chosen(sub, able)) \subseteq R
  PROVE  InHand(sub, holders, able, tick[t].rows, R)
<1>1. /\ sub \in [SubTask -> Row] /\ tick[t].rows \in [SubTask -> Row]
      /\ able \in SUBSET SubTask /\ able \subseteq Candidates(t)
      /\ holders \in SUBSET (SubTask \X Nat \X Device)
  BY DEF TypeOK, TickState, Candidates
<1>2. Sound(sub, holders, R) /\ \A s \in SubTask : LeasesIn(holders, s) = Leases(s)
  BY SoundNow
<1>3. Carried(sub, holders, R)
  <2>1. \A s \in SubTask : sub[s].gen <= sub[s].gen
    BY <1>1, RowTyped
  <2> QED BY <1>2, <2>1 DEF Carried, Ahead
<1>4. \A s \in able : /\ sub[s].status # "absent"
                      /\ s \notin R /\ tick[t].rows[s].gen = sub[s].gen => Ready(sub, holders, s)
  BY <1>1, CandidatesReady
<1>5. \A s \in Chosen(sub, able) \ R : tick[t].rows[s].gen = sub[s].gen
  BY DEF Moved
<1> QED BY <1>1, <1>2, <1>3, <1>4, <1>5 DEF InHand

LEMMA LooksKeepLeases ==
  ASSUME TypeOK, TypeOK', LeaseInv, NEW t \in TickRequest, Look(t)
  PROVE  LeaseInv'
<1> DEFINE list == tick[t].list
           rows == tick[t].rows
           able == {s \in list : MayRun(s)}
<1>1. /\ UNCHANGED <<task, results, review, agent, wire, requeued>> /\ tick[t].pc = "look"
      /\ tick[t] \in TickState /\ list \subseteq SubTask /\ rows \in [SubTask -> Row]
      /\ able \subseteq list /\ sub \in [SubTask -> Row] /\ list \subseteq Candidates(t)
  BY DEF Look, TypeOK, TickState, Candidates
<1>2. Relied(t) /\ tick[t].pick = {}
  BY <1>1 DEF LeaseInv, Relied
<1>3. ASSUME tick' = [tick EXCEPT ![t] = Over], UNCHANGED <<sub, holders, raced>> PROVE LeaseInv'
  <2>1. tick'[t] = Over /\ \A u \in TickRequest \ {t} : tick'[u] = tick[u]
    BY <1>3 DEF TypeOK
  <2>2. Over.list = {} /\ Over.pick = {}
    BY DEF Over
  <2>3. Relied(t)'
    BY <2>1, <2>2 DEF Relied, Candidates
  <2> QED BY <1>1, <1>3, <2>1, <2>3, LookKeepsLeases
<1>4. ASSUME Finish(t, sub, able, rows, {}), raced' = raced \cup Moved(sub, rows, Chosen(sub, able))
      PROVE  LeaseInv'
  <2>1. InHand(sub, holders, able, rows, raced')
    BY <1>1, <1>4, LookSound
  <2>2. holders \cup {} = holders
    OBVIOUS
  <2>3. InHand(sub, holders \cup {}, able, rows, raced')
    BY <2>1, <2>2
  <2> HIDE DEF able, rows, list
  <2> QED BY <1>1, <1>4, <2>3, FinishKeepsLeases
\* It may pass a candidate by, or pick it.
<1>5. ASSUME NEW new, tick' = [tick EXCEPT ![t] = new], UNCHANGED <<sub, holders, raced>>,
             new.pc # "reclaim", new.rows = rows, new.list \subseteq list,
             \A g \in new.pick : new.pc = "write" /\ g[1] \notin new.list /\ g[1] \in list
      PROVE  LeaseInv'
  <2>1. tick'[t] = new /\ \A u \in TickRequest \ {t} : tick'[u] = tick[u]
    BY <1>5 DEF TypeOK
  <2>2. Candidates(t)' \subseteq Candidates(t)
    BY <1>1, <1>5, <2>1 DEF Candidates
  <2>3. \A s \in SubTask : Leases(s)' = Leases(s)
    BY <1>1, <1>5 DEF Leases
  <2>4. Relied(t)'
    <3>1. Candidates(t) \subseteq SubTask
      BY <1>1 DEF Candidates, TickState
    <3> QED BY <1>1, <1>2, <1>5, <2>1, <2>2, <2>3, <3>1 DEF Relied
  <2> QED BY <1>1, <1>5, <2>1, <2>4, LookKeepsLeases
<1>6. ASSUME NEW s \in able, UNCHANGED <<sub, holders, raced>>,
             tick' = [tick EXCEPT ![t].list = After(list, s)]
      PROVE  LeaseInv'
  <2> DEFINE new == [tick[t] EXCEPT !.list = After(list, s)]
  <2>1. new.pc = "look" /\ new.list \subseteq list /\ new.rows = rows /\ new.pick = {}
    BY <1>1, <1>2 DEF TickState, After
  <2>2. tick' = [tick EXCEPT ![t] = new]
    BY <1>6
  <2> HIDE DEF new
  <2> QED BY <1>5, <1>6, <2>1, <2>2
<1>7. ASSUME NEW s \in able, UNCHANGED <<sub, holders, raced>>,
             tick' = [tick EXCEPT ![t].pc = "write", ![t].list = After(list, s),
                                  ![t].pick = {<<s, PickDevice(s)>>}]
      PROVE  LeaseInv'
  <2> DEFINE after == After(list, s)
             picked == {<<s, PickDevice(s)>>}
             new == [tick[t] EXCEPT !.pc = "write", !.list = after, !.pick = picked]
  <2>1. s \notin after /\ after \subseteq list
    BY <1>1, Constants DEF After
  <2>2. \A g \in picked : g[1] = s
    OBVIOUS
  <2>3. tick' = [tick EXCEPT ![t] = new]
    BY <1>7
  <2> HIDE DEF after, picked
  <2>4. new.pc = "write" /\ new.list = after /\ new.rows = rows /\ new.pick = picked
    BY <1>1 DEF TickState
  <2> HIDE DEF new
  <2> QED BY <1>1, <1>5, <1>7, <2>1, <2>2, <2>3, <2>4
<1> QED BY <1>3, <1>4, <1>6, <1>7 DEF Look

\* The first grant of a tick: what it decided before it took the lock still stands, or its
\* subtask is counted among those raced.
LEMMA WriteSound ==
  ASSUME TypeOK, LeaseInv, NEW t \in TickRequest, tick[t].pc = "write", NEW g \in tick[t].pick,
         NEW cur, cur = [sub EXCEPT ![g[1]] = Granted(@, tick[t].rows[g[1]], g[2])],
         NEW granted, granted = {<<g[1], tick[t].rows[g[1]].gen + 1, g[2]>>},
         NEW R, raced \cup Moved(sub, tick[t].rows, {g[1]} \cup Chosen(cur, tick[t].list))
                  \cup {r \in {g[1]} : Busy(sub, r)} \subseteq R
  PROVE  InHand(cur, holders \cup granted, tick[t].list, tick[t].rows, R)
<1>a. \A G : Lease(sub, holders, G, cur, R) =>
             /\ Sound(cur, Plus(holders, G, cur), R)
             /\ \A s \in SubTask \ G :
                  LeasesIn(Plus(holders, G, cur), s) = LeasesIn(holders, s)
  <2> TAKE G
  <2> QED BY ONLY TypeOK, GrantSound
<1> DEFINE list == tick[t].list
           rows == tick[t].rows
<1>1. /\ tick[t] \in TickState /\ list \in SUBSET SubTask /\ rows \in [SubTask -> Row]
      /\ tick[t].pick \subseteq SubTask \X Device /\ sub \in [SubTask -> Row]
      /\ holders \in SUBSET (SubTask \X Nat \X Device)
  BY DEF TypeOK, TickState
<1>3. g[1] \in SubTask /\ g[2] \in Device /\ g[1] \in Candidates(t) /\ list \subseteq Candidates(t)
      /\ raced \subseteq R
  BY <1>1 DEF Candidates
<1>4. /\ sub[g[1]].status # "absent" /\ g[1] \notin list
      /\ g[1] \notin R => /\ rows[g[1]].gen = sub[g[1]].gen
                          /\ Ready(sub, holders, g[1]) /\ ~Busy(sub, g[1])
      /\ \A s \in list : /\ sub[s].status # "absent"
                         /\ s \notin R /\ rows[s].gen = sub[s].gen => Ready(sub, holders, s)
  <2>1. g[1] \notin list
    BY DEF LeaseInv, Relied
  <2>2. g[1] \notin R => rows[g[1]].gen = sub[g[1]].gen /\ ~Busy(sub, g[1])
    BY DEF Moved
  <2> QED BY <1>3, <2>1, <2>2, CandidatesReady
<1>5. /\ cur \in [SubTask -> Row] /\ cur[g[1]] = Granted(sub[g[1]], rows[g[1]], g[2])
      /\ \A s \in SubTask \ {g[1]} : cur[s] = sub[s]
  <2>1. Granted(sub[g[1]], rows[g[1]], g[2]) \in Row
    BY <1>1, <1>3, GrantedTyped
  <2> QED BY <1>1, <1>3, <2>1
<1>6. /\ cur[g[1]].status = "ASSIGNED" /\ cur[g[1]].owner = g[2]
      /\ cur[g[1]].gen = rows[g[1]].gen + 1
      /\ g[1] \notin R => cur[g[1]].gen = sub[g[1]].gen + 1
      /\ cur[g[1]].attempts = sub[g[1]].attempts /\ cur[g[1]].placed
  <2>1. sub[g[1]] \in Row /\ rows[g[1]] \in Row
    BY <1>1, <1>3
  <2> HIDE DEF rows
  <2>2. /\ cur[g[1]].status = "ASSIGNED" /\ cur[g[1]].owner = g[2]
        /\ cur[g[1]].gen = rows[g[1]].gen + 1
        /\ cur[g[1]].attempts = sub[g[1]].attempts /\ cur[g[1]].placed
    BY <1>3, <1>5, <2>1, GrantedFields
  <2> QED BY <1>4, <2>2
<1>7. granted \in SUBSET (SubTask \X Nat \X Device)
  BY <1>1, <1>3, RowTyped
<1> DEFINE K == holders \cup granted
<1>9. K = Plus(holders, {g[1]}, cur)
  BY <1>6 DEF Plus
<1> HIDE DEF K, list, rows
<1>10. Sound(cur, K, R) /\ \A s \in SubTask \ {g[1]} : LeasesIn(K, s) = LeasesIn(holders, s)
  <2>1. Sound(sub, holders, R) /\ {g[1]} \in SUBSET SubTask
    BY <1>3, SoundNow
  <2> DEFINE G == {g[1]}
  <2>2. \A s \in G : /\ sub[s].status # "absent"
                     /\ cur[s].status = "ASSIGNED" /\ cur[s].placed
                     /\ s \notin R =>
                          /\ Ready(sub, holders, s) /\ ~Busy(sub, s)
                          /\ \A r \in G \ {s} : ~SameProfile(r, s)
                          /\ cur[s].gen = sub[s].gen + 1 /\ cur[s].attempts = sub[s].attempts
    BY <1>4, <1>6
  <2>3. \A s \in SubTask \ G :
           /\ cur[s].status = sub[s].status /\ cur[s].gen = sub[s].gen
           /\ cur[s].owner = sub[s].owner /\ cur[s].attempts = sub[s].attempts
           /\ sub[s].placed => cur[s].placed
    BY <1>5
  <2>4. G \in SUBSET SubTask /\ K = Plus(holders, G, cur)
    BY <1>3, <1>9
  <2> HIDE DEF G
  <2>6. Lease(sub, holders, G, cur, R)
    BY <1>1, <1>5, <2>1, <2>2, <2>3, <2>4 DEF Lease
  <2>5. Sound(cur, K, R) /\ \A s \in SubTask \ G : LeasesIn(K, s) = LeasesIn(holders, s)
    BY <1>a, <2>4, <2>6
  <2> QED BY <2>5 DEF G
<1>11. \A s \in list : /\ cur[s].status # "absent"
                       /\ s \notin R /\ rows[s].gen = cur[s].gen => Ready(cur, K, s)
  <2>1. \A s \in list : s \in SubTask \ {g[1]}
    BY <1>1, <1>4
  <2> QED BY <1>4, <1>5, <1>10, <2>1 DEF Ready
<1>12. \A s \in Chosen(cur, list) \ R : rows[s].gen = cur[s].gen
  <2>1. \A s \in Chosen(cur, list) : s \in list /\ s \in SubTask \ {g[1]}
    BY <1>1, <1>4 DEF Chosen
  <2>2. \A s \in Chosen(cur, list) : s \notin R => sub[s].gen = rows[s].gen
    BY DEF Moved, list, rows
  <2> QED BY <1>5, <2>1, <2>2
<1>13. Carried(cur, K, R)
  <2> SUFFICES ASSUME NEW s \in SubTask, sub[s].status # "absent"
               PROVE  /\ cur[s].status # "absent"
                      /\ s \notin R => /\ Ahead(sub[s], cur[s])
                                       /\ cur[s].gen = sub[s].gen => LeasesIn(K, s) = Leases(s)
    BY DEF Carried
  <2>1. sub[s].gen \in Nat /\ LeasesIn(holders, s) = Leases(s)
    BY <1>1, RowTyped DEF LeasesIn, Leases
  <2>2. CASE s = g[1]
    BY <1>6, <2>1, <2>2 DEF Ahead
  <2>3. CASE s # g[1]
    BY <1>5, <1>10, <2>1, <2>3 DEF Ahead
  <2> QED BY <2>2, <2>3
<1>14. InHand(cur, holders \cup granted, list, rows, R)
  <2>1. K \in SUBSET (SubTask \X Nat \X Device)
    BY <1>1, <1>7 DEF K
  <2>2. InHand(cur, K, list, rows, R)
    BY <1>1, <1>5, <1>10, <1>11, <1>12, <1>13, <2>1 DEF InHand
  <2> QED BY <2>2 DEF K
<1> QED BY <1>14 DEF list, rows

LEMMA WriteKeepsLeases ==
  ASSUME TypeOK, TypeOK', LeaseInv, NEW t \in TickRequest, Write(t)
  PROVE  LeaseInv'
<1> DEFINE rows == tick[t].rows
<1>1. UNCHANGED <<task, results, review, agent, wire, requeued>> /\ tick[t].pc = "write"
  BY DEF Write
<1>2. PICK g \in tick[t].pick : WriteOf(t, g)
  BY DEF Write, WriteOf
<1> DEFINE cur == [sub EXCEPT ![g[1]] = Granted(@, rows[g[1]], g[2])]
           granted == {<<g[1], rows[g[1]].gen + 1, g[2]>>}
<1>3. /\ Finish(t, cur, tick[t].list, rows, granted)
      /\ raced' = raced \cup Moved(sub, rows, {g[1]} \cup Chosen(cur, tick[t].list))
                   \cup {r \in {g[1]} : Busy(sub, r)}
  BY <1>2 DEF WriteOf
<1>4. raced \subseteq raced'
  BY <1>3
<1>5. InHand(cur, holders \cup granted, tick[t].list, rows, raced')
  BY <1>1, <1>3, WriteSound
<1> HIDE DEF cur, granted, rows
<1> QED BY <1>1, <1>3, <1>4, <1>5, FinishKeepsLeases

LEMMA InitLeases == Init => LeaseInv
<1> SUFFICES ASSUME Init PROVE LeaseInv
  OBVIOUS
<1>1. /\ holders = {} /\ wire = {} /\ results = {} /\ sub = [s \in SubTask |-> Absent]
      /\ agent = [d \in Device |-> Resting] /\ tick = [t \in TickRequest |-> Over]
      /\ review = [o \in Operator |-> {}]
  BY DEF Init
<1>2. /\ \A s \in SubTask : sub[s].status = "absent" /\ sub[s].attempts = 0
      /\ \A d \in Device : agent[d].todo = {} /\ agent[d].cur = {}
      /\ \A t \in TickRequest : tick[t].list = {} /\ tick[t].pick = {}
      /\ \A o \in Operator : review[o] = {}
  BY <1>1 DEF Absent, Resting, Over
<1>3. \A s \in SubTask : Leases(s) = {}
  BY <1>1 DEF Leases
<1>4. IsFiniteSet({}) /\ Cardinality({}) = 0
  BY FS_EmptySet
<1>5. Ledgered
  BY <1>1, <1>2 DEF Ledgered, Leased
<1>6. Counted
  <2>1. 0 <= MaxRetry /\ 0 <= MaxRetry + 1
    BY Constants
  <2>2. ASSUME NEW s \in SubTask
        PROVE  /\ sub[s].attempts = 0 /\ sub[s].status = "absent"
               /\ IsFiniteSet(Leases(s)) /\ Cardinality(Leases(s)) = 0
    BY <1>2, <1>3, <1>4
  <2> QED BY <2>1, <2>2 DEF Counted
<1>7. ProfileExclusive /\ \A t \in TickRequest : Relied(t)
  BY <1>2 DEF ProfileExclusive, Leased, Relied, Candidates
<1> QED BY <1>5, <1>6, <1>7 DEF LeaseInv

LEMMA NextKeepsLeases ==
  ASSUME TypeOK, TypeOK', LeaseInv, [Next]_vars
  PROVE  LeaseInv'
<1>1. CASE UNCHANGED vars
  <2>1. UNCHANGED <<sub, task, results, review, agent, wire, tick, holders, requeued, raced>>
    BY <1>1 DEF vars
  <2>2. Ledgered' /\ Counted' /\ ProfileExclusive'
    BY <2>1 DEF LeaseInv, Ledgered, Counted, ProfileExclusive, Leases
  <2>3. \A t \in TickRequest : Relied(t)'
    BY <2>1 DEF LeaseInv, Relied, Candidates, Leases
  <2> QED BY <2>2, <2>3 DEF LeaseInv
<1>2. ASSUME NEW t \in TickRequest, TickStep(t) PROVE LeaseInv'
  BY <1>2, StartKeepsLeases, ReclaimKeepsLeases, LooksKeepLeases, WriteKeepsLeases DEF TickStep
<1>3. ASSUME NEW d \in Device,
             AgentStep(d) \/ Renew(d) \/ Heartbeat(d) \/ GoSilent(d) \/ Crash(d)
      PROVE  LeaseInv'
  BY <1>3, AgentsKeepLeases, OthersKeepLeases
<1>4. ASSUME NEW o \in Operator,
             \/ \E s \in SubTask, wants \in {"requeue", "terminate"} : OpenLetter(o, s, wants)
             \/ Requeue(o) \/ Terminate(o)
      PROVE  LeaseInv'
  BY <1>4, OperatorsKeepLeases DEF Judgement
<1> QED BY <1>1, <1>2, <1>3, <1>4, TasksKeepLeases, RequestsKeepLeases, OthersKeepLeases DEF Next

LEMMA LeasesInvariant == Spec => []LeaseInv
<1>1. TypeOK /\ TypeOK' /\ LeaseInv /\ [Next]_vars => LeaseInv'
  BY NextKeepsLeases
<1> QED BY <1>1, InitLeases, DispatchTypes, PTL DEF Spec

\* However many scheduler ticks and operators' requests overlap, a lease is exclusive in its
\* profile and costs an attempt (scheduler.py, assignment.py, leases.py, human_review.py),
\* but for the subtasks that one of them wrote over what another wrote since it read them.
THEOREM LeasesHold == Spec => []LeasesSafe
<1>1. LeaseInv /\ TypeOK => LeasesSafe
  BY DEF LeaseInv, Counted, LeasesSafe, LeasesAreCounted
<1> QED BY <1>1, LeasesInvariant, DispatchTypes, PTL

-------------------------------------------------------------------------------
(* The ledger *)

\* The leases of a step carry numbers above all the subtask had, one for each subtask; but
\* for what raced.
GrantsNew ==
  /\ holders \subseteq holders' /\ raced \subseteq raced'
  /\ \A l \in holders' \ holders : l[1] \notin raced' =>
       /\ \A k \in holders : k[1] = l[1] => k[2] < l[2]
       /\ \A k \in holders' \ holders : k[1] = l[1] => k = l

LEMMA FinishGrants ==
  ASSUME TypeOK, NEW t \in TickRequest, NEW cur, NEW rows, NEW list, NEW granted,
         raced \subseteq raced',
         InHand(cur, holders \cup granted, list, rows, raced'),
         Finish(t, cur, list, rows, granted),
         \A l \in granted :
           /\ l[1] \notin list
           /\ l[1] \notin raced' => \A k \in holders : k[1] = l[1] => k[2] < l[2]
           /\ \A k \in granted : k = l
  PROVE  GrantsNew
<1> DEFINE G == Chosen(cur, list)
           N == {<<s, rows[s].gen + 1, PickDevice(s)>> : s \in G}
<1>1. /\ holders' = holders \cup granted \cup N /\ G \subseteq list /\ list \subseteq SubTask
      /\ rows \in [SubTask -> Row] /\ Sound(cur, holders \cup granted, raced')
      /\ \A s \in G \ raced' : rows[s].gen = cur[s].gen
      /\ holders \subseteq SubTask \X Nat \X Device
  BY DEF InHand, Finish, Chosen, TypeOK
<1>2. ASSUME NEW s \in G, s \notin raced', NEW k \in holders, k[1] = s
      PROVE  k[2] < rows[s].gen + 1
  <2>1. k[2] <= cur[s].gen /\ rows[s].gen = cur[s].gen
    BY <1>1, <1>2 DEF Sound
  <2>2. k[2] \in Nat /\ rows[s].gen \in Nat
    <3>1. s \in SubTask /\ rows[s] \in Row
      BY <1>1
    <3> QED BY <1>1, <3>1, RowTyped
  <2> QED BY <2>1, <2>2
<1>3. ASSUME NEW l \in holders' \ holders, l[1] \notin raced'
      PROVE  /\ \A k \in holders : k[1] = l[1] => k[2] < l[2]
             /\ \A k \in holders' \ holders : k[1] = l[1] => k = l
  <2> HIDE DEF G
  <2>1. CASE l \in granted
    BY <1>1, <1>3, <2>1
  <2>2. ASSUME NEW s \in G, l = <<s, rows[s].gen + 1, PickDevice(s)>>
        PROVE  /\ \A k \in holders : k[1] = l[1] => k[2] < l[2]
               /\ \A k \in holders' \ holders : k[1] = l[1] => k = l
    <3>1. l[1] = s /\ l[2] = rows[s].gen + 1
      BY <2>2
    <3>2. \A k \in N : k[1] = s => k = l
      BY <2>2
    <3> QED BY <1>1, <1>2, <1>3, <3>1, <3>2
  <2> QED BY <1>1, <1>3, <2>1, <2>2
<1> QED BY <1>1, <1>3 DEF GrantsNew

LEMMA TicksGrant ==
  ASSUME TypeOK, LeaseInv, NEW t \in TickRequest, TickStep(t)
  PROVE  GrantsNew /\ UNCHANGED results
<1> DEFINE list == tick[t].list
           rows == tick[t].rows
<1>1. UNCHANGED results /\ raced \subseteq raced'
  BY DEF TickStep, StartTick, Reclaim, Look, Write
<1>2. CASE UNCHANGED holders
  BY <1>1, <1>2 DEF GrantsNew
<1>3. /\ holders \cup {} = holders /\ holders \in SUBSET (SubTask \X Nat \X Device)
      /\ list \in SUBSET SubTask /\ rows \in [SubTask -> Row] /\ sub \in [SubTask -> Row]
      /\ tick[t].pick \subseteq SubTask \X Device
  BY DEF TypeOK, TickState
<1>4. ASSUME NEW cur, NEW all, NEW old, InHand(cur, holders, all, old, raced'),
             Finish(t, cur, all, old, {})
      PROVE  GrantsNew
  <2>1. InHand(cur, holders \cup {}, all, old, raced')
    BY <1>3, <1>4
  <2> QED BY <1>1, <1>4, <2>1, FinishGrants
<1>5. ASSUME Reclaim(t), ~UNCHANGED holders PROVE GrantsNew
  <2> DEFINE next == Activated(Reclaimed(t))
  <2>1. /\ tick[t].pc = "reclaim" /\ Finish(t, next, Queued(next), next, {})
        /\ raced' = raced \cup Moved(sub, rows, Stale(t))
    BY <1>5 DEF Reclaim
  <2> HIDE DEF next
  <2>2. InHand(next, holders, Queued(next), next, raced')
    BY <2>1, ReclaimSound DEF next
  <2> QED BY <1>4, <2>1, <2>2
<1>6. ASSUME Look(t), ~UNCHANGED holders PROVE GrantsNew
  <2> DEFINE able == {s \in list : MayRun(s)}
  <2>1. /\ Finish(t, sub, able, rows, {}) /\ tick[t].pc = "look"
        /\ raced' = raced \cup Moved(sub, rows, Chosen(sub, able))
    BY <1>6 DEF Look
  <2>2. InHand(sub, holders, able, rows, raced')
    BY <2>1, LookSound
  <2> HIDE DEF able, rows, list
  <2> QED BY <1>4, <2>1, <2>2
<1>7. ASSUME Write(t) PROVE GrantsNew
  <2>1. PICK g \in tick[t].pick : WriteOf(t, g)
    BY <1>7 DEF Write, WriteOf
  <2> DEFINE cur == [sub EXCEPT ![g[1]] = Granted(@, rows[g[1]], g[2])]
             granted == {<<g[1], rows[g[1]].gen + 1, g[2]>>}
  <2>2. /\ Finish(t, cur, list, rows, granted) /\ tick[t].pc = "write"
        /\ raced' = raced \cup Moved(sub, rows, {g[1]} \cup Chosen(cur, list))
                     \cup {r \in {g[1]} : Busy(sub, r)}
    BY <1>7, <2>1 DEF Write, WriteOf
  <2>3. InHand(cur, holders \cup granted, list, rows, raced')
    BY <2>2, WriteSound
  <2>4. g[1] \in Candidates(t) /\ g[1] \in SubTask /\ g[1] \notin list
    BY <1>3, <2>2 DEF Candidates, LeaseInv, Relied
  <2>5. g[1] \notin raced' => rows[g[1]].gen = sub[g[1]].gen /\ g[1] \notin raced
    BY <2>2 DEF Moved
  <2>6. ASSUME NEW k \in holders, k[1] = g[1], g[1] \notin raced' PROVE k[2] < rows[g[1]].gen + 1
    <3>1. k[2] \in Nat /\ k[2] <= sub[g[1]].gen
      BY <1>3, <2>5, <2>6 DEF LeaseInv, Ledgered
    <3>2. rows[g[1]] \in Row
      BY <1>3, <2>4
    <3> QED BY <2>5, <2>6, <3>1, <3>2, RowTyped
  <2>7. \A l \in granted :
          /\ l[1] \notin list
          /\ l[1] \notin raced' => \A k \in holders : k[1] = l[1] => k[2] < l[2]
          /\ \A k \in granted : k = l
    BY <2>4, <2>6
  <2> HIDE DEF cur, granted, list, rows
  <2> QED BY <1>1, <2>2, <2>3, <2>7, FinishGrants
<1>8. StartTick(t) => UNCHANGED holders
  BY DEF StartTick
<1> QED BY <1>1, <1>2, <1>5, <1>6, <1>7, <1>8 DEF TickStep

\* An accepted result answers the newest lease of its subtask, for the first time.
LEMMA ResultsAnswer ==
  ASSUME TypeOK, LeaseInv, NEW m \in wire, m.kind = "result", Accepts(m),
         results' = results \cup {m}, UNCHANGED <<holders, raced>>
  PROVE  \E l \in holders : Ledger!Answer(l)
<1>1. LeaseOf(m) \in holders /\ LeaseOf(m)[1] = m.job[1] /\ LeaseOf(m)[2] = m.job[2]
  BY DEF LeaseInv, Ledgered, LeaseOf
<1>2. ASSUME m.job[1] \notin raced PROVE Ledger!Newest(LeaseOf(m))
  <2>1. ASSUME NEW k \in holders, k[1] = LeaseOf(m)[1] PROVE k[2] <= LeaseOf(m)[2]
    <3>1. k[2] <= sub[m.job[1]].gen
      BY <1>1, <1>2, <2>1 DEF LeaseInv, Ledgered
    <3> QED BY <1>1, <3>1 DEF Accepts
  <2> QED BY <2>1 DEF Ledger!Newest, Ledger!Before
<1>3. ASSUME m.job[1] \notin raced PROVE LeaseOf(m) \notin LedgerOf(results)
  <2> SUFFICES ASSUME NEW n \in results, LeaseOf(n) = LeaseOf(m) PROVE FALSE
    BY DEF LedgerOf, LeaseOf
  <2>1. n.job[1] = m.job[1] /\ n.job[2] = m.job[2]
    BY DEF LeaseOf
  <2> QED BY <1>3, <2>1 DEF Accepts, LeaseInv, Ledgered
<1>4. LedgerOf(results)' = LedgerOf(results) \cup {LeaseOf(m)}
  BY DEF LedgerOf, LeaseOf
<1> QED BY <1>1, <1>2, <1>3, <1>4 DEF Ledger!Answer

LEMMA StepsOfLedger ==
  ASSUME TypeOK, TypeOK', LeaseInv, [Next]_vars
  PROVE  [Ledger!Next]_(Ledger!ledger)
<1>1. ASSUME UNCHANGED <<holders, results, raced>> PROVE [Ledger!Next]_(Ledger!ledger)
  BY <1>1 DEF Ledger!ledger, LedgerOf
<1>2. ASSUME GrantsNew, UNCHANGED results PROVE [Ledger!Next]_(Ledger!ledger)
  <2>1. UNCHANGED LedgerOf(results)
    BY <1>2 DEF LedgerOf
  <2>2. \A l \in holders' : l \in SubTask \X Nat \X Device
    BY DEF TypeOK
  <2>3. Ledger!Grant
    BY <1>2, <2>1, <2>2 DEF Ledger!Grant, Ledger!Before, GrantsNew
  <2> QED BY <2>3 DEF Ledger!Next
<1>3. ASSUME NEW t \in TickRequest, TickStep(t) PROVE [Ledger!Next]_(Ledger!ledger)
  BY <1>2, <1>3, TicksGrant
<1>4. ASSUME NEW m \in wire, Deliver(m) \/ Lose(m) PROVE [Ledger!Next]_(Ledger!ledger)
  <2>1. UNCHANGED <<holders, raced>>
    BY <1>4 DEF Deliver, Lose
  <2>2. CASE UNCHANGED results
    BY <1>1, <2>1, <2>2
  <2>3. CASE m.kind = "result" /\ Accepts(m) /\ results' = results \cup {m}
    BY <2>1, <2>3, ResultsAnswer DEF Ledger!Next
  <2> QED BY <1>4, <2>2, <2>3 DEF Deliver, Lose, SubmitResult, SubmitHandle
<1>5. (\E k \in Task : CreateTask(k)) \/ ScheduledTick \/ ProbeTick
        => UNCHANGED <<holders, results, raced>>
  BY DEF CreateTask, ScheduledTick, ProbeTick
<1>6. ASSUME NEW d \in Device,
             AgentStep(d) \/ Renew(d) \/ Heartbeat(d) \/ GoSilent(d) \/ Crash(d)
      PROVE  UNCHANGED <<holders, results, raced>>
  BY <1>6 DEF AgentStep, Pull, Report, SendHandle, GoOn, Renew, Heartbeat, GoSilent, Crash
<1>7. ASSUME \/ \E s \in SubTask : Expire(s)
             \/ \E a \in Account : MoveAccount(a) \/ CoolDown(a)
      PROVE  UNCHANGED <<holders, results, raced>>
  BY <1>7 DEF Expire, MoveAccount, CoolDown
<1>8. UNCHANGED vars => UNCHANGED <<holders, results, raced>>
  BY DEF vars
\* A dead letter put back may lose the record of its subtask, and no lease.
<1>9. ASSUME NEW o \in Operator,
             \/ \E s \in SubTask, wants \in {"requeue", "terminate"} : OpenLetter(o, s, wants)
             \/ Requeue(o) \/ Terminate(o)
      PROVE  [Ledger!Next]_(Ledger!ledger)
  <2>1. UNCHANGED <<holders, results>> /\ raced \subseteq raced'
    BY <1>9 DEF OpenLetter, Requeue, Terminate
  <2> QED BY <1>2, <2>1 DEF GrantsNew
<1> QED BY <1>1, <1>3, <1>4, <1>5, <1>6, <1>7, <1>8, <1>9 DEF Next

\* However many scheduler ticks and operators' requests overlap, the leases and the results
\* kept are those of a fenced queue that loses what they write over each other: of any other
\* subtask a lease carries a number above all it had before, and only its newest lease is
\* answered, once (leases.py submit_result, assignment.py dispatch, human_review.py).
THEOREM QueueIsFenced == Spec => FencedQueue
<1>1. Init => Ledger!Init
  BY DEF Init, Ledger!Init, LedgerOf
<1>2. TypeOK /\ TypeOK' /\ LeaseInv /\ [Next]_vars => [Ledger!Next]_(Ledger!ledger)
  BY StepsOfLedger
<1> QED BY <1>1, <1>2, LeasesInvariant, DispatchTypes, PTL DEF Spec, FencedQueue, Ledger!Spec

-------------------------------------------------------------------------------
(* Dependents, with any number of ticks *)

Past == {"QUEUED", "ASSIGNED", "DLQ", "CANCELLED"}

Backed(s) == ParentsOf[s] \subseteq handles

\* What a tick or an operator's request has read, too, has the handles of its parents.
WaitInv ==
  /\ DependentsWait
  /\ \A t \in TickRequest : \A s \in Candidates(t) : Backed(s)
  /\ \A o \in Operator : \A q \in review[o] : Backed(q.subtask)

\* The rows that have come past waiting did so before, or their parents have handles.
Awaited ==
  /\ handles \subseteq handles'
  /\ \A s \in SubTask : sub'[s].status \in Past => sub[s].status \in Past \/ Backed(s)

LEMMA WaitKept ==
  ASSUME WaitInv, Awaited,
         \A t \in TickRequest : \A s \in Candidates(t)' : Backed(s),
         \A o \in Operator : \A q \in review'[o] : Backed(q.subtask)
  PROVE  WaitInv'
<1>1. DependentsWait'
  BY DEF WaitInv, DependentsWait, Awaited, Past, Backed
<1>2. /\ \A t \in TickRequest : \A s \in Candidates(t)' : Backed(s)'
      /\ \A o \in Operator : \A q \in review'[o] : Backed(q.subtask)'
  BY DEF Backed, Awaited
<1> QED BY <1>1, <1>2 DEF WaitInv

LEMMA FinishAwaits ==
  ASSUME TypeOK, WaitInv, UNCHANGED <<handles, review>>, NEW t \in TickRequest,
         NEW cur \in [SubTask -> Row], NEW rows \in [SubTask -> Row], NEW list \in SUBSET SubTask,
         NEW granted, Finish(t, cur, list, rows, granted),
         \A s \in SubTask : cur[s].status \in Past => sub[s].status \in Past \/ Backed(s),
         \A s \in list : Backed(s)
  PROVE  WaitInv'
<1>1. \A s \in SubTask : sub'[s].status \in Past => cur[s].status \in Past \/ s \in list
  <2>1. online \subseteq Device
    BY DEF TypeOK
  <2> QED BY <2>1, DispatchedTyped DEF Finish
<1>2. Awaited
  BY <1>1 DEF Awaited
<1>3. /\ tick'[t] = Over /\ \A u \in TickRequest \ {t} : tick'[u] = tick[u]
      /\ Over.list = {} /\ Over.pick = {}
  BY DEF Finish, TypeOK, Over
<1>4. \A u \in TickRequest : \A s \in Candidates(u)' : Backed(s)
  BY <1>3 DEF Candidates, WaitInv
<1> QED BY <1>2, <1>4, WaitKept DEF WaitInv

LEMMA TicksAwait ==
  ASSUME TypeOK, WaitInv, NEW t \in TickRequest, TickStep(t)
  PROVE  WaitInv'
<1> DEFINE list == tick[t].list
           rows == tick[t].rows
           able == {s \in list : MayRun(s)}
           next == Activated(Reclaimed(t))
<1>1. /\ list \in SUBSET SubTask /\ rows \in [SubTask -> Row] /\ sub \in [SubTask -> Row]
      /\ tick[t].pick \subseteq SubTask \X Device /\ tick[t] \in TickState
      /\ \A u \in TickRequest : tick[u] \in TickState
  BY DEF TypeOK, TickState
<1>2. UNCHANGED <<handles, review>>
  BY DEF TickStep, StartTick, Reclaim, Look, Write
<1>3. \A s \in SubTask : Leased(sub[s]) \/ sub[s].status = "QUEUED" => Backed(s)
  BY DEF WaitInv, DependentsWait, Backed, Leased
<1>4. \A s \in list \cup {g[1] : g \in tick[t].pick} : Backed(s)
  BY DEF WaitInv, Candidates
\* A tick that writes nothing goes on with some of its candidates, or reads new ones.
<1>5. ASSUME UNCHANGED sub, NEW new, tick' = [tick EXCEPT ![t] = new],
             \A s \in new.list \cup {g[1] : g \in new.pick} : Backed(s)
      PROVE  WaitInv'
  <2>1. Awaited
    BY <1>2, <1>5 DEF Awaited
  <2>2. tick'[t] = new /\ \A u \in TickRequest \ {t} : tick'[u] = tick[u]
    BY <1>5 DEF TypeOK
  <2>3. \A u \in TickRequest : \A s \in Candidates(u)' : Backed(s)
    BY <1>5, <2>2 DEF Candidates, WaitInv
  <2> QED BY <1>2, <2>1, <2>3, WaitKept DEF WaitInv
<1>6. CASE StartTick(t)
  <2> DEFINE leased == {s \in SubTask : Leased(sub[s])}
             new == [pc |-> "reclaim", list |-> leased, rows |-> Read(sub, leased), pick |-> {}]
  <2>1. \A s \in new.list \cup {g[1] : g \in new.pick} : Backed(s)
    BY <1>3
  <2>2. UNCHANGED sub /\ tick' = [tick EXCEPT ![t] = new]
    BY <1>6 DEF StartTick
  <2> HIDE DEF new
  <2> QED BY <1>5, <2>1, <2>2
<1>7. /\ next \in [SubTask -> Row]
      /\ \A s \in SubTask : next[s].status \in Past => sub[s].status \in Past \/ Backed(s)
  <2> DEFINE cur == Reclaimed(t)
  <2>1. /\ cur \in [SubTask -> Row]
        /\ \A s \in SubTask : cur[s] = sub[s] \/ Backed(s)
    BY <1>4, ReclaimedTyped
  <2>2. /\ next \in [SubTask -> Row]
        /\ \A s \in SubTask : \/ next[s].status = cur[s].status
                              \/ next[s].status = "FAILED" \/ Backed(s)
    BY <2>1, ActivatedTyped DEF Backed
  <2> HIDE DEF cur, next
  <2>3. "FAILED" \notin Past
    BY DEF Past
  <2> QED BY <2>1, <2>2, <2>3
<1>8. CASE Reclaim(t)
  <2>1. CASE Finish(t, next, Queued(next), next, {})
    <3>1. \A s \in Queued(next) : s \in SubTask /\ Backed(s)
      BY <1>7 DEF Queued, Past, WaitInv, DependentsWait, Backed
    <3> HIDE DEF next
    <3>2. Queued(next) \in SUBSET SubTask
      BY <3>1
    <3> QED BY <1>2, <1>7, <2>1, <3>1, <3>2, FinishAwaits
  <2> DEFINE new == [pc |-> "look", list |-> Queued(sub), rows |-> Read(sub, Queued(sub)),
                     pick |-> {}]
  <2>2. CASE tick' = [tick EXCEPT ![t] = new] /\ UNCHANGED sub
    <3>1. \A s \in new.list \cup {g[1] : g \in new.pick} : Backed(s)
      BY <1>3 DEF Queued
    <3> HIDE DEF new
    <3> QED BY <1>5, <2>2, <3>1
  <2> QED BY <1>8, <2>1, <2>2 DEF Reclaim
<1>9. CASE Look(t)
  <2>1. CASE tick' = [tick EXCEPT ![t] = Over] /\ UNCHANGED sub
    <3>1. Over.list = {} /\ Over.pick = {}
      BY DEF Over
    <3> QED BY <1>5, <2>1, <3>1
  <2>2. CASE Finish(t, sub, able, rows, {})
    <3>1. able \in SUBSET SubTask /\ \A s \in able : Backed(s)
      BY <1>1, <1>4
    <3> HIDE DEF able, rows
    <3> QED BY <1>1, <1>2, <2>2, <3>1, FinishAwaits
  <2>3. ASSUME NEW s \in able, UNCHANGED sub,
               tick' = [tick EXCEPT ![t].list = After(list, s)]
        PROVE  WaitInv'
    <3> DEFINE new == [tick[t] EXCEPT !.list = After(list, s)]
    <3>1. new.list \subseteq list /\ new.pick = tick[t].pick
      BY <1>1 DEF TickState, After
    <3>2. tick' = [tick EXCEPT ![t] = new]
      BY <2>3
    <3> HIDE DEF new
    <3> QED BY <1>4, <1>5, <2>3, <3>1, <3>2
  <2>4. ASSUME NEW s \in able, UNCHANGED sub,
               tick' = [tick EXCEPT ![t].pc = "write", ![t].list = After(list, s),
                                    ![t].pick = {<<s, PickDevice(s)>>}]
        PROVE  WaitInv'
    <3> DEFINE new == [tick[t] EXCEPT !.pc = "write", !.list = After(list, s),
                                      !.pick = {<<s, PickDevice(s)>>}]
    <3>1. new.list \subseteq list /\ new.pick = {<<s, PickDevice(s)>>} /\ s \in list
      BY <1>1 DEF TickState, After
    <3>2. tick' = [tick EXCEPT ![t] = new]
      BY <2>4
    <3> HIDE DEF new
    <3>3. \A r \in new.list \cup {g[1] : g \in new.pick} : Backed(r)
      BY <1>4, <3>1
    <3> QED BY <1>5, <2>4, <3>2, <3>3
  <2> QED BY <1>9, <2>1, <2>2, <2>3, <2>4 DEF Look
<1>10. CASE Write(t)
  <2>1. PICK g \in tick[t].pick :
          Finish(t, [sub EXCEPT ![g[1]] = Granted(@, rows[g[1]], g[2])], list, rows,
                 {<<g[1], rows[g[1]].gen + 1, g[2]>>})
    BY <1>10 DEF Write
  <2> DEFINE cur == [sub EXCEPT ![g[1]] = Granted(@, rows[g[1]], g[2])]
             granted == {<<g[1], rows[g[1]].gen + 1, g[2]>>}
  <2>2. g[1] \in SubTask /\ g[2] \in Device /\ Backed(g[1]) /\ \A s \in list : Backed(s)
    BY <1>1, <1>4
  <2>3. cur \in [SubTask -> Row] /\ \A s \in SubTask \ {g[1]} : cur[s] = sub[s]
    BY <1>1, <2>2, GrantedTyped
  <2>4. Finish(t, cur, list, rows, granted)
    BY <2>1
  <2> HIDE DEF cur, granted, list, rows
  <2>5. \A s \in SubTask : cur[s].status \in Past => sub[s].status \in Past \/ Backed(s)
    BY <2>2, <2>3
  <2> QED BY <1>1, <1>2, <2>2, <2>3, <2>4, <2>5, FinishAwaits
<1> QED BY <1>6, <1>8, <1>9, <1>10 DEF TickStep

LEMMA StepsAwait ==
  ASSUME TypeOK, WaitInv, [Next]_vars
  PROVE  WaitInv'
<1> USE DEF Past
<1>1. sub \in [SubTask -> Row] /\ wire \subseteq Result \cup Handle
      /\ \A d \in Device : agent[d].cur \subseteq Job
  BY DEF TypeOK
<1>2. ASSUME UNCHANGED <<tick, review>>, Awaited PROVE WaitInv'
  BY <1>2, WaitKept DEF WaitInv, Candidates
<1>3. ASSUME UNCHANGED <<sub, handles>> PROVE Awaited
  BY <1>3 DEF Awaited
<1>4. ASSUME NEW s \in SubTask, UNCHANGED handles,
             \A r \in SubTask \ {s} : sub'[r] = sub[r],
             sub'[s].status \in Past => sub[s].status \in Past
      PROVE  Awaited
  BY <1>4 DEF Awaited
<1>5. ASSUME NEW status \in {"QUEUED", "WAITING_DEPENDENCY"}
      PROVE  [Absent EXCEPT !.status = status].status = status
  BY DEF Absent
<1>6. CASE \E k \in Task : CreateTask(k)
  <2>1. PICK k \in Task : CreateTask(k)
    BY <1>6
  <2>2. \A s \in SubTask : \/ sub'[s] = sub[s]
                           \/ sub'[s].status = "WAITING_DEPENDENCY" \/ ParentsOf[s] = {}
    BY <1>5, <2>1 DEF CreateTask
  <2>3. UNCHANGED <<tick, review, handles>>
    BY <2>1 DEF CreateTask
  <2> QED BY <1>2, <2>2, <2>3 DEF Awaited, Backed
<1>7. CASE ScheduledTick
  BY <1>2, <1>3, <1>7 DEF ScheduledTick
<1>8. CASE ProbeTick
  <2>1. \A s \in SubTask : sub'[s] = sub[s] \/ s \in Probe
    BY <1>8 DEF ProbeTick
  <2>2. UNCHANGED <<tick, review, handles>>
    BY <1>8 DEF ProbeTick
  <2> QED BY <1>2, <2>1, <2>2, Constants DEF Awaited, Backed
<1>9. ASSUME NEW m \in wire, Deliver(m) \/ Lose(m) PROVE WaitInv'
  <2>1. UNCHANGED <<tick, review>>
    BY <1>9 DEF Deliver, Lose
  <2>2. CASE UNCHANGED <<sub, handles>>
    BY <1>2, <1>3, <2>1, <2>2
  <2>3. CASE Deliver(m) /\ m.kind = "result" /\ Accepts(m)
    <3>1. m.job[1] \in SubTask /\ Leased(sub[m.job[1]])
      BY <1>1, <2>3 DEF Result, Handle, Job, Accepts
    <3>2. \A r \in SubTask \ {m.job[1]} : sub'[r] = sub[r]
      BY <1>1, <2>3 DEF Deliver, SubmitResult
    <3>3. UNCHANGED handles
      BY <2>3 DEF Deliver, SubmitResult
    <3> QED BY <1>2, <1>4, <2>1, <3>1, <3>2, <3>3 DEF Leased
  <2>4. CASE Deliver(m) /\ m.kind # "result"
    <3>1. m.subtask \in SubTask
      BY <1>1, <2>4 DEF Result, Handle
    <3>2. /\ sub' = [sub EXCEPT ![m.subtask].status = "SUCCESS", ![m.subtask].late = FALSE]
          /\ handles \subseteq handles'
      BY <2>4 DEF Deliver, SubmitHandle
    <3>3. /\ sub'[m.subtask].status = "SUCCESS"
          /\ \A r \in SubTask \ {m.subtask} : sub'[r] = sub[r]
      BY <1>1, <3>1, <3>2 DEF Row
    <3>4. Awaited
      BY <3>1, <3>2, <3>3 DEF Awaited
    <3> QED BY <1>2, <2>1, <3>4
  <2> QED BY <1>9, <2>2, <2>3, <2>4 DEF Deliver, Lose, SubmitResult
<1>10. ASSUME NEW d \in Device,
              AgentStep(d) \/ Heartbeat(d) \/ GoSilent(d) \/ Crash(d)
       PROVE  WaitInv'
  <2>1. UNCHANGED <<sub, handles, tick, review>>
    BY <1>10 DEF AgentStep, Pull, Report, SendHandle, GoOn, Heartbeat, GoSilent, Crash
  <2> QED BY <1>2, <1>3, <2>1
<1>11. ASSUME NEW d \in Device, Renew(d) PROVE WaitInv'
  <2>1. PICK j \in agent[d].cur : sub' = [sub EXCEPT ![j[1]].late = FALSE] /\ Leased(sub[j[1]])
    BY <1>11 DEF Renew
  <2>2. j[1] \in SubTask /\ UNCHANGED <<handles, tick, review>>
    BY <1>1, <1>11 DEF Renew, Job
  <2>3. (\A r \in SubTask \ {j[1]} : sub'[r] = sub[r]) /\ sub[j[1]].status \in Past
    BY <1>1, <2>1, <2>2 DEF Leased
  <2> QED BY <1>2, <1>4, <2>2, <2>3
<1>12. ASSUME NEW s \in SubTask, Expire(s) PROVE WaitInv'
  <2>1. UNCHANGED <<handles, tick, review>> /\ sub[s].status \in Past
    BY <1>12 DEF Expire, Leased
  <2>2. \A r \in SubTask \ {s} : sub'[r] = sub[r]
    BY <1>1, <1>12 DEF Expire
  <2> QED BY <1>2, <1>4, <2>1, <2>2
<1>13. ASSUME NEW o \in Operator, NEW s \in SubTask, NEW wants \in {"requeue", "terminate"},
              OpenLetter(o, s, wants)
       PROVE  WaitInv'
  <2>1. Backed(s) /\ UNCHANGED <<sub, handles, tick>>
    BY <1>13 DEF OpenLetter, WaitInv, DependentsWait, Backed
  <2>2. \A u \in Operator : \A q \in review'[u] : q \in review[u] \/ q.subtask = s
    BY <1>13 DEF OpenLetter, TypeOK
  <2>3. \A u \in Operator : \A q \in review'[u] : Backed(q.subtask)
    BY <2>1, <2>2 DEF WaitInv
  <2>4. \A t \in TickRequest : \A r \in Candidates(t)' : Backed(r)
    BY <2>1 DEF WaitInv, Candidates
  <2> QED BY <1>3, <2>1, <2>3, <2>4, WaitKept
<1>14. ASSUME NEW o \in Operator, Requeue(o) \/ Terminate(o) PROVE WaitInv'
  <2>1. PICK q \in review[o] : \A r \in SubTask \ {q.subtask} : sub'[r] = sub[r]
    BY <1>1, <1>14 DEF Requeue, Terminate
  <2>2. Backed(q.subtask) /\ UNCHANGED <<handles, tick>>
    BY <1>14 DEF Requeue, Terminate, WaitInv
  <2>3. Awaited
    BY <2>1, <2>2 DEF Awaited
  <2>4. \A u \in Operator : review'[u] \subseteq review[u]
    BY <1>14 DEF Requeue, Terminate, TypeOK
  <2>5. /\ \A u \in Operator : \A p \in review'[u] : Backed(p.subtask)
        /\ \A t \in TickRequest : \A r \in Candidates(t)' : Backed(r)
    BY <2>2, <2>4 DEF WaitInv, Candidates
  <2> QED BY <2>3, <2>5, WaitKept
<1>15. ASSUME NEW a \in Account, MoveAccount(a) \/ CoolDown(a) PROVE WaitInv'
  <2>1. UNCHANGED <<sub, handles, tick, review>>
    BY <1>15 DEF MoveAccount, CoolDown
  <2> QED BY <1>2, <1>3, <2>1
<1>16. CASE UNCHANGED vars
  BY <1>2, <1>3, <1>16 DEF vars
<1> QED BY <1>6, <1>7, <1>8, <1>9, <1>10, <1>11, <1>12, <1>15, <1>16, <1>13, <1>14,
        TicksAwait DEF Next

\* A subtask is queued only when each of its parents has a verified handle
\* (dependencies.py activate_ready_dependents), however many scheduler ticks overlap.
THEOREM DependentsHaveHandles == Spec => []DependentsWait
<1>1. Init => WaitInv
  <2> SUFFICES ASSUME Init PROVE WaitInv
    OBVIOUS
  <2>1. /\ \A s \in SubTask : sub[s].status = "absent"
        /\ \A t \in TickRequest : tick[t].list = {} /\ tick[t].pick = {}
        /\ \A o \in Operator : review[o] = {}
    BY DEF Init, Absent, Over
  <2> QED BY <2>1 DEF WaitInv, DependentsWait, Candidates
<1>2. TypeOK /\ WaitInv /\ [Next]_vars => WaitInv'
  BY StepsAwait
<1>3. WaitInv => DependentsWait
  BY DEF WaitInv
<1> QED BY <1>1, <1>2, <1>3, DispatchTypes, PTL DEF Spec
===============================================================================
