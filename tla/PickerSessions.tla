----------------------------- MODULE PickerSessions -----------------------------
(***************************************************************************)
(* The element picker (selector_probe/picker.py).  A session is a thread   *)
(* that shows a page, a record of it in the memory of its process, and a   *)
(* copy in Redis that every process serves to users.  Both change by a     *)
(* compare-and-set on revision and token.  A session holds the lease that  *)
(* probe runs take, too.                                                   *)
(***************************************************************************)
EXTENDS Naturals, FiniteSets

CONSTANTS
  Session,
  Host,            \* the processes that serve the console
  Homes,           \* the placements of the sessions on them that are considered
  NoSession,
  MaxBumps,        \* bound on the changes of a session's inventory and recorded steps
  MaxPickerFaults  \* bound on dying processes, lost leases and lost keys

ASSUME PickerAssumption ==
  Homes \subseteq [Session -> Host] /\ NoSession \notin Session
  /\ MaxBumps \in Nat /\ MaxPickerFaults \in Nat

VARIABLES
  stored,   \* Redis: the record of each session
  memory,   \* the record in the session's own process
  page,     \* the thread of each session
  home,     \* the process of each session
  lease,    \* Redis: who holds the lease
  promised, \* history: how a user's request ended the session
  overtaken, \* history: sessions whose lease ran out
  pickerFaults

pickVars == <<stored, memory, page, home, lease, promised, overtaken, pickerFaults>>

Ended  == {"confirmed", "cancelled", "expired", "failed"}
Alive  == {"starting", "ready"}
Status == {"none"} \cup Alive \cup Ended

PickerTypeOK ==
  /\ stored \in [Session -> [status : Status, revision : Nat, cleanup : {"pending", "running", "passed"}]]
  /\ memory \in [Session -> [status : Status, revision : Nat,
                             synced : BOOLEAN]]  \* its token is that of the stored record
  /\ page \in [Session -> {"none", "open", "stopping", "closed", "done"}]
  /\ home \in [Session -> Host] /\ lease \in Session \cup {NoSession}
  /\ promised \in [Session -> {"nothing", "confirmed", "cancelled"}]

Absent == [status |-> "none", revision |-> 0, cleanup |-> "pending"]
NoMemory == [status |-> "none", revision |-> 0, synced |-> FALSE]

PickInit ==
  /\ stored = [s \in Session |-> Absent] /\ memory = [s \in Session |-> NoMemory]
  /\ page = [s \in Session |-> "none"] /\ home \in Homes
  /\ lease = NoSession
  /\ promised = [s \in Session |-> "nothing"] /\ overtaken = {} /\ pickerFaults = 0

PickerFault == pickerFaults < MaxPickerFaults /\ pickerFaults' = pickerFaults + 1

-------------------------------------------------------------------------------
(* compare_and_save *)

\* Fault: only the revision is compared.
AcceptsRevision(s, synced, from, to, cleanup) ==
  /\ stored[s].status # "none" /\ stored[s].revision = from /\ to = from + 1

\* The record must be the one that was read, the revision its successor, and what has
\* ended may only be noted as cleaned up.
Accepts(s, synced, from, to, cleanup) ==
  /\ stored[s].status # "none" /\ synced /\ stored[s].revision = from /\ to = from + 1
  /\ stored[s].status \in Ended => cleanup

\* The record in memory is changed first and saved then; nobody looks at a save that is
\* refused.
SaveMemory(s, status) ==
  LET m == memory[s]
      saved == Accepts(s, m.synced, m.revision, m.revision + 1, FALSE)
  IN  /\ memory' = [memory EXCEPT ![s] = [status |-> status, revision |-> m.revision + 1,
                                          synced |-> saved]]
      /\ stored' = IF saved THEN [stored EXCEPT ![s].status = status, ![s].revision = @ + 1]
                   ELSE stored

\* Fault: the session's memory is believed.
Believed(s) == memory[s]

Reloaded(s) == IF stored[s].status = "none" THEN [memory[s] EXCEPT !.synced = FALSE]
               ELSE [status |-> stored[s].status, revision |-> stored[s].revision, synced |-> TRUE]

\* _expire and _finish: a save that was refused is answered by what is stored; with nothing
\* stored the memory keeps the end it was given.
Refused(s, status) ==
  IF stored[s].status # "none" THEN Reloaded(s)
  ELSE [status |-> status, revision |-> memory[s].revision + 1, synced |-> FALSE]

-------------------------------------------------------------------------------
(* The session's own process *)

\* start: one session in a process, and one lease for all of them and the probe's runs
StartSession(s) ==
  /\ page[s] = "none" /\ lease = NoSession
  /\ \A r \in Session : home[r] = home[s] => memory[r].status \notin Alive
  /\ lease' = s /\ page' = [page EXCEPT ![s] = "open"]
  /\ stored' = [stored EXCEPT ![s] = [Absent EXCEPT !.status = "starting", !.revision = 1]]
  /\ memory' = [memory EXCEPT ![s] = [status |-> "starting", revision |-> 1, synced |-> TRUE]]
  /\ UNCHANGED <<home, promised, overtaken, pickerFaults>>

\* _update_ready
UpdateReady(s) ==
  /\ page[s] = "open" /\ memory[s].status = "starting"
  /\ SaveMemory(s, "ready")
  /\ UNCHANGED <<page, home, lease, promised, overtaken, pickerFaults>>

\* _update_inventory and _record_action: another inventory or a further step is one
\* revision.
UpdateInventory(s) ==
  /\ page[s] = "open" /\ memory[s].status \in Alive /\ memory[s].revision < MaxBumps
  /\ SaveMemory(s, memory[s].status)
  /\ UNCHANGED <<page, home, lease, promised, overtaken, pickerFaults>>

StopPage(s) == page' = [page EXCEPT ![s] = IF @ = "open" THEN "stopping" ELSE @]

\* _expire
Expire(s) ==
  /\ page[s] \in {"open", "stopping"} /\ memory[s].status \in Alive
  /\ LET m == memory[s]
         saved == Accepts(s, m.synced, m.revision, m.revision + 1, FALSE)
     IN  IF saved THEN SaveMemory(s, "expired")
         ELSE memory' = [memory EXCEPT ![s] = Refused(s, "expired")] /\ UNCHANGED stored
  /\ StopPage(s)
  /\ UNCHANGED <<home, lease, promised, overtaken, pickerFaults>>

\* Fault: only an end that is news stops the page.
NoticeNews(s) ==
  /\ page[s] = "open" /\ stored[s].status \in Ended /\ memory[s].status \in Alive
  /\ memory' = [memory EXCEPT ![s].status = stored[s].status, ![s].revision = stored[s].revision]
  /\ StopPage(s)
  /\ UNCHANGED <<stored, home, lease, promised, overtaken, pickerFaults>>

\* heartbeat: the session was ended in another process.
NoticeEnd(s) ==
  /\ page[s] = "open" /\ stored[s].status \in Ended
  /\ memory' = IF memory[s].status \in Alive
               THEN [memory EXCEPT ![s].status = stored[s].status,
                                   ![s].revision = stored[s].revision]
               ELSE memory
  /\ StopPage(s)
  /\ UNCHANGED <<stored, home, lease, promised, overtaken, pickerFaults>>

\* heartbeat: the lease was lost.
LoseLease(s) ==
  /\ page[s] = "open" /\ lease # s
  /\ IF memory[s].status \in Alive THEN SaveMemory(s, "failed") ELSE UNCHANGED <<memory, stored>>
  /\ StopPage(s)
  /\ UNCHANGED <<home, lease, promised, overtaken, pickerFaults>>

\* The runner returns, stopped or because its page fails: what is stored is loaded; a
\* session that has not ended has failed.
PageEnds(s) ==
  /\ page[s] \in {"open", "stopping"}
  /\ IF page[s] = "stopping" THEN UNCHANGED pickerFaults ELSE PickerFault
  /\ LET m == Reloaded(s)
         ended == m.status \in Ended
         saved == Accepts(s, m.synced, m.revision, m.revision + 1, ended)
         status == IF ended THEN m.status ELSE "failed"
     IN  /\ memory' = [memory EXCEPT ![s] = [status |-> status, revision |-> m.revision + 1,
                                             synced |-> saved]]
         /\ stored' = IF saved THEN [stored EXCEPT ![s] = [status |-> status,
                                       revision |-> m.revision + 1, cleanup |-> "passed"]]
                      ELSE stored
  /\ page' = [page EXCEPT ![s] = "closed"]
  /\ UNCHANGED <<home, lease, promised, overtaken>>

\* Fault: whoever holds the lease loses it.
ReleasedAnyway(s) == NoSession

ReleasedLease(s) == IF lease = s THEN NoSession ELSE lease

ReleaseLease(s) ==
  /\ page[s] = "closed"
  /\ lease' = ReleasedLease(s) /\ page' = [page EXCEPT ![s] = "done"]
  /\ UNCHANGED <<stored, memory, home, promised, overtaken, pickerFaults>>

-------------------------------------------------------------------------------
(* Users, in any process *)

InMemory(s, h) == home[s] = h /\ memory[s].status # "none"

\* confirm and cancel, of the revision that the user sees; of another one they are refused.
\* The page is stopped only when the end was saved.
Finish(s, h, status) ==
  LET r == IF InMemory(s, h) THEN memory[s]
           ELSE [status |-> stored[s].status, revision |-> stored[s].revision, synced |-> TRUE]
      saved == Accepts(s, r.synced, r.revision, r.revision + 1, FALSE)
  IN
  /\ r.status = "ready"
  /\ stored' = IF ~saved THEN stored
               ELSE [stored EXCEPT ![s] = [status |-> status, revision |-> r.revision + 1,
                                           cleanup |-> "running"]]
  /\ memory' = [memory EXCEPT ![s] =
       IF ~InMemory(s, h) THEN [memory[s] EXCEPT !.synced = memory[s].synced /\ ~saved]
       ELSE IF saved THEN [status |-> status, revision |-> r.revision + 1, synced |-> TRUE]
       ELSE Refused(s, status)]
  /\ promised' = IF saved THEN [promised EXCEPT ![s] = status] ELSE promised
  /\ IF saved /\ InMemory(s, h) THEN StopPage(s) ELSE UNCHANGED page
  /\ UNCHANGED <<home, lease, overtaken, pickerFaults>>

-------------------------------------------------------------------------------
(* Time and faults *)

HostDies(h) ==
  /\ PickerFault
  /\ memory' = [s \in Session |-> IF home[s] = h THEN NoMemory ELSE memory[s]]
  /\ page' = [s \in Session |-> IF home[s] = h /\ page[s] # "none" THEN "done" ELSE page[s]]
  /\ UNCHANGED <<stored, home, lease, promised, overtaken>>

\* The lease runs out: that of a dead process, or that of a session which could not renew it.
LeaseExpires ==
  /\ lease # NoSession
  /\ IF page[lease] = "done" THEN UNCHANGED pickerFaults ELSE PickerFault
  /\ lease' = NoSession /\ overtaken' = overtaken \cup {lease}
  /\ UNCHANGED <<stored, memory, page, home, promised>>

\* A record is kept five minutes after its last change; ten when it has ended, and the
\* heartbeat looks twice a second.
RecordExpires(s) ==
  /\ stored[s].status # "none" /\ (page[s] = "open" => stored[s].status \in Alive)
  /\ IF page[s] = "done" THEN UNCHANGED pickerFaults ELSE PickerFault
  /\ stored' = [stored EXCEPT ![s] = Absent]
  /\ memory' = [memory EXCEPT ![s].synced = FALSE]
  /\ UNCHANGED <<page, home, lease, promised, overtaken>>

OwnStep(s) == Expire(s) \/ NoticeEnd(s) \/ (page[s] = "stopping" /\ PageEnds(s)) \/ ReleaseLease(s)

PickNext ==
  \/ \E s \in Session :
       \/ StartSession(s) \/ UpdateReady(s) \/ LoseLease(s) \/ OwnStep(s) \/ PageEnds(s)
       \/ UpdateInventory(s)
       \/ \E h \in Host, st \in {"confirmed", "cancelled"} : Finish(s, h, st)
       \/ RecordExpires(s)
  \/ \E h \in Host : HostDies(h)
  \/ LeaseExpires

PickSpec == PickInit /\ [][PickNext]_pickVars

\* The timer, the heartbeat and the page's thread run, and a dead process loses its lease.
PickFairness ==
  /\ \A s \in Session : WF_pickVars(OwnStep(s))
  /\ WF_pickVars(lease # NoSession /\ page[lease] = "done" /\ LeaseExpires)

-------------------------------------------------------------------------------
(* Properties *)

\* A session that a user was told is confirmed, or cancelled, stays so for everybody, as
\* long as its record is kept: neither the timer, nor a lost lease, nor a change of the
\* page that was under way in another process makes it anything else.
PromiseKept ==
  \A s \in Session : promised[s] # "nothing" => stored[s].status \in {promised[s], "none"}

\* A session whose page has closed is not offered as one that can be confirmed, although
\* its process may have worked with an outdated record.
NoGhostSession ==
  \A s \in Session : page[s] = "closed" => stored[s].status \notin Alive

\* While a session has its page it has the lease, unless it could not renew it: nobody
\* else gives it back.
LeaseIsHeld ==
  \A s \in Session : page[s] \in {"open", "stopping", "closed"} /\ s \notin overtaken => lease = s

\* Confirmed or cancelled in memory only: its record had gone, and neither the timer nor the
\* heartbeat, which renews the lease, stops such a session.
EndedInMemory(s) == page[s] = "open" /\ memory[s].status \in Ended /\ stored[s].status = "none"

\* Every session ends, and the lease is free for the probe again, unless a user ended the
\* session after its record had gone.
SessionsEnd ==
  \A s \in Session : page[s] = "open" ~> (page[s] = "done" /\ lease # s) \/ EndedInMemory(s)

\* Two processes that share a session through Redis agree on how it ended, on whether it
\* can still be used and on who has the lease.
PickerSafe == PickerTypeOK /\ PromiseKept /\ NoGhostSession /\ LeaseIsHeld
================================================================================
