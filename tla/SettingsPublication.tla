-------------------------- MODULE SettingsPublication --------------------------
(***************************************************************************)
(* How the settings of the selector probe are changed                      *)
(* (selector_probe/blueprint.py, store.py; gateway/settings_store.py).     *)
(* They live in a file, their revision and the changes under way in the    *)
(* probe's database.  A change is staged there, written to the file, then  *)
(* completed; whoever reads the settings, and every later change, first    *)
(* judges by the file what became of changes that are still pending.       *)
(***************************************************************************)
EXTENDS Naturals, FiniteSets, FiniteSetsExt

CONSTANTS
  Put,          \* changes of the probe's settings; also names what they write
  Get,          \* reads of the probe's settings
  SettingsHost, \* the processes that serve both
  Never,        \* no change
  MaxOther,     \* bound on the changes of the browser's settings, from another page
  MaxHostDeaths

ASSUME SettingsAssumption == IsFiniteSet(Put) /\ MaxOther \in Nat /\ MaxHostDeaths \in Nat

VARIABLES
  file,      \* the two sections of the file: the probe's and the browser's (adspower)
  settingsRevision,
  intent,    \* management_settings_publications, with the operation that each belongs to
  agent,     \* what each change and read is doing, with the file as it read it
  hostLock,  \* settings_lock, in each process
  onFile,    \* history: what the file contained
  hostDeaths

pubVars == <<file, settingsRevision, intent, agent, hostLock, onFile, hostDeaths>>

Content == [probe : Put \cup {Never}, browser : 0..MaxOther]
Judge   == Put \cup Get

SettingsTypeOK ==
  /\ file \in Content /\ settingsRevision \in 0..Cardinality(Put) /\ onFile \subseteq Content
  /\ intent \in [Put -> [status   : {"none", "pending", "completed", "failed"},
                         revision : 0..Cardinality(Put),   \* staged_revision
                         content  : Content]]              \* what private_reference stands for
  /\ agent \in [Judge -> [pc   : {"new", "load", "judge", "stage", "write", "complete", "fail",
                                  "end", "lost"},
                          host : SettingsHost \cup {Never}, expected : 0..Cardinality(Put),
                          seen : Content, todo : SUBSET Put]]
  /\ \A h \in SettingsHost : hostLock[h] \in Put \cup {Never}

Empty == [probe |-> Never, browser |-> 0]

Fresh == [pc |-> "new", host |-> Never, expected |-> 0, seen |-> Empty, todo |-> {}]

SetInit ==
  /\ file = Empty /\ settingsRevision = 0 /\ onFile = {Empty} /\ hostDeaths = 0
  /\ intent = [p \in Put |-> [status |-> "none", revision |-> 0, content |-> Empty]]
  /\ agent = [j \in Judge |-> Fresh]
  /\ hostLock = [h \in SettingsHost |-> Never]

Moves(j, pc) == agent' = [agent EXCEPT ![j].pc = pc]
Ends(j)      == agent' = [agent EXCEPT ![j] = [Fresh EXCEPT !.pc = IF j \in Put THEN "end" ELSE "new"]]

Unlocked(j) == [h \in SettingsHost |-> IF hostLock[h] = j THEN Never ELSE hostLock[h]]

\* The settings are read from the file; a change first takes the lock of its process.  It
\* states the revision that its page was loaded with.
Begin(j, h, expected) ==
  /\ agent[j].pc = "new"
  /\ IF j \in Put THEN hostLock[h] = Never /\ hostLock' = [hostLock EXCEPT ![h] = j]
     ELSE UNCHANGED hostLock
  /\ agent' = [agent EXCEPT ![j].pc = "load", ![j].host = h, ![j].expected = expected,
                            ![j].seen = file]
  /\ UNCHANGED <<file, settingsRevision, intent, onFile, hostDeaths>>

\* Fault: the change that made the present revision is not looked at.
PendingBefore == {p \in Put : intent[p].status = "pending" /\ intent[p].revision < settingsRevision}

PendingChanges == {p \in Put : intent[p].status = "pending"}

\* pending_settings_publications
Load(j) ==
  /\ agent[j].pc = "load"
  /\ agent' = [agent EXCEPT ![j].pc = "judge", ![j].todo = PendingChanges]
  /\ UNCHANGED <<file, settingsRevision, intent, hostLock, onFile, hostDeaths>>

\* Fault: whoever finds an intent takes it for written.
WrittenAnyhow(p, content) == intent[p].status = "pending"

Written(p, content) == intent[p].content = content

\* Fault: an intent that another one judged is judged again.
Judged(p, status) == [intent EXCEPT ![p].status = status]

\* Fault: a status that the table does not know.
Reconciled(p, status) ==
  IF intent[p].status # "pending" THEN intent ELSE [intent EXCEPT ![p].status = "reconciled"]

\* complete_settings_publication, fail_settings_publication: a pending intent only
SettledTo(p, status) ==
  IF intent[p].status # "pending" THEN intent ELSE [intent EXCEPT ![p].status = status]

\* reconcile_settings_publications; to complete what another one failed raises.
Reconcile(j) ==
  /\ agent[j].pc = "judge"
  /\ IF agent[j].todo = {}
     THEN /\ IF j \in Put THEN Moves(j, "stage") ELSE Ends(j)
          /\ UNCHANGED <<intent, hostLock>>
     ELSE LET p == CHOOSE q \in agent[j].todo :
                     \A r \in agent[j].todo : intent[q].revision <= intent[r].revision
              written == Written(p, agent[j].seen)
          IN /\ intent' = SettledTo(p, IF written THEN "completed" ELSE "failed")
             /\ IF written /\ intent[p].status = "failed"
                THEN Ends(j) /\ hostLock' = Unlocked(j)
                ELSE agent' = [agent EXCEPT ![j].todo = @ \ {p}] /\ UNCHANGED hostLock
  /\ UNCHANGED <<file, settingsRevision, onFile, hostDeaths>>

\* Fault: the revision was compared when the settings were read.
AnyRevision(p) == TRUE

Current(p) == agent[p].expected = settingsRevision

\* stage_settings_publication
Stage(p) ==
  /\ agent[p].pc = "stage"
  /\ IF Current(p)
     THEN /\ settingsRevision' = agent[p].expected + 1
          /\ intent' = [intent EXCEPT ![p] = [status |-> "pending",
                                              revision |-> agent[p].expected + 1,
                                              content |-> [agent[p].seen EXCEPT !.probe = p]]]
          /\ Moves(p, "write") /\ UNCHANGED hostLock
     ELSE /\ Ends(p) /\ hostLock' = Unlocked(p) /\ UNCHANGED <<settingsRevision, intent>>
  /\ UNCHANGED <<file, onFile, hostDeaths>>

\* mutate_settings with a mutator that ignores the present content: the whole file becomes
\* what was prepared from the content read at the beginning.
Write(p) ==
  /\ agent[p].pc = "write"
  /\ \/ /\ file' = intent[p].content /\ onFile' = onFile \cup {file'} /\ Moves(p, "complete")
     \/ Moves(p, "fail") /\ UNCHANGED <<file, onFile>>
  /\ UNCHANGED <<settingsRevision, intent, hostLock, hostDeaths>>

\* An intent that another one failed stays failed: the answer is that it will be judged.
Conclude(p) ==
  /\ agent[p].pc \in {"complete", "fail"}
  /\ intent' = SettledTo(p, IF agent[p].pc = "complete" THEN "completed" ELSE "failed")
  /\ Ends(p) /\ hostLock' = Unlocked(p)
  /\ UNCHANGED <<file, settingsRevision, onFile, hostDeaths>>

\* update_settings: another page changes the browser's section.
OtherPageSaves ==
  /\ file.browser < MaxOther
  /\ file' = [file EXCEPT !.browser = @ + 1] /\ onFile' = onFile \cup {file'}
  /\ UNCHANGED <<settingsRevision, intent, agent, hostLock, hostDeaths>>

SettingsHostDies(h) ==
  /\ hostDeaths < MaxHostDeaths /\ hostDeaths' = hostDeaths + 1
  /\ agent' = [j \in Judge |-> IF agent[j].host = h /\ agent[j].pc # "end"
                               THEN [Fresh EXCEPT !.pc = "lost"] ELSE agent[j]]
  /\ hostLock' = [hostLock EXCEPT ![h] = Never]
  /\ UNCHANGED <<file, settingsRevision, intent, onFile>>

JudgeStep(j) == Load(j) \/ Reconcile(j)
PutStep(p)   == JudgeStep(p) \/ Stage(p) \/ Write(p) \/ Conclude(p)
\* The page is read again and again.  (A read that dies leaves nothing behind.)
GetStep(g)   == JudgeStep(g) \/ Begin(g, Never, 0)

SetNext ==
  \/ \E p \in Put : \/ PutStep(p)
                    \/ \E h \in SettingsHost, r \in 0..settingsRevision : Begin(p, h, r)
  \/ \E g \in Get : GetStep(g)
  \/ \E h \in SettingsHost : SettingsHostDies(h)
  \/ OtherPageSaves

SetSpec == SetInit /\ [][SetNext]_pubVars

\* A change that began goes on while its process lives; the page is read again and again.
SetFairness == /\ \A p \in Put : WF_pubVars(PutStep(p))
               /\ \A g \in Get : WF_pubVars(GetStep(g))

-------------------------------------------------------------------------------
(* Properties *)

\* What is called published was in the file, with what the change had prepared.
CompletedWasOnFile ==
  \A p \in Put : intent[p].status = "completed" => intent[p].content \in onFile

\* Of the changes that were made from one and the same revision one at most is staged.
RevisionsStagedOnce ==
  \A p, q \in Put : /\ p # q /\ intent[p].status # "none" /\ intent[q].status # "none"
                    => intent[p].revision # intent[q].revision

\* What was judged, completed or failed, is not judged differently by one that comes later
\* with what it read of the file before.
JudgementStays ==
  [][\A p \in Put : intent[p].status \in {"completed", "failed"} => intent'[p] = intent[p]]_pubVars

\* A change that was staged is completed or failed, though its process dies.
ChangesSettle ==
  \A p \in Put : intent[p].status = "pending" ~> intent[p].status \in {"completed", "failed"}

\* The database says of the settings file what was in it, of one change at a time.
SettingsSafe == SettingsTypeOK /\ CompletedWasOnFile /\ RevisionsStagedOnce

\* A staged change is judged in the end, and once.
ChangesSettleOnce == JudgementStays /\ ChangesSettle
================================================================================
