------------------------------ MODULE ConsoleProofs ------------------------------
(***************************************************************************)
(* Proofs about what the console keeps: the settings of the probe, the     *)
(* sessions of the element picker, and the jobs of Execution V2.  Each of  *)
(* the three parts has an inductive invariant, a lemma for each action,    *)
(* and its theorems at the end.                                            *)
(***************************************************************************)
EXTENDS SettingsPublication, PickerSessions, ExecutionJobs, FiniteSetTheorems, TLAPS

-------------------------------------------------------------------------------
(* The settings of the probe *)

Staged == {p \in Put : intent[p].status # "none"}

\* A revision is one staged change; what is called completed, and what anybody holds of
\* the file, was in it.
SetInv ==
  /\ SettingsTypeOK /\ hostLock \in [SettingsHost -> Put \cup {Never}]
  /\ settingsRevision = Cardinality(Staged)
  /\ \A p \in Staged : intent[p].revision <= settingsRevision
  /\ RevisionsStagedOnce
  /\ \A p \in Put : agent[p].pc \in {"new", "load", "judge", "stage"} => p \notin Staged
  /\ Empty \in onFile /\ file \in onFile /\ \A j \in Judge : agent[j].seen \in onFile
  /\ CompletedWasOnFile
  /\ \A p \in Put : agent[p].pc = "complete" => intent[p].content \in onFile

IntentRow == [status   : {"none", "pending", "completed", "failed"},
              revision : 0..Cardinality(Put), content : Content]
AgentRow == [pc : {"new", "load", "judge", "stage", "write", "complete", "fail", "end", "lost"},
             host : SettingsHost \cup {Never}, expected : 0..Cardinality(Put),
             seen : Content, todo : SUBSET Put]

LEMMA EmptyTyped == Empty \in Content /\ Fresh \in AgentRow /\ Fresh.pc = "new" /\ Fresh.seen = Empty
<1>1. Empty \in Content
  BY SettingsAssumption DEF Empty, Content
<1>2. 0 \in 0..Cardinality(Put)
  BY SettingsAssumption, FS_CardinalityType
<1> QED BY <1>1, <1>2 DEF Fresh, AgentRow

LEMMA SetInitInv == SetInit => SetInv
<1> SUFFICES ASSUME SetInit PROVE SetInv
  OBVIOUS
<1>1. Staged = {} /\ Cardinality({}) = 0 /\ 0 \in 0..Cardinality(Put)
  BY SettingsAssumption, FS_CardinalityType, FS_EmptySet DEF SetInit, Staged
<1>2. \A j \in Judge : agent[j] = Fresh
  BY DEF SetInit
<1>3. SettingsTypeOK /\ hostLock \in [SettingsHost -> Put \cup {Never}]
  BY <1>1, EmptyTyped DEF SetInit, SettingsTypeOK, AgentRow
<1> QED BY <1>1, <1>2, <1>3, EmptyTyped
        DEF SetInit, SetInv, Staged, RevisionsStagedOnce, CompletedWasOnFile

LEMMA SetTypes ==
  ASSUME SetInv
  PROVE  /\ file \in Content /\ onFile \subseteq Content /\ settingsRevision \in Nat
         /\ settingsRevision \in 0..Cardinality(Put) /\ Cardinality(Put) \in Nat
         /\ intent \in [Put -> IntentRow] /\ agent \in [Judge -> AgentRow]
         /\ hostLock \in [SettingsHost -> Put \cup {Never}] /\ Put \subseteq Judge
         /\ \A p \in Put : intent[p].revision \in Nat
<1>1. /\ file \in Content /\ onFile \subseteq Content /\ settingsRevision \in 0..Cardinality(Put)
      /\ intent \in [Put -> IntentRow] /\ agent \in [Judge -> AgentRow]
      /\ hostLock \in [SettingsHost -> Put \cup {Never}] /\ Put \subseteq Judge
  BY DEF SetInv, SettingsTypeOK, IntentRow, AgentRow, Judge
<1>2. Cardinality(Put) \in Nat
  BY SettingsAssumption, FS_CardinalityType
<1>3. \A p \in Put : intent[p].revision \in 0..Cardinality(Put)
  BY <1>1 DEF IntentRow
<1> QED BY <1>1, <1>2, <1>3

\* An agent goes on, and holds of the file what was in it; no change is staged or judged.
LEMMA AgentMoves ==
  ASSUME SetInv, UNCHANGED <<settingsRevision, intent>>,
         file' \in Content, onFile \subseteq onFile', onFile' \subseteq Content, file' \in onFile',
         agent' \in [Judge -> AgentRow], hostLock' \in [SettingsHost -> Put \cup {Never}],
         \A j \in Judge : agent'[j].seen \in onFile',
         \A p \in Put : agent'[p].pc \in {"new", "load", "judge", "stage"} =>
                          agent[p].pc \in {"new", "load", "judge", "stage"},
         \A p \in Put : agent'[p].pc = "complete" => intent[p].content \in onFile'
  PROVE  SetInv'
<1>1. Staged' = Staged
  BY DEF Staged
<1>2. SettingsTypeOK'
  BY SetTypes DEF SettingsTypeOK, AgentRow, IntentRow
<1> QED BY <1>1, <1>2 DEF SetInv, RevisionsStagedOnce, CompletedWasOnFile

\* A judgement: a pending change gets it, and none but a pending one.
LEMMA Judgement ==
  ASSUME SetInv, NEW p, NEW status \in {"completed", "failed"},
         status = "completed" /\ p \in Put => intent[p].content \in onFile,
         intent' = SettledTo(p, status), UNCHANGED <<file, settingsRevision, onFile>>,
         agent' \in [Judge -> AgentRow], hostLock' \in [SettingsHost -> Put \cup {Never}],
         \A j \in Judge : agent'[j].seen \in onFile,
         \A q \in Put : agent'[q].pc \in {"new", "load", "judge", "stage"} =>
                          agent[q].pc \in {"new", "load", "judge", "stage"},
         \A q \in Put : agent'[q].pc = "complete" => agent[q].pc = "complete"
  PROVE  SetInv' /\ \A q \in Put : intent[q].status # "pending" => intent'[q] = intent[q]
<1>1. ASSUME NEW q \in Put
      PROVE  \/ intent'[q] = intent[q]
             \/ /\ q = p /\ intent[q].status = "pending" /\ intent'[q].status = status
                /\ intent'[q].revision = intent[q].revision
                /\ intent'[q].content = intent[q].content
  BY SetTypes DEF SettledTo, IntentRow
<1>2. intent' \in [Put -> IntentRow]
  BY SetTypes DEF SettledTo, IntentRow
<1>3. Staged' = Staged /\ \A q \in Put : /\ intent'[q].revision = intent[q].revision
                                         /\ intent'[q].content = intent[q].content
                                         /\ intent'[q].status = "none" <=> intent[q].status = "none"
  BY <1>1 DEF Staged
<1>4. SettingsTypeOK'
  BY <1>2, SetTypes DEF SettingsTypeOK, AgentRow, IntentRow
<1>5. CompletedWasOnFile'
  BY <1>1 DEF SetInv, CompletedWasOnFile
<1>6. hostLock' \in [SettingsHost -> Put \cup {Never}] /\ UNCHANGED <<file, settingsRevision, onFile>>
  OBVIOUS
<1>7. RevisionsStagedOnce'
  BY <1>3 DEF SetInv, RevisionsStagedOnce
<1>8. settingsRevision' = Cardinality(Staged')
      /\ \A q \in Staged' : intent'[q].revision <= settingsRevision'
  BY <1>3 DEF SetInv, Staged
<1>9. \A q \in Put : /\ agent'[q].pc \in {"new", "load", "judge", "stage"} => q \notin Staged'
                     /\ agent'[q].pc = "complete" => intent'[q].content \in onFile
  BY <1>3 DEF SetInv
<1>10. \A q \in Put : intent[q].status # "pending" => intent'[q] = intent[q]
  BY <1>1
<1>11. Empty \in onFile' /\ file' \in onFile' /\ \A j \in Judge : agent'[j].seen \in onFile'
  BY <1>6 DEF SetInv
<1>12. \A q \in Put : agent'[q].pc \in {"new", "load", "judge", "stage"} => q \notin Staged'
  BY <1>9
<1>13. \A q \in Put : agent'[q].pc = "complete" => intent'[q].content \in onFile'
  BY <1>6, <1>9
<1>14. SetInv'
  BY <1>4, <1>5, <1>6, <1>7, <1>8, <1>11, <1>12, <1>13, Zenon DEF SetInv
<1> QED BY <1>10, <1>14

LEMMA BeginsKeep ==
  ASSUME SetInv, NEW j \in Judge, NEW h \in SettingsHost \cup {Never},
         NEW r \in 0..settingsRevision, Begin(j, h, r)
  PROVE  SetInv'
<1> DEFINE new == [agent[j] EXCEPT !.pc = "load", !.host = h, !.expected = r, !.seen = file]
<1>1. r \in 0..Cardinality(Put) /\ agent[j] \in AgentRow
  BY SetTypes
<1>2. new \in AgentRow /\ new.pc = "load" /\ new.seen = file
  BY <1>1, SetTypes DEF AgentRow
<1>3. agent' = [agent EXCEPT ![j] = new] /\ agent[j].pc = "new"
      /\ UNCHANGED <<file, settingsRevision, intent, onFile>>
  BY DEF Begin
<1>4. hostLock' \in [SettingsHost -> Put \cup {Never}]
  BY SetTypes DEF Begin
<1> HIDE DEF new
<1>5. /\ agent' \in [Judge -> AgentRow] /\ agent'[j] = new
      /\ \A i \in Judge \ {j} : agent'[i] = agent[i]
  BY <1>2, <1>3, SetTypes
<1>6. \A p \in Put : agent'[p].pc = "complete" => agent[p].pc = "complete"
  BY <1>2, <1>5, SetTypes
<1>7. \A i \in Judge : agent'[i].seen \in onFile
  BY <1>2, <1>5 DEF SetInv
<1>8. \A p \in Put : agent'[p].pc \in {"new", "load", "judge", "stage"} =>
                          agent[p].pc \in {"new", "load", "judge", "stage"}
  BY <1>2, <1>3, <1>5, SetTypes
<1>9. \A p \in Put : agent'[p].pc = "complete" => intent[p].content \in onFile
  BY <1>6 DEF SetInv
<1>10. file \in Content /\ onFile \subseteq Content /\ file \in onFile
  BY SetTypes DEF SetInv
<1> QED BY <1>3, <1>4, <1>5, <1>7, <1>8, <1>9, <1>10, AgentMoves

\* Where a step leaves an agent: on with a new pc, or over.
LEMMA MovesTyped ==
  ASSUME SetInv, NEW j \in Judge, NEW new \in AgentRow, agent' = [agent EXCEPT ![j] = new],
         new.seen \in onFile
  PROVE  /\ agent' \in [Judge -> AgentRow] /\ agent'[j] = new
         /\ \A i \in Judge \ {j} : agent'[i] = agent[i]
         /\ \A i \in Judge : agent'[i].seen \in onFile
  BY SetTypes DEF SetInv

LEMMA NewTyped ==
  ASSUME SetInv, NEW j \in Judge, NEW pc \in {"judge", "stage", "write", "complete", "fail"},
         NEW new, new = [agent[j] EXCEPT !.pc = pc]
  PROVE  new \in AgentRow /\ new.seen \in onFile /\ new.pc = pc
<1>1. agent[j] \in AgentRow /\ agent[j].seen \in onFile
  BY SetTypes DEF SetInv
<1> QED BY <1>1 DEF AgentRow

LEMMA LoadTyped ==
  ASSUME SetInv, NEW j \in Judge, NEW todo \in SUBSET Put, NEW new,
         new = [agent[j] EXCEPT !.pc = "judge", !.todo = todo]
  PROVE  new \in AgentRow /\ new.seen \in onFile /\ new.pc = "judge"
<1>1. agent[j] \in AgentRow /\ agent[j].seen \in onFile
  BY SetTypes DEF SetInv
<1> QED BY <1>1 DEF AgentRow

LEMMA TodoTyped ==
  ASSUME SetInv, NEW j \in Judge, NEW todo \in SUBSET Put, NEW new,
         new = [agent[j] EXCEPT !.todo = todo]
  PROVE  new \in AgentRow /\ new.seen \in onFile /\ new.pc = agent[j].pc
<1>1. agent[j] \in AgentRow /\ agent[j].seen \in onFile
  BY SetTypes DEF SetInv
<1> QED BY <1>1 DEF AgentRow

LEMMA EndsTyped ==
  ASSUME SetInv, NEW j \in Judge
  PROVE  LET new == [Fresh EXCEPT !.pc = IF j \in Put THEN "end" ELSE "new"] IN
         new \in AgentRow /\ new.seen \in onFile /\ new.pc = IF j \in Put THEN "end" ELSE "new"
<1>1. Fresh \in AgentRow /\ Fresh.seen \in onFile
  BY EmptyTyped DEF SetInv
<1> QED BY <1>1 DEF AgentRow

LEMMA UnlockedTyped ==
  ASSUME SetInv, NEW j
  PROVE  Unlocked(j) \in [SettingsHost -> Put \cup {Never}]
  BY SetTypes DEF Unlocked

LEMMA JudgesKeep ==
  ASSUME SetInv, NEW j \in Judge, JudgeStep(j)
  PROVE  SetInv' /\ \A q \in Put : intent[q].status # "pending" => intent'[q] = intent[q]
<1>1. CASE Load(j)
  <2> DEFINE new == [agent[j] EXCEPT !.pc = "judge", !.todo = PendingChanges]
  <2>1. PendingChanges \in SUBSET Put
    BY DEF PendingChanges
  <2>2. new \in AgentRow /\ new.pc = "judge" /\ new.seen \in onFile
    <3>1. new = [agent[j] EXCEPT !.pc = "judge", !.todo = PendingChanges]
      OBVIOUS
    <3> HIDE DEF new
    <3> QED BY <2>1, <3>1, LoadTyped
  <2>3. agent' = [agent EXCEPT ![j] = new] /\ agent[j].pc = "load"
        /\ UNCHANGED <<file, settingsRevision, intent, hostLock, onFile>>
    BY <1>1 DEF Load
  <2> HIDE DEF new
  <2>4. /\ agent' \in [Judge -> AgentRow] /\ agent'[j] = new
        /\ \A i \in Judge \ {j} : agent'[i] = agent[i]
        /\ \A i \in Judge : agent'[i].seen \in onFile
    BY <2>2, <2>3, MovesTyped
  <2>5. \A q \in Put : /\ agent'[q].pc \in {"new", "load", "judge", "stage"} =>
                            agent[q].pc \in {"new", "load", "judge", "stage"}
                       /\ agent'[q].pc = "complete" => intent[q].content \in onFile
    BY <2>2, <2>3, <2>4, SetTypes DEF SetInv
  <2>6. file \in Content /\ onFile \subseteq Content /\ file \in onFile
        /\ hostLock \in [SettingsHost -> Put \cup {Never}]
    BY SetTypes DEF SetInv
  <2> QED BY <2>3, <2>4, <2>5, <2>6, AgentMoves
<1>2. CASE Reconcile(j) /\ agent[j].todo = {}
  <2>1. PICK new \in AgentRow :
          /\ agent' = [agent EXCEPT ![j] = new] /\ new.seen \in onFile
          /\ new.pc = IF j \in Put THEN "stage" ELSE "new"
    <3>1. CASE j \in Put
      <4> DEFINE new == [agent[j] EXCEPT !.pc = "stage"]
      <4>1. new \in AgentRow /\ new.seen \in onFile /\ new.pc = "stage"
        BY NewTyped
      <4>2. agent' = [agent EXCEPT ![j] = new]
        BY <1>2, <3>1 DEF Reconcile, Moves
      <4> HIDE DEF new
      <4> QED BY <3>1, <4>1, <4>2
    <3>2. CASE j \notin Put
      <4>1. agent' = [agent EXCEPT ![j] = [Fresh EXCEPT !.pc = IF j \in Put THEN "end" ELSE "new"]]
        BY <1>2, <3>2 DEF Reconcile, Ends
      <4> QED BY <3>2, <4>1, EndsTyped
    <3> QED BY <3>1, <3>2
  <2>2. agent[j].pc = "judge" /\ UNCHANGED <<file, settingsRevision, intent, hostLock, onFile>>
    BY <1>2 DEF Reconcile
  <2>4. /\ agent' \in [Judge -> AgentRow] /\ agent'[j] = new
        /\ \A i \in Judge \ {j} : agent'[i] = agent[i]
        /\ \A i \in Judge : agent'[i].seen \in onFile
    BY <2>1, MovesTyped
  <2>5. \A q \in Put : /\ agent'[q].pc \in {"new", "load", "judge", "stage"} =>
                            agent[q].pc \in {"new", "load", "judge", "stage"}
                       /\ agent'[q].pc = "complete" => intent[q].content \in onFile
    BY <2>1, <2>2, <2>4, SetTypes DEF SetInv
  <2>6. file \in Content /\ onFile \subseteq Content /\ file \in onFile
        /\ hostLock \in [SettingsHost -> Put \cup {Never}]
    BY SetTypes DEF SetInv
  <2> QED BY <2>2, <2>4, <2>5, <2>6, AgentMoves
<1>3. CASE Reconcile(j) /\ agent[j].todo # {}
  <2> DEFINE p == CHOOSE q \in agent[j].todo :
                     \A r \in agent[j].todo : intent[q].revision <= intent[r].revision
             status == IF Written(p, agent[j].seen) THEN "completed" ELSE "failed"
  <2>1. intent' = SettledTo(p, status) /\ status \in {"completed", "failed"}
    BY <1>3 DEF Reconcile
  <2>2. status = "completed" => intent[p].content \in onFile
    BY DEF Written, SetInv
  <2> HIDE DEF p, status
  <2>3. agent[j].todo \ {p} \in SUBSET Put
    BY SetTypes DEF AgentRow
  <2>4. PICK new \in AgentRow :
          /\ agent' = [agent EXCEPT ![j] = new] /\ new.seen \in onFile
          /\ new.pc \in {agent[j].pc, IF j \in Put THEN "end" ELSE "new"}
    <3>1. \/ agent' = [agent EXCEPT ![j] = [agent[j] EXCEPT !.todo = @ \ {p}]]
          \/ agent' = [agent EXCEPT ![j] = [Fresh EXCEPT !.pc = IF j \in Put THEN "end" ELSE "new"]]
      BY <1>3 DEF Reconcile, Ends, p
    <3>2. [agent[j] EXCEPT !.todo = @ \ {p}] = [agent[j] EXCEPT !.todo = agent[j].todo \ {p}]
      OBVIOUS
    <3>3. CASE agent' = [agent EXCEPT ![j] = [agent[j] EXCEPT !.todo = agent[j].todo \ {p}]]
      BY <2>3, <3>3, TodoTyped
    <3>4. CASE agent' = [agent EXCEPT ![j] = [Fresh EXCEPT !.pc = IF j \in Put THEN "end" ELSE "new"]]
      BY <3>4, EndsTyped
    <3> QED BY <3>1, <3>2, <3>3, <3>4
  <2>5. agent[j].pc = "judge" /\ UNCHANGED <<file, settingsRevision, onFile>>
    BY <1>3 DEF Reconcile
  <2>6. hostLock' \in [SettingsHost -> Put \cup {Never}]
    BY <1>3, UnlockedTyped, SetTypes DEF Reconcile
  <2>7. /\ agent' \in [Judge -> AgentRow] /\ agent'[j] = new
        /\ \A i \in Judge \ {j} : agent'[i] = agent[i]
        /\ \A i \in Judge : agent'[i].seen \in onFile
    BY <2>4, MovesTyped
  <2>8. \A q \in Put : /\ agent'[q].pc \in {"new", "load", "judge", "stage"} =>
                            agent[q].pc \in {"new", "load", "judge", "stage"}
                       /\ agent'[q].pc = "complete" => agent[q].pc = "complete"
    BY <2>4, <2>5, <2>7, SetTypes
  <2> QED BY <2>1, <2>2, <2>5, <2>6, <2>7, <2>8, Judgement
<1> QED BY <1>1, <1>2, <1>3 DEF JudgeStep, Reconcile

\* A change is staged: the revision is new, so is the change.
LEMMA StagesKeep ==
  ASSUME SetInv, NEW p \in Put, Stage(p)
  PROVE  SetInv' /\ \A q \in Put : intent[q].status # "none" => intent'[q] = intent[q]
<1>1. CASE ~ Current(p)
  <2>1. /\ agent' = [agent EXCEPT ![p] = [Fresh EXCEPT !.pc = IF p \in Put THEN "end" ELSE "new"]]
        /\ UNCHANGED <<file, settingsRevision, intent, onFile>>
        /\ hostLock' \in [SettingsHost -> Put \cup {Never}] /\ p \in Judge
    BY <1>1, UnlockedTyped DEF Stage, Ends, Judge
  <2>2. PICK new \in AgentRow :
          agent' = [agent EXCEPT ![p] = new] /\ new.seen \in onFile /\ new.pc = "end"
    BY <2>1, EndsTyped
  <2>3. /\ agent' \in [Judge -> AgentRow] /\ agent'[p] = new
        /\ \A i \in Judge \ {p} : agent'[i] = agent[i]
        /\ \A i \in Judge : agent'[i].seen \in onFile
    BY <2>1, <2>2, MovesTyped
  <2>4. \A q \in Put : /\ agent'[q].pc \in {"new", "load", "judge", "stage"} =>
                            agent[q].pc \in {"new", "load", "judge", "stage"}
                       /\ agent'[q].pc = "complete" => intent[q].content \in onFile
    BY <2>2, <2>3, SetTypes DEF SetInv
  <2>5. file \in Content /\ onFile \subseteq Content /\ file \in onFile
    BY SetTypes DEF SetInv
  <2> QED BY <2>1, <2>3, <2>4, <2>5, AgentMoves
<1>2. CASE Current(p)
  <2> DEFINE content == [agent[p].seen EXCEPT !.probe = p]
             staged == [status |-> "pending", revision |-> settingsRevision + 1, content |-> content]
             new == [agent[p] EXCEPT !.pc = "write"]
  <2>1. /\ settingsRevision' = settingsRevision + 1 /\ intent' = [intent EXCEPT ![p] = staged]
        /\ agent' = [agent EXCEPT ![p] = new] /\ agent[p].pc = "stage"
        /\ UNCHANGED <<file, onFile, hostLock>> /\ p \in Judge
    BY <1>2 DEF Stage, Current, Moves, Judge
  <2>2. content \in Content
    BY <2>1, SetTypes DEF AgentRow, Content
  <2> HIDE DEF content
  <2>3. new \in AgentRow /\ new.seen \in onFile /\ new.pc = "write"
    BY <2>1, NewTyped
  <2>4. /\ agent' \in [Judge -> AgentRow] /\ agent'[p] = new
        /\ \A i \in Judge \ {p} : agent'[i] = agent[i]
        /\ \A i \in Judge : agent'[i].seen \in onFile
    BY <2>1, <2>3, MovesTyped
  <2>5. p \notin Staged /\ Staged \subseteq Put /\ Staged \cup {p} \subseteq Put
    BY <2>1 DEF SetInv, Staged
  <2>6. IsFiniteSet(Staged) /\ IsFiniteSet(Staged \cup {p})
    BY <2>5, SettingsAssumption, FS_Subset
  <2>7. Cardinality(Staged \cup {p}) = settingsRevision + 1
    BY <2>5, <2>6, FS_AddElement DEF SetInv
  <2>8. settingsRevision + 1 \in 0..Cardinality(Put)
    <3>1. Cardinality(Staged \cup {p}) <= Cardinality(Put)
      BY <2>5, SettingsAssumption, FS_Subset
    <3> QED BY <2>7, <3>1, SetTypes
  <2>9. staged \in IntentRow /\ staged.status = "pending" /\ staged.revision = settingsRevision + 1
    BY <2>2, <2>8 DEF IntentRow
  <2> HIDE DEF staged, new
  <2>10. /\ intent' \in [Put -> IntentRow] /\ intent'[p] = staged
         /\ \A q \in Put \ {p} : intent'[q] = intent[q]
    BY <2>1, <2>9, SetTypes
  <2>11. Staged' = Staged \cup {p}
    BY <2>9, <2>10 DEF Staged
  <2>12. SettingsTypeOK' /\ hostLock' \in [SettingsHost -> Put \cup {Never}]
    BY <2>1, <2>4, <2>8, <2>10, SetTypes DEF SettingsTypeOK, AgentRow, IntentRow
  <2>13. settingsRevision' = Cardinality(Staged')
    BY <2>1, <2>7, <2>11
  <2>14. \A q \in Staged' : intent'[q].revision <= settingsRevision'
    <3>1. \A q \in Staged : q \in Put /\ q # p /\ intent[q].revision <= settingsRevision
      BY <2>5 DEF SetInv
    <3> QED BY <2>1, <2>9, <2>10, <2>11, <3>1, SetTypes
  <2>15. RevisionsStagedOnce'
    <3>1. \A q \in Put : q # p /\ intent[q].status # "none"
                           => intent[q].revision # settingsRevision + 1
      <4>1. \A q \in Put : intent[q].status # "none" => intent[q].revision <= settingsRevision
        BY DEF SetInv, Staged
      <4> QED BY <4>1, SetTypes
    <3>2. \A q, r \in Put : /\ q # r /\ intent[q].status # "none" /\ intent[r].status # "none"
                             => intent[q].revision # intent[r].revision
      BY DEF SetInv, RevisionsStagedOnce
    <3> QED BY <2>9, <2>10, <3>1, <3>2 DEF RevisionsStagedOnce
  <2>16. Empty \in onFile' /\ file' \in onFile' /\ \A j \in Judge : agent'[j].seen \in onFile'
    BY <2>1, <2>4 DEF SetInv
  <2>17. CompletedWasOnFile'
    BY <2>1, <2>9, <2>10 DEF SetInv, CompletedWasOnFile
  <2>18. \A q \in Put : /\ agent'[q].pc \in {"new", "load", "judge", "stage"} => q \notin Staged'
                        /\ agent'[q].pc = "complete" => intent'[q].content \in onFile'
    <3>1. CASE TRUE
      BY <2>1, <2>3, <2>4, <2>10, <2>11, SetTypes DEF SetInv, new
    <3> QED BY <3>1
  <2>19. SetInv'
    BY <2>12, <2>13, <2>14, <2>15, <2>16, <2>17, <2>18 DEF SetInv
  <2>20. \A q \in Put : intent[q].status # "none" => intent'[q] = intent[q]
    BY <2>5, <2>10 DEF Staged
  <2> QED BY <2>19, <2>20
<1> QED BY <1>1, <1>2

LEMMA WritesKeep == ASSUME SetInv, NEW p \in Put, Write(p) PROVE SetInv' /\ intent' = intent
<1>1. PICK pc \in {"complete", "fail"} :
        /\ agent' = [agent EXCEPT ![p] = [agent[p] EXCEPT !.pc = pc]]
        /\ file' \in {file, intent[p].content} /\ onFile' = onFile \cup {file'}
        /\ pc = "complete" => file' = intent[p].content
  BY DEF Write, Moves, SetInv
<1>2. agent[p].pc = "write" /\ p \in Judge /\ UNCHANGED <<settingsRevision, intent, hostLock>>
  BY DEF Write, Judge
<1> DEFINE new == [agent[p] EXCEPT !.pc = pc]
<1>3. agent' = [agent EXCEPT ![p] = new] /\ new \in AgentRow /\ new.seen \in onFile /\ new.pc = pc
  <2>1. new = [agent[p] EXCEPT !.pc = pc] /\ agent' = [agent EXCEPT ![p] = new]
    BY <1>1
  <2> HIDE DEF new
  <2> QED BY <1>2, <2>1, NewTyped
<1> HIDE DEF new
<1>4. /\ agent' \in [Judge -> AgentRow] /\ agent'[p] = new
      /\ \A i \in Judge \ {p} : agent'[i] = agent[i]
      /\ \A i \in Judge : agent'[i].seen \in onFile
  BY <1>2, <1>3, MovesTyped
<1>5. /\ file' \in Content /\ onFile \subseteq onFile' /\ onFile' \subseteq Content
      /\ file' \in onFile'
  BY <1>1, SetTypes DEF IntentRow
<1>6. \A q \in Put : /\ agent'[q].pc \in {"new", "load", "judge", "stage"} =>
                          agent[q].pc \in {"new", "load", "judge", "stage"}
                     /\ agent'[q].pc = "complete" => intent[q].content \in onFile'
  BY <1>1, <1>3, <1>4, <1>5, SetTypes DEF SetInv
<1>7. \A j \in Judge : agent'[j].seen \in onFile'
  BY <1>4, <1>5
<1>8. hostLock' \in [SettingsHost -> Put \cup {Never}]
  BY <1>2, SetTypes
<1> QED BY <1>2, <1>4, <1>5, <1>6, <1>7, <1>8, AgentMoves

LEMMA ConcludesKeep ==
  ASSUME SetInv, NEW p \in Put, Conclude(p)
  PROVE  SetInv' /\ \A q \in Put : intent[q].status # "pending" => intent'[q] = intent[q]
<1>1. PICK status \in {"completed", "failed"} :
        /\ intent' = SettledTo(p, status)
        /\ status = "completed" => agent[p].pc = "complete"
  BY DEF Conclude
<1>2. /\ agent' = [agent EXCEPT ![p] = [Fresh EXCEPT !.pc = IF p \in Put THEN "end" ELSE "new"]]
      /\ UNCHANGED <<file, settingsRevision, onFile>> /\ p \in Judge
      /\ hostLock' \in [SettingsHost -> Put \cup {Never}]
  BY UnlockedTyped DEF Conclude, Ends, Judge
<1>3. PICK new \in AgentRow :
        agent' = [agent EXCEPT ![p] = new] /\ new.seen \in onFile /\ new.pc = "end"
  BY <1>2, EndsTyped
<1>4. /\ agent' \in [Judge -> AgentRow] /\ agent'[p] = new
      /\ \A i \in Judge \ {p} : agent'[i] = agent[i]
      /\ \A i \in Judge : agent'[i].seen \in onFile
  BY <1>2, <1>3, MovesTyped
<1>5. \A q \in Put : /\ agent'[q].pc \in {"new", "load", "judge", "stage"} =>
                          agent[q].pc \in {"new", "load", "judge", "stage"}
                     /\ agent'[q].pc = "complete" => agent[q].pc = "complete"
  BY <1>3, <1>4, SetTypes
<1>6. status = "completed" => intent[p].content \in onFile
  BY <1>1 DEF SetInv
<1>7. \A j \in Judge : agent'[j].seen \in onFile
  BY <1>4
<1> QED BY <1>1, <1>2, <1>4, <1>5, <1>6, <1>7, Judgement

LEMMA OtherPageKeeps == ASSUME SetInv, OtherPageSaves PROVE SetInv' /\ intent' = intent
<1> DEFINE new == [file EXCEPT !.browser = file.browser + 1]
<1>1. file' = new /\ file.browser < MaxOther /\ onFile' = onFile \cup {new}
      /\ UNCHANGED <<settingsRevision, intent, agent, hostLock>>
  BY DEF OtherPageSaves
<1>2. new \in Content
  <2>1. file.browser + 1 \in 0..MaxOther
    BY <1>1, SetTypes, SettingsAssumption DEF Content
  <2> QED BY <2>1, SetTypes DEF Content
<1> HIDE DEF new
<1>3. /\ file' \in Content /\ onFile \subseteq onFile' /\ onFile' \subseteq Content
      /\ file' \in onFile' /\ agent' \in [Judge -> AgentRow]
      /\ hostLock' \in [SettingsHost -> Put \cup {Never}]
  BY <1>1, <1>2, SetTypes
<1>4. /\ \A j \in Judge : agent'[j].seen \in onFile'
      /\ \A q \in Put : /\ agent'[q].pc \in {"new", "load", "judge", "stage"} =>
                            agent[q].pc \in {"new", "load", "judge", "stage"}
                       /\ agent'[q].pc = "complete" => intent[q].content \in onFile'
  BY <1>1, <1>3 DEF SetInv
<1> QED BY <1>1, <1>3, <1>4, AgentMoves

LEMMA HostDeathKeeps ==
  ASSUME SetInv, NEW h \in SettingsHost, SettingsHostDies(h) PROVE SetInv' /\ intent' = intent
<1> DEFINE lost == [Fresh EXCEPT !.pc = "lost"]
<1>1. lost \in AgentRow /\ lost.pc = "lost" /\ lost.seen \in onFile
  BY EmptyTyped DEF AgentRow, SetInv
<1>2. \A j \in Judge : agent'[j] \in {lost, agent[j]}
  BY DEF SettingsHostDies
<1>3. /\ hostLock' \in [SettingsHost -> Put \cup {Never}]
      /\ UNCHANGED <<file, settingsRevision, intent, onFile>>
      /\ file \in Content /\ onFile \subseteq Content /\ file \in onFile
  BY SetTypes DEF SettingsHostDies, SetInv
<1>4. \E f : agent' = [j \in Judge |-> f[j]]
  <2>1. agent' = [j \in Judge |-> [k \in Judge |-> IF agent[k].host = h /\ agent[k].pc # "end"
                               THEN [Fresh EXCEPT !.pc = "lost"] ELSE agent[k]][j]]
    BY DEF SettingsHostDies
  <2> QED BY <2>1
<1> HIDE DEF lost
<1>5. agent' \in [Judge -> AgentRow]
  BY <1>1, <1>2, <1>4, SetTypes
<1>6. file' \in Content /\ onFile \subseteq onFile' /\ onFile' \subseteq Content /\ file' \in onFile'
  BY <1>3
<1>7. \A j \in Judge : agent'[j].seen \in onFile'
  BY <1>1, <1>2, <1>3 DEF SetInv
<1>8. \A q \in Put : agent'[q].pc \in {"new", "load", "judge", "stage"} =>
                      agent[q].pc \in {"new", "load", "judge", "stage"}
  BY <1>1, <1>2, SetTypes
<1>9. \A q \in Put : agent'[q].pc = "complete" => intent[q].content \in onFile'
  BY <1>1, <1>2, <1>3, SetTypes DEF SetInv
<1>10. hostLock' \in [SettingsHost -> Put \cup {Never}] /\ UNCHANGED <<settingsRevision, intent>>
  BY <1>3
<1>11. SetInv'
  BY <1>5, <1>6, <1>7, <1>10, <1>9, <1>8, AgentMoves
<1> QED BY <1>3, <1>11

JudgedStays ==
  \A p \in Put : intent[p].status \in {"completed", "failed"} => intent'[p] = intent[p]

LEMMA SetStep == SetInv /\ [SetNext]_pubVars => SetInv' /\ JudgedStays
<1> SUFFICES ASSUME SetInv, [SetNext]_pubVars PROVE SetInv' /\ JudgedStays
  OBVIOUS
<1>1. ASSUME NEW j \in Judge, JudgeStep(j) PROVE SetInv' /\ JudgedStays
  BY <1>1, JudgesKeep DEF JudgedStays
<1>2. ASSUME NEW j \in Judge, NEW h \in SettingsHost \cup {Never}, NEW r \in 0..settingsRevision,
             Begin(j, h, r)
      PROVE  SetInv' /\ JudgedStays
  <2>1. intent' = intent
    BY <1>2 DEF Begin
  <2> QED BY <1>2, <2>1, BeginsKeep DEF JudgedStays
<1>3. ASSUME NEW p \in Put, PutStep(p) PROVE SetInv' /\ JudgedStays
  <2>1. CASE JudgeStep(p)
    BY <1>1, <2>1 DEF Judge
  <2>2. CASE Stage(p)
    BY <2>2, StagesKeep DEF JudgedStays
  <2>3. CASE Write(p)
    BY <2>3, WritesKeep DEF JudgedStays
  <2>4. CASE Conclude(p)
    BY <2>4, ConcludesKeep DEF JudgedStays
  <2> QED BY <1>3, <2>1, <2>2, <2>3, <2>4 DEF PutStep
<1>4. ASSUME NEW g \in Get, GetStep(g) PROVE SetInv' /\ JudgedStays
  <2>1. g \in Judge /\ 0 \in 0..settingsRevision
    BY SetTypes DEF Judge
  <2> QED BY <1>1, <1>2, <1>4, <2>1 DEF GetStep
<1>5. CASE OtherPageSaves
  BY <1>5, OtherPageKeeps DEF JudgedStays
<1>6. ASSUME NEW h \in SettingsHost, SettingsHostDies(h) PROVE SetInv' /\ JudgedStays
  BY <1>6, HostDeathKeeps DEF JudgedStays
<1>7. CASE UNCHANGED pubVars
  <2>1. SetInv'
    BY <1>7 DEF pubVars, SetInv, SettingsTypeOK, Staged, RevisionsStagedOnce, CompletedWasOnFile
  <2> QED BY <1>7, <2>1 DEF pubVars, JudgedStays
<1>8. Put \subseteq Judge
  BY DEF Judge
<1> QED BY <1>2, <1>3, <1>4, <1>5, <1>6, <1>7, <1>8 DEF SetNext

LEMMA SetInvariant == SetSpec => []SetInv
<1> QED BY SetInitInv, SetStep, PTL DEF SetSpec

\* The database never says of the settings file what was not in it, and stages one change
\* from one revision: reconcile_settings_publications, stage_settings_publication, whatever
\* changes, reads, other pages and deaths of processes come between their steps.
THEOREM SettingsHold == SetSpec => []SettingsSafe
<1>1. SetInv => SettingsSafe
  BY DEF SetInv, SettingsSafe
<1> QED BY <1>1, SetInvariant, PTL

\* What was judged of a change of the settings stays so (the UPDATEs on publication_status =
\* 'pending'), for any number of changes and processes.
THEOREM JudgementsHold == SetSpec => JudgementStays
<1>1. SetInv /\ [SetNext]_pubVars => [JudgedStays]_pubVars
  BY SetStep
<1>2. [JudgedStays]_pubVars => [\A p \in Put : intent[p].status \in {"completed", "failed"}
                                               => intent'[p] = intent[p]]_pubVars
  BY DEF JudgedStays
<1> QED BY <1>1, <1>2, SetInvariant, PTL DEF SetSpec, JudgementStays

-------------------------------------------------------------------------------
(* The sessions of the element picker *)

Holding == {"open", "stopping", "closed"}

\* A session that was not started has left no trace.
NothingBefore ==
  \A s \in Session : page[s] = "none" =>
     stored[s] = Absent /\ memory[s] = NoMemory /\ promised[s] = "nothing"

PickerInv == PickerTypeOK /\ NothingBefore /\ PromiseKept /\ NoGhostSession /\ LeaseIsHeld

StoredRow == [status : Status, revision : Nat, cleanup : {"pending", "running", "passed"}]
MemoryRow == [status : Status, revision : Nat, synced : BOOLEAN]

LEMMA StatusesDiffer ==
  /\ "none" \notin Ended /\ "none" \notin Alive /\ \A v \in Ended : v \notin Alive /\ v \in Status
  /\ \A v \in Alive : v \in Status
  BY DEF Ended, Alive, Status

LEMMA PickTypes ==
  ASSUME PickerInv
  PROVE  /\ stored \in [Session -> StoredRow] /\ memory \in [Session -> MemoryRow]
         /\ page \in [Session -> {"none"} \cup Holding \cup {"done"}]
         /\ promised \in [Session -> {"nothing", "confirmed", "cancelled"}]
  BY DEF PickerInv, PickerTypeOK, StoredRow, MemoryRow, Holding

LEMMA PickInitInv == PickInit => PickerInv
<1> SUFFICES ASSUME PickInit PROVE PickerInv
  OBVIOUS
<1>1. Absent \in StoredRow /\ NoMemory \in MemoryRow
  BY DEF Absent, NoMemory, StoredRow, MemoryRow, Status
<1>2. stored \in [Session -> StoredRow] /\ memory \in [Session -> MemoryRow]
  BY <1>1 DEF PickInit
<1>3. home \in [Session -> Host]
  BY PickerAssumption DEF PickInit
<1>4. PickerTypeOK
  BY <1>2, <1>3 DEF PickInit, PickerTypeOK, StoredRow, MemoryRow
<1> QED BY <1>4 DEF PickInit, PickerInv, NothingBefore, PromiseKept, NoGhostSession, LeaseIsHeld

\* What a step may leave of one session, when the lease stays where it is.
Kept(s, r, pg, pr) ==
  /\ page[s] # "none" /\ pg # "none"
  /\ pg \in Holding => page[s] \in Holding
  /\ pr # "nothing" => r.status \in {pr, "none"}
  /\ pg = "closed" => r.status \notin Alive

LEMMA SessionMoves ==
  ASSUME PickerInv, NEW s \in Session, NEW m \in MemoryRow, NEW r \in StoredRow,
         NEW pg \in Holding \cup {"done"}, NEW pr \in {"nothing", "confirmed", "cancelled"},
         Kept(s, r, pg, pr),
         memory' = [memory EXCEPT ![s] = m], stored' = [stored EXCEPT ![s] = r],
         page' = [page EXCEPT ![s] = pg], promised' = [promised EXCEPT ![s] = pr],
         UNCHANGED <<home, lease, overtaken>>
  PROVE  PickerInv'
<1>1. /\ memory' \in [Session -> MemoryRow] /\ stored' \in [Session -> StoredRow]
      /\ page' \in [Session -> {"none"} \cup Holding \cup {"done"}]
      /\ promised' \in [Session -> {"nothing", "confirmed", "cancelled"}]
  BY PickTypes
<1>2. /\ memory'[s] = m /\ stored'[s] = r /\ page'[s] = pg /\ promised'[s] = pr
      /\ \A q \in Session \ {s} : /\ memory'[q] = memory[q] /\ stored'[q] = stored[q]
                                  /\ page'[q] = page[q] /\ promised'[q] = promised[q]
  BY PickTypes
<1>3. PickerTypeOK'
  BY <1>1 DEF PickerInv, PickerTypeOK, StoredRow, MemoryRow, Holding
<1>4. NothingBefore'
  BY <1>2 DEF PickerInv, NothingBefore, Kept
<1>5. PromiseKept'
  BY <1>2 DEF PickerInv, PromiseKept, Kept
<1>6. NoGhostSession'
  BY <1>2 DEF PickerInv, NoGhostSession, Kept
<1>7. LeaseIsHeld'
  BY <1>2 DEF PickerInv, LeaseIsHeld, Kept, Holding
<1> QED BY <1>3, <1>4, <1>5, <1>6, <1>7 DEF PickerInv

\* A save that is accepted without a cleanup meets a session that nobody was promised the
\* end of.
LEMMA AcceptedIsAlive ==
  ASSUME PickerInv, NEW s \in Session, NEW synced, NEW from, NEW to,
         Accepts(s, synced, from, to, FALSE)
  PROVE  promised[s] = "nothing" /\ stored[s].status \in Alive /\ page[s] # "none"
<1>1. stored[s].status # "none" /\ stored[s].status \notin Ended /\ stored[s] \in StoredRow
  BY PickTypes DEF Accepts
<1>2. stored[s].status \in Alive
  BY <1>1 DEF StoredRow, Status
<1>3. promised[s] = "nothing"
  BY <1>1, PickTypes DEF PickerInv, PromiseKept, Ended
<1>4. page[s] # "none"
  BY <1>1 DEF PickerInv, NothingBefore, Absent
<1> QED BY <1>2, <1>3, <1>4

LEMMA SaveKeeps ==
  ASSUME PickerInv, NEW s \in Session, NEW status \in Status,
         NEW pg \in {"open", "stopping"}, page[s] \in {"open", "stopping"},
         SaveMemory(s, status), page' = [page EXCEPT ![s] = pg],
         UNCHANGED <<home, lease, overtaken, promised>>
  PROVE  PickerInv'
<1> DEFINE old == memory[s]
           saved == Accepts(s, old.synced, old.revision, old.revision + 1, FALSE)
           m == [status |-> status, revision |-> old.revision + 1, synced |-> saved]
           r == IF saved THEN [stored[s] EXCEPT !.status = status, !.revision = stored[s].revision + 1]
                ELSE stored[s]
<1>1. old \in MemoryRow /\ stored[s] \in StoredRow
  BY PickTypes
<1>2. saved \in BOOLEAN
  BY DEF Accepts
<1>3. saved => promised[s] = "nothing"
  BY AcceptedIsAlive
<1>4. memory' = [memory EXCEPT ![s] = m]
  BY DEF SaveMemory
<1>5. stored' = [stored EXCEPT ![s] = r]
  BY PickTypes DEF SaveMemory
<1> HIDE DEF saved, old
<1>6. m \in MemoryRow
  BY <1>1, <1>2 DEF MemoryRow
<1>7. r \in StoredRow
  <2>1. stored[s].revision + 1 \in Nat
    BY <1>1 DEF StoredRow
  <2>2. \A v \in Nat : [stored[s] EXCEPT !.status = status, !.revision = v] \in StoredRow
    BY <1>1 DEF StoredRow
  <2> QED BY <1>1, <2>1, <2>2
<1>8. Kept(s, r, pg, promised[s])
  BY <1>3 DEF Kept, Holding, PickerInv, PromiseKept
<1>9. promised' = [promised EXCEPT ![s] = promised[s]]
      /\ promised[s] \in {"nothing", "confirmed", "cancelled"} /\ pg \in Holding \cup {"done"}
  BY PickTypes DEF Holding
<1> HIDE DEF m, r
<1> QED BY <1>4, <1>5, <1>6, <1>7, <1>8, <1>9, SessionMoves

\* The same, when only the memory of the session is brought up to date.
LEMMA MemoryKeeps ==
  ASSUME PickerInv, NEW s \in Session, NEW m \in MemoryRow, NEW pg \in {"open", "stopping"},
         page[s] \in {"open", "stopping"},
         memory' = [memory EXCEPT ![s] = m], page' = [page EXCEPT ![s] = pg],
         UNCHANGED <<home, lease, overtaken, promised, stored>>
  PROVE  PickerInv'
<1>1. stored' = [stored EXCEPT ![s] = stored[s]] /\ stored[s] \in StoredRow
  BY PickTypes
<1>2. promised' = [promised EXCEPT ![s] = promised[s]]
      /\ promised[s] \in {"nothing", "confirmed", "cancelled"} /\ pg \in Holding \cup {"done"}
  BY PickTypes DEF Holding
<1>3. Kept(s, stored[s], pg, promised[s])
  BY DEF Kept, Holding, PickerInv, PromiseKept
<1> QED BY <1>1, <1>2, <1>3, SessionMoves

LEMMA StopTyped ==
  ASSUME PickerInv, NEW s \in Session, page[s] \in {"open", "stopping"}
  PROVE  /\ StopPage(s) => page' = [page EXCEPT ![s] = "stopping"]
         /\ page' = page => page' = [page EXCEPT ![s] = page[s]]
  BY PickTypes DEF StopPage

LEMMA ReloadTyped ==
  ASSUME PickerInv, NEW s \in Session
  PROVE  Reloaded(s) \in MemoryRow
<1>1. memory[s] \in MemoryRow /\ stored[s] \in StoredRow
  BY PickTypes
<1>2. [memory[s] EXCEPT !.synced = FALSE] \in MemoryRow
  BY <1>1 DEF MemoryRow
<1>3. [status |-> stored[s].status, revision |-> stored[s].revision, synced |-> TRUE] \in MemoryRow
  BY <1>1 DEF MemoryRow, StoredRow
<1> QED BY <1>2, <1>3 DEF Reloaded

LEMMA RefusedTyped ==
  ASSUME PickerInv, NEW s \in Session, NEW status \in Status
  PROVE  Refused(s, status) \in MemoryRow
<1>1. memory[s].revision + 1 \in Nat
  BY PickTypes DEF MemoryRow
<1>2. \A v \in Nat : [status |-> status, revision |-> v, synced |-> FALSE] \in MemoryRow
  BY DEF MemoryRow
<1> QED BY <1>1, <1>2, ReloadTyped DEF Refused

LEMMA StartKeeps == ASSUME PickerInv, NEW s \in Session, StartSession(s) PROVE PickerInv'
<1> DEFINE r == [Absent EXCEPT !.status = "starting", !.revision = 1]
           m == [status |-> "starting", revision |-> 1, synced |-> TRUE]
<1>1. /\ page[s] = "none" /\ lease = NoSession /\ lease' = s
      /\ page' = [page EXCEPT ![s] = "open"] /\ stored' = [stored EXCEPT ![s] = r]
      /\ memory' = [memory EXCEPT ![s] = m] /\ UNCHANGED <<home, promised, overtaken>>
  BY DEF StartSession
<1>2. r \in StoredRow /\ m \in MemoryRow
  BY DEF StoredRow, MemoryRow, Absent, Status, Alive
<1> HIDE DEF r, m
<1>3. /\ memory' \in [Session -> MemoryRow] /\ stored' \in [Session -> StoredRow]
      /\ page' \in [Session -> {"none"} \cup Holding \cup {"done"}]
      /\ promised' \in [Session -> {"nothing", "confirmed", "cancelled"}]
  BY <1>1, <1>2, PickTypes DEF Holding
<1>4. PickerTypeOK'
  BY <1>1, <1>3 DEF PickerInv, PickerTypeOK, StoredRow, MemoryRow, Holding
<1>5. page'[s] = "open" /\ promised'[s] = "nothing"
      /\ \A q \in Session \ {s} : /\ memory'[q] = memory[q] /\ stored'[q] = stored[q]
                                  /\ page'[q] = page[q] /\ promised'[q] = promised[q]
  BY <1>1, PickTypes DEF PickerInv, NothingBefore
<1>6. NothingBefore' /\ PromiseKept' /\ NoGhostSession'
  BY <1>5 DEF PickerInv, NothingBefore, PromiseKept, NoGhostSession
<1>7. LeaseIsHeld'
  <2>1. \A q \in Session : page[q] \in Holding => q \in overtaken
    BY <1>1, PickerAssumption DEF PickerInv, LeaseIsHeld, Holding
  <2>2. SUFFICES ASSUME NEW q \in Session, page'[q] \in Holding, q \notin overtaken PROVE lease' = q
    BY <1>1 DEF LeaseIsHeld, Holding
  <2> QED BY <1>1, <1>5, <2>1, <2>2
<1> QED BY <1>4, <1>6, <1>7 DEF PickerInv

LEMMA PageEndsKeeps == ASSUME PickerInv, NEW s \in Session, PageEnds(s) PROVE PickerInv'
<1> DEFINE old == Reloaded(s)
           ended == old.status \in Ended
           saved == Accepts(s, old.synced, old.revision, old.revision + 1, ended)
           status == IF ended THEN old.status ELSE "failed"
           m == [status |-> status, revision |-> old.revision + 1, synced |-> saved]
           r == IF saved THEN [status |-> status, revision |-> old.revision + 1,
                               cleanup |-> "passed"] ELSE stored[s]
<1>1. page[s] \in {"open", "stopping"} /\ UNCHANGED <<home, lease, promised, overtaken>>
      /\ memory' = [memory EXCEPT ![s] = m] /\ page' = [page EXCEPT ![s] = "closed"]
  BY DEF PageEnds
<1>2. stored' = [stored EXCEPT ![s] = r]
  BY PickTypes DEF PageEnds
<1>3. old \in MemoryRow /\ stored[s] \in StoredRow
  BY ReloadTyped, PickTypes
<1>4. saved \in BOOLEAN
  BY DEF Accepts
<1>5. stored[s].status # "none" => saved /\ old.status = stored[s].status
  BY DEF Reloaded, Accepts
<1>6. saved => stored[s].status # "none"
  BY DEF Accepts
<1> HIDE DEF old, saved
<1>7. status \in Ended /\ status \in Status
  BY StatusesDiffer DEF Ended
<1>8. m \in MemoryRow /\ r \in StoredRow
  BY <1>3, <1>4, <1>7 DEF MemoryRow, StoredRow
<1>9. r.status = IF saved THEN status ELSE stored[s].status
  OBVIOUS
<1>10. Kept(s, r, "closed", promised[s])
  <2>1. r.status \notin Alive
    BY <1>5, <1>7, <1>9, StatusesDiffer
  <2>2. promised[s] # "nothing" => r.status \in {promised[s], "none"}
    BY <1>5, <1>6, <1>9, PickTypes DEF PickerInv, PromiseKept, Ended
  <2> QED BY <1>1, <2>1, <2>2 DEF Kept, Holding
<1> HIDE DEF m, r
<1>11. promised' = [promised EXCEPT ![s] = promised[s]]
       /\ promised[s] \in {"nothing", "confirmed", "cancelled"} /\ "closed" \in Holding \cup {"done"}
  BY <1>1, PickTypes DEF Holding
<1> QED BY <1>1, <1>2, <1>8, <1>10, <1>11, SessionMoves

LEMMA FinishKeeps ==
  ASSUME PickerInv, NEW s \in Session, NEW h \in Host, NEW st \in {"confirmed", "cancelled"},
         Finish(s, h, st)
  PROVE  PickerInv'
<1> DEFINE old == IF InMemory(s, h) THEN memory[s]
                  ELSE [status |-> stored[s].status, revision |-> stored[s].revision, synced |-> TRUE]
           saved == Accepts(s, old.synced, old.revision, old.revision + 1, FALSE)
           r == IF saved THEN [status |-> st, revision |-> old.revision + 1, cleanup |-> "running"]
                ELSE stored[s]
           m == IF ~ InMemory(s, h) THEN [memory[s] EXCEPT !.synced = memory[s].synced /\ ~ saved]
                ELSE IF saved THEN [status |-> st, revision |-> old.revision + 1, synced |-> TRUE]
                ELSE Refused(s, st)
           pg == IF saved /\ InMemory(s, h) /\ page[s] = "open" THEN "stopping" ELSE page[s]
           pr == IF saved THEN st ELSE promised[s]
<1>1. /\ old.status = "ready" /\ UNCHANGED <<home, lease, overtaken>>
      /\ memory' = [memory EXCEPT ![s] = m]
  <2>1. old.status = "ready" /\ UNCHANGED <<home, lease, overtaken>>
    BY DEF Finish
  <2>2. memory' = [memory EXCEPT ![s] = m]
    BY Zenon DEF Finish
  <2> QED BY <2>1, <2>2
<1>2. stored' = [stored EXCEPT ![s] = r] /\ promised' = [promised EXCEPT ![s] = pr]
  BY PickTypes DEF Finish
<1>3. page' = [page EXCEPT ![s] = pg]
  BY PickTypes DEF Finish, StopPage
<1>4. old \in MemoryRow /\ stored[s] \in StoredRow /\ memory[s] \in MemoryRow
  BY PickTypes DEF MemoryRow, StoredRow
<1>5. saved \in BOOLEAN /\ InMemory(s, h) \in BOOLEAN
  BY DEF Accepts, InMemory
<1>6. page[s] # "none"
  BY <1>1 DEF PickerInv, NothingBefore, InMemory, Absent, NoMemory
<1> HIDE DEF old, saved
<1>7. r \in StoredRow
  BY <1>4 DEF StoredRow, MemoryRow, Status, Ended
<1>8. m \in MemoryRow
  <2>1. CASE InMemory(s, h) /\ saved
    BY <1>4, <2>1 DEF MemoryRow, Status, Ended
  <2>2. CASE InMemory(s, h) /\ ~ saved
    BY <2>2, RefusedTyped DEF Status, Ended
  <2>3. CASE ~ InMemory(s, h)
    BY <1>4, <1>5, <2>3 DEF MemoryRow
  <2> QED BY <1>5, <2>1, <2>2, <2>3
<1>9. Kept(s, r, pg, pr) /\ pg \in Holding \cup {"done"} /\ pr \in {"nothing", "confirmed", "cancelled"}
  <2>1. pg # "none" /\ (pg \in Holding => page[s] \in Holding) /\ (pg = "closed" => page[s] = "closed")
        /\ pg \in Holding \cup {"done"}
    BY <1>6, PickTypes DEF Holding
  <2>2. r.status \in {st, stored[s].status} /\ (r.status # st => ~ saved)
    OBVIOUS
  <2>3. pr # "nothing" => r.status \in {pr, "none"}
    BY DEF PickerInv, PromiseKept
  <2>4. pg = "closed" => r.status \notin Alive
    BY <2>1, <2>2 DEF PickerInv, NoGhostSession, Alive
  <2>5. pr \in {"nothing", "confirmed", "cancelled"}
    BY PickTypes
  <2> QED BY <1>6, <2>1, <2>3, <2>4, <2>5 DEF Kept
<1> HIDE DEF m, r, pg, pr
<1> QED BY <1>1, <1>2, <1>3, <1>7, <1>8, <1>9, SessionMoves

\* What the session's own process does while it shows the page.
LEMMA OwnKeeps ==
  ASSUME PickerInv, NEW s \in Session,
         \/ UpdateReady(s) \/ LoseLease(s) \/ Expire(s) \/ NoticeEnd(s)
         \/ UpdateInventory(s)
  PROVE  PickerInv'
<1>1. memory[s] \in MemoryRow /\ stored[s] \in StoredRow /\ memory[s].status \in Status
  BY PickTypes DEF MemoryRow
<1>2. {"ready", "failed", "expired"} \subseteq Status
  BY DEF Status, Alive, Ended
<1>3. CASE UpdateReady(s)
  <2>1. /\ SaveMemory(s, "ready") /\ page[s] = "open"
        /\ UNCHANGED <<page, home, lease, promised, overtaken>>
    BY <1>3 DEF UpdateReady
  <2> QED BY <1>2, <2>1, StopTyped, SaveKeeps
<1>4. CASE UpdateInventory(s)
  <2>1. /\ SaveMemory(s, memory[s].status) /\ page[s] = "open"
        /\ UNCHANGED <<page, home, lease, promised, overtaken>>
    BY <1>4 DEF UpdateInventory
  <2> QED BY <1>1, <2>1, StopTyped, SaveKeeps
<1>5. CASE Expire(s)
  <2>1. page[s] \in {"open", "stopping"} /\ StopPage(s)
        /\ UNCHANGED <<home, lease, promised, overtaken>>
    BY <1>5 DEF Expire
  <2>2. CASE SaveMemory(s, "expired")
    BY <1>2, <2>1, <2>2, StopTyped, SaveKeeps
  <2>3. CASE memory' = [memory EXCEPT ![s] = Refused(s, "expired")] /\ UNCHANGED stored
    BY <1>2, <2>1, <2>3, StopTyped, RefusedTyped, MemoryKeeps
  <2> QED BY <1>5, <2>2, <2>3 DEF Expire
<1>6. CASE NoticeEnd(s)
  <2> DEFINE m == IF memory[s].status \in Alive
                  THEN [memory[s] EXCEPT !.status = stored[s].status,
                                         !.revision = stored[s].revision]
                  ELSE memory[s]
  <2>1. page[s] = "open" /\ StopPage(s) /\ UNCHANGED <<stored, home, lease, promised, overtaken>>
    BY <1>6 DEF NoticeEnd
  <2>2. memory' = [memory EXCEPT ![s] = m]
    BY <1>6, PickTypes DEF NoticeEnd
  <2>3. m \in MemoryRow
    BY <1>1 DEF MemoryRow, StoredRow
  <2> HIDE DEF m
  <2> QED BY <2>1, <2>2, <2>3, StopTyped, MemoryKeeps
<1>7. CASE LoseLease(s)
  <2>1. page[s] = "open" /\ StopPage(s) /\ UNCHANGED <<home, lease, promised, overtaken>>
    BY <1>7 DEF LoseLease
  <2>2. CASE SaveMemory(s, "failed")
    BY <1>2, <2>1, <2>2, StopTyped, SaveKeeps
  <2>3. CASE UNCHANGED <<memory, stored>>
    <3>1. memory' = [memory EXCEPT ![s] = memory[s]]
      BY <2>3, PickTypes
    <3> QED BY <1>1, <2>1, <2>3, <3>1, StopTyped, MemoryKeeps
  <2> QED BY <1>7, <2>2, <2>3 DEF LoseLease
<1> QED BY <1>3, <1>4, <1>5, <1>6, <1>7

LEMMA ReleaseKeeps == ASSUME PickerInv, NEW s \in Session, ReleaseLease(s) PROVE PickerInv'
<1>1. /\ page[s] = "closed" /\ lease' = ReleasedLease(s) /\ page' = [page EXCEPT ![s] = "done"]
      /\ UNCHANGED <<stored, memory, home, promised, overtaken>>
  BY DEF ReleaseLease
<1>2. /\ page' \in [Session -> {"none"} \cup Holding \cup {"done"}] /\ page'[s] = "done"
      /\ \A q \in Session \ {s} : page'[q] = page[q]
  BY <1>1, PickTypes
<1>3. PickerTypeOK'
  BY <1>1, <1>2 DEF PickerInv, PickerTypeOK, Holding, ReleasedLease
<1>4. NothingBefore' /\ PromiseKept' /\ NoGhostSession'
  BY <1>1, <1>2 DEF PickerInv, NothingBefore, PromiseKept, NoGhostSession
<1>5. LeaseIsHeld'
  BY <1>1, <1>2 DEF PickerInv, LeaseIsHeld, ReleasedLease
<1> QED BY <1>3, <1>4, <1>5 DEF PickerInv

LEMMA HostDiesKeeps == ASSUME PickerInv, NEW h \in Host, HostDies(h) PROVE PickerInv'
<1>1. /\ memory' = [s \in Session |-> IF home[s] = h THEN NoMemory ELSE memory[s]]
      /\ page' = [s \in Session |-> IF home[s] = h /\ page[s] # "none" THEN "done" ELSE page[s]]
      /\ UNCHANGED <<stored, home, lease, promised, overtaken>>
  BY DEF HostDies
<1>2. NoMemory \in MemoryRow
  BY DEF NoMemory, MemoryRow, Status
<1>3. memory' \in [Session -> MemoryRow] /\ page' \in [Session -> {"none"} \cup Holding \cup {"done"}]
  BY <1>1, <1>2, PickTypes
<1>4. \A s \in Session : /\ memory'[s] \in {NoMemory, memory[s]}
                         /\ page'[s] = page[s] \/ page'[s] = "done"
                         /\ page[s] = "none" => page'[s] = "none"
  BY <1>1
<1>5. PickerTypeOK'
  BY <1>1, <1>3 DEF PickerInv, PickerTypeOK, MemoryRow, Holding
<1>6. NothingBefore' /\ PromiseKept' /\ NoGhostSession' /\ LeaseIsHeld'
  BY <1>1, <1>4 DEF PickerInv, NothingBefore, PromiseKept, NoGhostSession, LeaseIsHeld
<1> QED BY <1>5, <1>6 DEF PickerInv

LEMMA ExpiryKeeps ==
  ASSUME PickerInv, LeaseExpires \/ \E s \in Session : RecordExpires(s) PROVE PickerInv'
<1>1. CASE LeaseExpires
  <2>1. /\ lease # NoSession /\ lease' = NoSession /\ overtaken' = overtaken \cup {lease}
        /\ UNCHANGED <<stored, memory, page, home, promised>>
    BY <1>1 DEF LeaseExpires
  <2> QED BY <2>1 DEF PickerInv, PickerTypeOK, NothingBefore, PromiseKept, NoGhostSession,
                      LeaseIsHeld
<1>2. ASSUME NEW s \in Session, RecordExpires(s) PROVE PickerInv'
  <2> DEFINE m == [memory[s] EXCEPT !.synced = FALSE]
  <2>1. /\ stored[s].status # "none" /\ stored' = [stored EXCEPT ![s] = Absent]
        /\ memory' = [memory EXCEPT ![s] = m]
        /\ UNCHANGED <<page, home, lease, promised, overtaken>>
    BY <1>2 DEF RecordExpires
  <2>2. m \in MemoryRow /\ Absent \in StoredRow /\ Absent.status = "none"
    BY PickTypes DEF MemoryRow, StoredRow, Absent, Status
  <2>3. page[s] # "none" /\ page[s] \in Holding \cup {"done"} /\ page' = [page EXCEPT ![s] = page[s]]
        /\ promised' = [promised EXCEPT ![s] = promised[s]]
        /\ promised[s] \in {"nothing", "confirmed", "cancelled"}
    BY <2>1, PickTypes DEF PickerInv, NothingBefore, Absent
  <2>4. Kept(s, Absent, page[s], promised[s])
    BY <2>2, <2>3, StatusesDiffer DEF Kept
  <2> HIDE DEF m
  <2> QED BY <2>1, <2>2, <2>3, <2>4, SessionMoves
<1> QED BY <1>1, <1>2

LEMMA PickStep == PickerInv /\ [PickNext]_pickVars => PickerInv'
<1> SUFFICES ASSUME PickerInv, [PickNext]_pickVars PROVE PickerInv'
  OBVIOUS
<1>1. ASSUME NEW s \in Session, OwnStep(s) PROVE PickerInv'
  BY <1>1, OwnKeeps, PageEndsKeeps, ReleaseKeeps DEF OwnStep
<1>2. ASSUME NEW s \in Session,
             \/ StartSession(s) \/ UpdateReady(s) \/ LoseLease(s) \/ PageEnds(s) \/ RecordExpires(s)
             \/ UpdateInventory(s)
             \/ \E h \in Host, st \in {"confirmed", "cancelled"} : Finish(s, h, st)
      PROVE  PickerInv'
  BY <1>2, StartKeeps, OwnKeeps, PageEndsKeeps, FinishKeeps, ExpiryKeeps
<1>3. CASE UNCHANGED pickVars
  BY <1>3 DEF pickVars, PickerInv, PickerTypeOK, NothingBefore, PromiseKept, NoGhostSession,
              LeaseIsHeld
<1> QED BY <1>1, <1>2, <1>3, HostDiesKeeps, ExpiryKeeps DEF PickNext

\* The processes that share picker sessions through Redis agree on how each one ended and on
\* who has the lease (compare_and_save, ReleasedLease), for any number of sessions and
\* processes, however long records last and whichever process dies.
THEOREM PickerHolds == PickSpec => []PickerSafe
<1>1. PickerInv => PickerSafe
  BY DEF PickerInv, PickerSafe
<1> QED BY <1>1, PickInitInv, PickStep, PTL DEF PickSpec

-------------------------------------------------------------------------------
(* The jobs that run a strategy *)

Working == {"batches", "start", "execute", "clean", "raised"}
Active  == {"queued", "running"}
WorkPc  == {"none", "resolving", "submitted", "recover"} \cup Working

JobRow   == [status : {"none"} \cup Active \cup TerminalJob, cancel : BOOLEAN,
             profiles : SUBSET Profile, size : Nat]
WorkRow  == [pc : WorkPc, done : SUBSET Profile, batch : SUBSET Profile,
             started : SUBSET Profile, bound : SUBSET Profile,
             opening : SUBSET Profile, connecting : SUBSET Profile,
             record : [Profile -> {"none"} \cup Final], cleaned : SUBSET Profile,
             blocked : BOOLEAN]
VisitRow == [pc : {"none", "held", "open", "closing"}, kind : Kind,
             profile : Profile \cup {Nobody}, closers : 0..MaxClosers]
Owners   == Owner \cup {Nobody}

JobTypes ==
  /\ job \in [ExJob -> JobRow] /\ row \in [ExJob -> [Profile -> RowStatus]]
  /\ work \in [ExJob -> WorkRow] /\ ran \in [ExJob -> [Profile -> {0, 1}]]
  /\ held \in [Profile -> Owners] /\ browser \in [Profile -> Owners]
  /\ visit \in [Visitor -> VisitRow] /\ up \in {"down", "recovering", "up", "failed"}
  /\ deaths \in 0..MaxExDeaths

\* What a coroutine is doing fits the status of its job.
Phase(jb, w, u) ==
  /\ w.pc = "resolving" => jb.status = "none"
  /\ w.pc = "submitted" => jb.status = "queued"
  /\ w.pc \in Working => jb.status = "running" \/ (w.pc = "raised" /\ jb.status = "queued")
  /\ w.pc = "recover" => jb.status \in Active
  /\ u = "down" => w.pc = "none"
  /\ u = "recovering" /\ jb.status \in Active => w.pc = "recover"

\* What it has in hand: a batch of its job, the profiles started and cleaned up of it.
InBatch(jb, w) ==
  /\ w.started \subseteq w.batch /\ w.bound \subseteq w.started
  /\ w.pc # "recover" => w.cleaned \subseteq w.started
  /\ w.pc \in {"none", "resolving", "submitted"} => w.batch = {} /\ w.done = {} /\ ~ w.blocked
  /\ w.pc = "batches" => w.cleaned = w.started /\ ~ w.blocked /\ w.batch \subseteq w.done
  /\ w.pc \in {"start", "execute"} => w.cleaned = {} /\ ~ w.blocked
  /\ w.pc \in Working => w.batch \subseteq jb.profiles /\ w.done \subseteq jb.profiles
  /\ w.pc \in {"start", "execute", "clean", "raised"} => \A p \in w.batch : p \notin w.done
  /\ w.pc = "recover" => w.cleaned \subseteq jb.profiles

\* An answer is awaited for one profile at most, which the job is about to have in its hands.
InHand(w) == w.bound \cup w.opening \cup w.connecting

Asked(w) ==
  /\ w.opening \cup w.connecting \subseteq w.started \ w.bound
  /\ w.pc # "start" => w.opening = {} /\ w.connecting = {}
  /\ w.opening = {} \/ w.connecting = {}
  /\ \A p, q \in w.opening \cup w.connecting : p = q

\* The rows of the profiles whose turn is over, has not come, or is now.
TurnsTold(jb, rw, w) ==
  /\ jb.status = "none" \/ w.pc = "submitted" => \A p \in Profile : rw[p] = "queued"
  /\ w.pc \in {"batches", "start", "execute", "clean"} =>
       \A p \in jb.profiles : /\ p \in w.done => rw[p] \in Final
                              /\ p \notin w.done \cup w.batch => rw[p] = "queued"

BatchTold(jb, rw, w) ==
  /\ w.pc \in {"start", "execute"} => \A p \in w.batch :
       /\ p \notin w.started => rw[p] = "queued" /\ w.record[p] = "none"
       /\ p \in InHand(w) => w.record[p] = "none"
       /\ p \in w.started \ InHand(w) => rw[p] = "failed" /\ w.record[p] = "failed"
  /\ w.pc = "execute" => w.started = w.batch \/ jb.cancel
  /\ w.pc = "clean" => \A p \in w.batch :
       /\ rw[p] # "working"
       /\ rw[p] = "queued" => jb.cancel
       /\ rw[p] = "cleanup_failed" => w.blocked
       /\ p \in w.started => w.record[p] \in Final
  /\ w.pc = "recover" => \A p \in w.cleaned :
       rw[p] = "failed" \/ (rw[p] = "cleanup_failed" /\ w.blocked)

Settled(jb, rw) == \A p \in jb.profiles :
  /\ jb.status \in TerminalJob => rw[p] # "working"
  /\ jb.status = "completed" => rw[p] \in Final
  /\ jb.status = "cancelled" => rw[p] # "cleanup_failed"

\* Whose turn has not come, the strategy was not begun in.
TurnsRun(jb, rn, w) ==
  /\ jb.status = "none" \/ w.pc = "submitted" => \A p \in Profile : rn[p] = 0
  /\ w.pc \in Working => \A p \in Profile : p \notin w.done \cup w.batch => rn[p] = 0
  /\ w.pc = "start" => \A p \in Profile : p \notin w.done => rn[p] = 0

\* A browser that the job started is one that it, or its recovery, still has to stop, or
\* one that the job says of that it may be running.
Traced(j, jb, w, br) == \A p \in Profile : br[p] = j =>
  /\ p \in jb.profiles
  /\ \/ jb.status = "cleanup_blocked"
     \/ w.pc \in Working /\ (p \in w.started \ w.cleaned \/ w.blocked \/ w.pc = "raised")
     \/ w.pc = "recover" /\ (p \notin w.cleaned \/ w.blocked)
     \/ w.pc = "none" /\ jb.status \in Active

LeasedTo(j, jb, w, hd) == \A p \in Profile : hd[p] = j =>
  p \in jb.profiles /\ w.pc \in {"submitted"} \cup Working

Sound(j, jb, rw, w, rn, u, br, hd) ==
  /\ Phase(jb, w, u) /\ InBatch(jb, w) /\ Asked(w) /\ TurnsTold(jb, rw, w) /\ BatchTold(jb, rw, w)
  /\ Settled(jb, rw) /\ TurnsRun(jb, rn, w) /\ Traced(j, jb, w, br) /\ LeasedTo(j, jb, w, hd)

\* A visit is of a profile; what is leased to visits is leased to one that goes on.
VisitsSound ==
  /\ \A v \in Visitor : visit[v].pc # "none" => visit[v].profile \in Profile /\ up # "down"
  /\ \A v \in Visitor : visit[v].pc = "none" => visit[v].closers = 0
  /\ \A p \in Profile : held[p] \in Kind \X Profile =>
       \E v \in Visitor : visit[v].pc # "none" /\ held[p] = VisitOwner(v) /\ visit[v].profile = p

JobsInv ==
  /\ JobTypes /\ OneActiveJob /\ VisitsSound
  /\ \A j \in ExJob : Sound(j, job[j], row[j], work[j], ran[j], up, browser, held)

LEMMA WordsDiffer ==
  /\ \A v \in Active : v \notin TerminalJob /\ v # "none"
  /\ \A v \in Working : v \notin {"none", "resolving", "submitted", "recover"} /\ v \in WorkPc
  /\ \A v \in TerminalJob : v # "none"
  /\ \A v \in Final : v \in RowStatus /\ v \notin {"queued", "working", "cleanup_failed", "none"}
  BY DEF Active, Working, TerminalJob, WorkPc, Final, RowStatus

LEMMA NoWorkTyped ==
  /\ NoWork \in WorkRow /\ NoWork.pc = "none" /\ NoWork.batch = {} /\ NoWork.started = {}
  /\ NoWork.bound = {} /\ NoWork.cleaned = {} /\ NoWork.done = {} /\ NoWork.blocked = FALSE
  /\ NoWork.opening = {} /\ NoWork.connecting = {} /\ NoWork.record = [p \in Profile |-> "none"]
  /\ NoVisit \in VisitRow /\ NoVisit.pc = "none" /\ NoVisit.closers = 0
<1>1. 0 \in 0..MaxClosers
  BY ExecutionAssumption
<1>2. [p \in Profile |-> "none"] \in [Profile -> {"none"} \cup Final]
  OBVIOUS
<1>3. NoWork \in WorkRow
  BY <1>2 DEF NoWork, WorkRow, WorkPc
<1>4. NoVisit \in VisitRow
  BY <1>1 DEF NoVisit, VisitRow, Kind
<1> QED BY <1>3, <1>4 DEF NoWork, NoVisit

LEMMA JobsInitInv == JobsInit => JobsInv
<1> SUFFICES ASSUME JobsInit PROVE JobsInv
  OBVIOUS
<1>1. JobTypes
  BY NoWorkTyped, ExecutionAssumption
     DEF JobsInit, JobTypes, JobRow, NoJob, RowStatus, Owners, Owner
<1>2. OneActiveJob /\ VisitsSound
  BY NoWorkTyped, ExecutionAssumption DEF JobsInit, OneActiveJob, VisitsSound, NoJob
<1>3. ASSUME NEW j \in ExJob PROVE Sound(j, job[j], row[j], work[j], ran[j], up, browser, held)
  <2>1. job[j] = NoJob /\ work[j] = NoWork /\ row[j] = [p \in Profile |-> "queued"]
        /\ ran[j] = [p \in Profile |-> 0] /\ up = "up" /\ \A p \in Profile : browser[p] # j /\ held[p] # j
    BY ExecutionAssumption DEF JobsInit
  <2>2. NoJob.status = "none" /\ NoJob.profiles = {}
    BY DEF NoJob
  <2> QED BY <2>1, <2>2, NoWorkTyped DEF Sound, Phase, InBatch, Asked, TurnsTold, BatchTold, Settled,
                TurnsRun, Traced, LeasedTo, Active, Working, TerminalJob
<1> QED BY <1>1, <1>2, <1>3 DEF JobsInv

LEMMA JobRowsTyped ==
  ASSUME JobsInv, NEW j \in ExJob
  PROVE  /\ job[j] \in JobRow /\ row[j] \in [Profile -> RowStatus] /\ work[j] \in WorkRow
         /\ ran[j] \in [Profile -> {0, 1}]
         /\ Sound(j, job[j], row[j], work[j], ran[j], up, browser, held)
  BY DEF JobsInv, JobTypes

\* The invariant says what the runs check.
LEMMA JobsInvSafe == JobsInv => JobsSafe
<1> SUFFICES ASSUME JobsInv PROVE JobsSafe
  OBVIOUS
<1>1. JobsTypeOK
  <2>1. ASSUME NEW j \in ExJob
        PROVE  /\ job[j].status \in {"none", "queued", "running"} \cup TerminalJob
               /\ job[j].cancel \in BOOLEAN /\ job[j].profiles \subseteq Profile
               /\ row[j] \in [Profile -> RowStatus]
               /\ work[j].pc \in {"none", "resolving", "submitted", "batches", "start", "execute",
                                  "clean", "raised", "recover"}
               /\ work[j].record \in [Profile -> {"none"} \cup Final]
               /\ work[j].started \subseteq work[j].batch /\ work[j].bound \subseteq work[j].started
               /\ work[j].opening \cup work[j].connecting \subseteq work[j].started \ work[j].bound
               /\ work[j].pc # "recover" => work[j].cleaned \subseteq work[j].started
    BY JobRowsTyped DEF JobRow, WorkRow, Active, WorkPc, Working, Sound, InBatch, Asked
  <2>2. ran \in [ExJob -> [Profile -> 0..2]]
    <3>1. {0, 1} \subseteq 0..2
      OBVIOUS
    <3> QED BY <3>1 DEF JobsInv, JobTypes
  <2>3. \A v \in Visitor : /\ visit[v].pc \in {"none", "held", "open", "closing"}
                           /\ visit[v].closers \in 0..MaxClosers
    BY DEF JobsInv, JobTypes, VisitRow
  <2> QED BY <2>1, <2>2, <2>3 DEF JobsTypeOK, JobsInv, JobTypes, Owners
<1>2. ASSUME NEW j \in ExJob
      PROVE  /\ \A p \in Profile : /\ job[j].status \in {"completed", "cancelled"} => browser[p] # j
                                   /\ ran[j][p] <= 1
             /\ Settled(job[j], row[j])
  <2>1. Phase(job[j], work[j], up) /\ Traced(j, job[j], work[j], browser) /\ Settled(job[j], row[j])
        /\ ran[j] \in [Profile -> {0, 1}]
    BY JobRowsTyped DEF Sound
  <2>2. \A p \in Profile : job[j].status \in {"completed", "cancelled"} => browser[p] # j
    BY <2>1 DEF Phase, Traced, Active
  <2>3. \A p \in Profile : ran[j][p] <= 1
    BY <2>1
  <2> QED BY <2>1, <2>2, <2>3
<1>3. LeaseHasOwner
  <2> SUFFICES ASSUME NEW p \in Profile, held[p] # Nobody
               PROVE  \/ \E j \in ExJob : held[p] = j /\ work[j].pc \notin {"none", "resolving", "recover"}
                      \/ \E v \in Visitor : visit[v].pc # "none" /\ held[p] = VisitOwner(v)
    BY DEF LeaseHasOwner
  <2>1. held[p] \in ExJob \/ held[p] \in Kind \X Profile
    BY DEF JobsInv, JobTypes, Owners, Owner
  <2>2. CASE held[p] \in ExJob
    BY <2>2, JobRowsTyped, WordsDiffer DEF Sound, LeasedTo
  <2>3. CASE held[p] \in Kind \X Profile
    BY <2>3 DEF JobsInv, VisitsSound
  <2> QED BY <2>1, <2>2, <2>3
<1> QED BY <1>1, <1>2, <1>3 DEF JobsSafe, JobsInv, ClosedWhenEnded, RowsSettled, RanOnce, Settled

\* What a cancelled job may not do, of one job.
Heeds(jb, w, new, next) ==
  jb.status \notin TerminalJob /\ jb.cancel =>
    next.started \subseteq w.started /\ new.status # "completed"

CancelStep == \A j \in ExJob : job[j].status \notin TerminalJob /\ job[j].cancel =>
                /\ work'[j].started \subseteq work[j].started
                /\ \A p \in Profile : browser[p] # j /\ browser'[p] = j => p \in work[j].opening
                /\ job'[j].status # "completed"

\* A step of one job; the browsers and leases that it changes become its own or nobody's.
Moved(j, jb, rw, w, rn) ==
  /\ job' = [job EXCEPT ![j] = jb] /\ row' = [row EXCEPT ![j] = rw]
  /\ work' = [work EXCEPT ![j] = w] /\ ran' = [ran EXCEPT ![j] = rn]
  /\ UNCHANGED <<visit, deaths>> /\ (up' = up \/ (up # "down" /\ up' = "failed"))

Hands(j) ==
  /\ browser' \in [Profile -> Owners] /\ held' \in [Profile -> Owners]
  /\ \A p \in Profile : browser'[p] \in {browser[p], Nobody} \/ (browser'[p] = j /\ p \in work[j].opening)
  /\ \A p \in Profile : held'[p] \in {held[p], j, Nobody}

Alone(j, jb) == jb.status \in Active => job[j].status \in Active \/ Recoverable = {}

LEMMA JobMoves ==
  ASSUME JobsInv, NEW j \in ExJob, NEW jb \in JobRow, NEW rw \in [Profile -> RowStatus],
         NEW w \in WorkRow, NEW rn \in [Profile -> {0, 1}],
         Moved(j, jb, rw, w, rn), Hands(j), Alone(j, jb),
         Heeds(job[j], work[j], jb, w),
         Sound(j, jb, rw, w, rn, up, browser', held') \/ Sound(j, jb, rw, w, rn, up', browser', held')
  PROVE  JobsInv' /\ CancelStep
<1>0. /\ job' = [job EXCEPT ![j] = jb] /\ row' = [row EXCEPT ![j] = rw]
      /\ work' = [work EXCEPT ![j] = w] /\ ran' = [ran EXCEPT ![j] = rn]
      /\ browser' \in [Profile -> Owners] /\ held' \in [Profile -> Owners]
      /\ \A p \in Profile : browser'[p] \in {browser[p], Nobody} \/ (browser'[p] = j /\ p \in work[j].opening)
      /\ \A p \in Profile : held'[p] \in {held[p], j, Nobody}
      /\ UNCHANGED <<visit, deaths>> /\ (up' = up \/ (up # "down" /\ up' = "failed"))
      /\ jb.status \in Active => job[j].status \in Active \/ Recoverable = {}
  BY DEF Moved, Hands, Alone
<1>1. JobTypes'
  BY <1>0 DEF JobsInv, JobTypes
<1>2. /\ job'[j] = jb /\ row'[j] = rw /\ work'[j] = w /\ ran'[j] = rn
      /\ \A k \in ExJob \ {j} : /\ job'[k] = job[k] /\ row'[k] = row[k]
                                /\ work'[k] = work[k] /\ ran'[k] = ran[k]
  BY <1>0 DEF JobsInv, JobTypes
<1>3. OneActiveJob'
  BY <1>0, <1>2 DEF JobsInv, OneActiveJob, Recoverable, Active
<1>4. VisitsSound'
  <2>1. \A p \in Profile : held'[p] \in Kind \X Profile => held'[p] = held[p]
    BY <1>0, ExecutionAssumption
  <2> QED BY <1>0, <2>1 DEF JobsInv, VisitsSound, VisitOwner
<1>5. ASSUME NEW k \in ExJob \ {j}
      PROVE  Sound(k, job'[k], row'[k], work'[k], ran'[k], up', browser', held')
  <2>1. Sound(k, job[k], row[k], work[k], ran[k], up, browser, held)
    BY JobRowsTyped
  <2>2. \A p \in Profile : (browser'[p] = k => browser[p] = k) /\ (held'[p] = k => held[p] = k)
    BY <1>0, ExecutionAssumption
  <2>3. Traced(k, job[k], work[k], browser') /\ LeasedTo(k, job[k], work[k], held')
    BY <2>1, <2>2 DEF Sound, Traced, LeasedTo
  <2>4. Phase(job[k], work[k], up')
    BY <1>0, <2>1 DEF Sound, Phase
  <2>5. Sound(k, job[k], row[k], work[k], ran[k], up', browser', held')
    BY <2>1, <2>3, <2>4 DEF Sound
  <2> QED BY <1>2, <2>5
<1>6. \A k \in ExJob : Sound(k, job'[k], row'[k], work'[k], ran'[k], up', browser', held')
  <2>1. Phase(jb, w, up')
    BY <1>0 DEF Sound, Phase
  <2>2. Sound(j, jb, rw, w, rn, up', browser', held')
    BY <2>1 DEF Sound
  <2> QED BY <1>2, <1>5, <2>2
<1>7. \A k \in ExJob, p \in Profile : browser[p] # k /\ browser'[p] = k => k = j /\ p \in work[j].opening
  BY <1>0, ExecutionAssumption
<1>8. CancelStep
  BY <1>2, <1>7 DEF CancelStep, Heeds, TerminalJob
<1> QED BY <1>1, <1>3, <1>4, <1>6, <1>8 DEF JobsInv

\* What a step leaves as it is, of one job.
LEMMA SameTyped ==
  ASSUME JobsInv, NEW j \in ExJob
  PROVE  /\ job' = job => job' = [job EXCEPT ![j] = job[j]]
         /\ row' = row => row' = [row EXCEPT ![j] = row[j]]
         /\ work' = work => work' = [work EXCEPT ![j] = work[j]]
         /\ ran' = ran => ran' = [ran EXCEPT ![j] = ran[j]]
         /\ browser' = browser => /\ browser' \in [Profile -> Owners]
                                  /\ \A p \in Profile : browser'[p] \in {browser[p], Nobody}
         /\ held' = held => /\ held' \in [Profile -> Owners]
                            /\ \A p \in Profile : held'[p] \in {held[p], j, Nobody}
  BY DEF JobsInv, JobTypes

\* The coroutine has ended, or never began: what remains is the job.
LEMMA AtRest ==
  ASSUME NEW j \in ExJob, NEW jb \in JobRow, NEW rw \in [Profile -> RowStatus],
         NEW rn \in [Profile -> {0, 1}], NEW u, NEW br, NEW hd,
         jb.status = "none" => \A p \in Profile : rw[p] = "queued" /\ rn[p] = 0,
         u = "recovering" => jb.status \notin Active, Settled(jb, rw),
         \A p \in Profile : br[p] = j => p \in jb.profiles /\ jb.status \in {"cleanup_blocked"} \cup Active,
         \A p \in Profile : hd[p] # j
  PROVE  Sound(j, jb, rw, NoWork, rn, u, br, hd)
  BY NoWorkTyped, WordsDiffer
     DEF Sound, Phase, InBatch, Asked, TurnsTold, BatchTold, TurnsRun, Traced, LeasedTo, Working

LEMMA CallStartKeeps == ASSUME JobsInv, NEW j \in ExJob, CallStartJob(j) PROVE JobsInv' /\ CancelStep
<1> DEFINE w == [work[j] EXCEPT !.pc = "resolving"]
<1>1. /\ up # "down" /\ job[j].status = "none" /\ work[j].pc = "none"
      /\ work' = [work EXCEPT ![j] = w]
      /\ UNCHANGED <<job, row, held, visit, browser, ran, up, deaths>>
  BY DEF CallStartJob, ServiceUp
<1>2. /\ w \in WorkRow /\ w.pc = "resolving" /\ w.batch = work[j].batch /\ w.started = work[j].started
      /\ w.bound = work[j].bound /\ w.cleaned = work[j].cleaned /\ w.done = work[j].done
      /\ w.blocked = work[j].blocked /\ w.opening = work[j].opening /\ w.connecting = work[j].connecting
  BY JobRowsTyped DEF WorkRow, WorkPc
<1> HIDE DEF w
<1>3. Sound(j, job[j], row[j], w, ran[j], up, browser, held)
  BY <1>1, <1>2, JobRowsTyped, WordsDiffer
     DEF Sound, Phase, InBatch, Asked, TurnsTold, BatchTold, TurnsRun, Traced, LeasedTo, Working, Active
<1>4. Heeds(job[j], work[j], job[j], w)
  BY <1>1, <1>2 DEF Heeds
<1>5. Sound(j, job[j], row[j], w, ran[j], up, browser', held')
  BY <1>1, <1>3
<1>6. Moved(j, job[j], row[j], w, ran[j]) /\ Hands(j) /\ Alone(j, job[j])
  BY <1>1, SameTyped DEF Moved, Hands, Alone
<1> QED BY <1>2, <1>4, <1>5, <1>6, JobRowsTyped, JobMoves

\* Leases that a job takes or gives back are its own.
LEMMA LeasesTyped ==
  ASSUME JobsInv, NEW j \in ExJob, NEW ps \in SUBSET Profile
  PROVE  /\ Leased(ps, j) \in [Profile -> Owners] /\ Released(ps, j) \in [Profile -> Owners]
         /\ \A p \in Profile : /\ Leased(ps, j)[p] \in {held[p], j, Nobody}
                               /\ Released(ps, j)[p] \in {held[p], j, Nobody}
                               /\ Released(ps, j)[p] = j => held[p] = j /\ p \notin ps
                               /\ Leased(ps, j)[p] = j => held[p] = j \/ p \in ps
<1>1. /\ held \in [Profile -> Owners] /\ j \in Owners /\ Nobody \in Owners /\ j # Nobody
  BY ExecutionAssumption DEF JobsInv, JobTypes, Owners, Owner
<1>2. Leased(ps, j) \in [Profile -> Owners] /\ Released(ps, j) \in [Profile -> Owners]
  BY <1>1 DEF Leased, Released
<1>3. \A p \in Profile : Released(ps, j)[p] = IF p \in ps /\ held[p] = j THEN Nobody ELSE held[p]
  BY DEF Released
<1>4. \A p \in Profile : Leased(ps, j)[p] = held[p] \/ (p \in ps /\ Leased(ps, j)[p] = j)
  BY DEF Leased
<1> QED BY <1>1, <1>2, <1>3, <1>4

\* A start that is refused leaves nothing behind.
LEMMA RefusedKeeps ==
  ASSUME JobsInv, NEW j \in ExJob, work[j].pc = "resolving",
         UNCHANGED <<job, held, row, visit, browser, ran, up, deaths>>,
         work' = [work EXCEPT ![j] = NoWork]
  PROVE  JobsInv' /\ CancelStep
<1>1. job[j].status = "none" /\ (\A p \in Profile : browser[p] # j /\ held[p] # j)
      /\ \A p \in Profile : row[j][p] = "queued" /\ ran[j][p] = 0
  BY JobRowsTyped, WordsDiffer
     DEF Sound, Phase, TurnsTold, TurnsRun, Traced, LeasedTo, Working, TerminalJob, Active
<1>2. Sound(j, job[j], row[j], NoWork, ran[j], up, browser', held')
  <2>1. job[j].status \notin Active /\ Settled(job[j], row[j])
    BY <1>1, JobRowsTyped, WordsDiffer DEF Sound
  <2>2. \A p \in Profile : browser'[p] # j /\ held'[p] # j
    BY <1>1
  <2> QED BY <1>1, <2>1, <2>2, JobRowsTyped, AtRest
<1>3. Heeds(job[j], work[j], job[j], NoWork)
  BY <1>1, NoWorkTyped DEF Heeds
<1>4. Moved(j, job[j], row[j], NoWork, ran[j]) /\ Hands(j) /\ Alone(j, job[j])
  BY SameTyped DEF Moved, Hands, Alone
<1> QED BY <1>2, <1>3, <1>4, NoWorkTyped, JobRowsTyped, JobMoves

LEMMA StartFailsKeeps == ASSUME JobsInv, NEW j \in ExJob, StartFails(j) PROVE JobsInv' /\ CancelStep
  BY RefusedKeeps DEF StartFails

LEMMA StartJobKeeps ==
  ASSUME JobsInv, NEW j \in ExJob, NEW ps \in SUBSET Profile, NEW n \in BatchSizes,
         StartJob(j, ps, n)
  PROVE  JobsInv' /\ CancelStep
<1>1. /\ up = "up" /\ work[j].pc = "resolving" /\ UNCHANGED <<row, visit, browser, ran, up, deaths>>
  BY DEF StartJob
<1>2. job[j].status = "none" /\ (\A p \in Profile : browser[p] # j /\ held[p] # j)
      /\ \A p \in Profile : row[j][p] = "queued" /\ ran[j][p] = 0
  BY <1>1, JobRowsTyped, WordsDiffer
     DEF Sound, Phase, TurnsTold, TurnsRun, Traced, LeasedTo, Working, TerminalJob, Active
<1>3. CASE work' = [work EXCEPT ![j] = NoWork] /\ UNCHANGED job /\ UNCHANGED held
  BY <1>1, <1>3, RefusedKeeps
<1>4. CASE /\ work' = [work EXCEPT ![j].pc = "submitted"] /\ held' = Leased(ps, j)
           /\ job' = [job EXCEPT ![j] = [status |-> "queued", cancel |-> FALSE, profiles |-> ps, size |-> n]]
           /\ Recoverable = {}
  <2> DEFINE w == [work[j] EXCEPT !.pc = "submitted"]
             jb == [status |-> "queued", cancel |-> FALSE, profiles |-> ps, size |-> n]
  <2>1. /\ w \in WorkRow /\ w.pc = "submitted" /\ w.batch = work[j].batch /\ w.started = work[j].started
        /\ w.bound = work[j].bound /\ w.cleaned = work[j].cleaned /\ w.done = work[j].done
        /\ w.blocked = work[j].blocked /\ w.opening = work[j].opening /\ w.connecting = work[j].connecting
    BY JobRowsTyped DEF WorkRow, WorkPc
  <2>2. jb \in JobRow /\ jb.status = "queued" /\ jb.profiles = ps /\ ~ jb.cancel
    BY ExecutionAssumption DEF JobRow, Active
  <2>3. work' = [work EXCEPT ![j] = w] /\ job' = [job EXCEPT ![j] = jb]
    BY <1>4
  <2> HIDE DEF w, jb
  <2>4. Sound(j, jb, row[j], w, ran[j], up, browser', held')
    <3>1. Phase(jb, w, up)
      BY <1>1, <2>1, <2>2, WordsDiffer DEF Phase, Working
    <3>2. InBatch(jb, w) /\ Asked(w)
      BY <1>1, <2>1, <2>2, JobRowsTyped DEF Sound, InBatch, Asked, Working
    <3>3. TurnsTold(jb, row[j], w) /\ BatchTold(jb, row[j], w) /\ Settled(jb, row[j]) /\ TurnsRun(jb, ran[j], w)
      BY <1>2, <2>1, <2>2 DEF TurnsTold, BatchTold, Settled, TurnsRun, TerminalJob, Working
    <3>4. Traced(j, jb, w, browser')
      BY <1>1, <1>2 DEF Traced
    <3>5. LeasedTo(j, jb, w, held')
      BY <1>2, <1>4, <2>1, <2>2, LeasesTyped DEF LeasedTo
    <3> QED BY <3>1, <3>2, <3>3, <3>4, <3>5 DEF Sound
  <2>5. Heeds(job[j], work[j], jb, w)
    BY <2>1, <2>2 DEF Heeds
  <2>6. Moved(j, jb, row[j], w, ran[j])
    BY <1>1, <2>3, SameTyped DEF Moved
  <2>7. Hands(j) /\ Alone(j, jb)
    BY <1>1, <1>4, LeasesTyped, SameTyped DEF Hands, Alone
  <2> QED BY <2>1, <2>2, <2>4, <2>5, <2>6, <2>7, JobRowsTyped, JobMoves
<1>5. Conflict(ps, j) => Leased(ps, j) = held
  BY DEF Leased
<1> QED BY <1>3, <1>4, <1>5 DEF StartJob

LEMMA CancelKeeps == ASSUME JobsInv, NEW j \in ExJob, Cancel(j) PROVE JobsInv' /\ CancelStep
<1> DEFINE jb == [job[j] EXCEPT !.cancel = TRUE]
<1>1. /\ job[j].status \in Active /\ job' = [job EXCEPT ![j] = jb]
      /\ UNCHANGED <<row, work, held, visit, browser, ran, up, deaths>> /\ ~ job[j].cancel
  BY DEF Cancel, Recoverable, Active
<1>2. jb \in JobRow /\ jb.status = job[j].status /\ jb.profiles = job[j].profiles /\ jb.cancel
  BY JobRowsTyped DEF JobRow
<1> HIDE DEF jb
<1>3. Sound(j, jb, row[j], work[j], ran[j], up, browser, held)
  <2>1. Sound(j, job[j], row[j], work[j], ran[j], up, browser, held)
    BY JobRowsTyped
  <2>2. Phase(jb, work[j], up) /\ InBatch(jb, work[j])
    BY <1>2, <2>1 DEF Sound, Phase, InBatch
  <2>3. TurnsTold(jb, row[j], work[j]) /\ BatchTold(jb, row[j], work[j])
    BY <1>2, <2>1 DEF Sound, TurnsTold, BatchTold
  <2>4. Settled(jb, row[j]) /\ TurnsRun(jb, ran[j], work[j])
    BY <1>2, <2>1 DEF Sound, Settled, TurnsRun
  <2>5. Traced(j, jb, work[j], browser) /\ LeasedTo(j, jb, work[j], held)
    BY <1>2, <2>1 DEF Sound, Traced, LeasedTo
  <2> QED BY <2>1, <2>2, <2>3, <2>4, <2>5 DEF Sound
<1>4. Sound(j, jb, row[j], work[j], ran[j], up, browser', held')
  BY <1>1, <1>3
<1>5. Heeds(job[j], work[j], jb, work[j])
  BY <1>1 DEF Heeds
<1>6. Moved(j, jb, row[j], work[j], ran[j]) /\ Hands(j) /\ Alone(j, jb)
  BY <1>1, SameTyped DEF Moved, Hands, Alone
<1> QED BY <1>2, <1>4, <1>5, <1>6, JobRowsTyped, JobMoves

LEMMA ClaimKeeps == ASSUME JobsInv, NEW j \in ExJob, Claim(j) PROVE JobsInv' /\ CancelStep
<1> DEFINE jb == [job[j] EXCEPT !.status = "running"]
           w == [work[j] EXCEPT !.pc = "batches"]
<1>1. /\ work[j].pc = "submitted" /\ job[j].status = "queued" /\ job' = [job EXCEPT ![j] = jb]
      /\ work' = [work EXCEPT ![j] = w] /\ UNCHANGED <<row, held, visit, browser, ran, up, deaths>>
  BY DEF Claim
<1>2. /\ jb \in JobRow /\ jb.status = "running" /\ jb.profiles = job[j].profiles
  BY JobRowsTyped DEF JobRow, Active
<1>3. /\ w \in WorkRow /\ w.pc = "batches" /\ w.batch = work[j].batch /\ w.started = work[j].started
      /\ w.bound = work[j].bound /\ w.cleaned = work[j].cleaned /\ w.done = work[j].done
      /\ w.blocked = work[j].blocked /\ w.opening = work[j].opening /\ w.connecting = work[j].connecting
  BY JobRowsTyped DEF WorkRow, WorkPc, Working
<1> HIDE DEF jb, w
<1>4. Sound(j, jb, row[j], w, ran[j], up, browser', held')
  <2>1. Sound(j, job[j], row[j], work[j], ran[j], up, browser, held)
    BY JobRowsTyped
  <2>2. work[j].batch = {} /\ work[j].done = {} /\ ~ work[j].blocked /\ work[j].started = {}
        /\ work[j].bound = {} /\ work[j].cleaned = {} /\ up # "down"
    BY <1>1, <2>1 DEF Sound, InBatch, Phase
  <2>3. \A p \in Profile : row[j][p] = "queued" /\ ran[j][p] = 0 /\ browser[p] # j
    BY <1>1, <2>1, <2>2, WordsDiffer DEF Sound, TurnsTold, TurnsRun, Traced
  <2>4. Phase(jb, w, up) /\ InBatch(jb, w) /\ Asked(w)
    BY <1>1, <1>2, <1>3, <2>1, <2>2 DEF Sound, Phase, InBatch, Asked, Active
  <2>5. TurnsTold(jb, row[j], w) /\ BatchTold(jb, row[j], w) /\ Settled(jb, row[j])
    BY <1>2, <1>3, <2>2, <2>3, JobRowsTyped DEF TurnsTold, BatchTold, Settled, TerminalJob, JobRow
  <2>6. TurnsRun(jb, ran[j], w) /\ Traced(j, jb, w, browser')
    BY <1>1, <1>2, <1>3, <2>3 DEF TurnsRun, Traced
  <2>7. LeasedTo(j, jb, w, held')
    BY <1>1, <1>2, <1>3, <2>1 DEF Sound, LeasedTo, Working
  <2> QED BY <2>4, <2>5, <2>6, <2>7 DEF Sound
<1>5. Heeds(job[j], work[j], jb, w)
  BY <1>2, <1>3 DEF Heeds
<1>6. Moved(j, jb, row[j], w, ran[j]) /\ Hands(j) /\ Alone(j, jb)
  BY <1>1, SameTyped DEF Moved, Hands, Alone, Active
<1> QED BY <1>2, <1>3, <1>4, <1>5, <1>6, JobRowsTyped, JobMoves

\* However a job ends, it gives its profiles back.
LEMMA EndKeeps ==
  ASSUME JobsInv, NEW j \in ExJob, NEW status \in TerminalJob, work[j].pc \in Working,
         JobEnds(j, status), NEW rw \in [Profile -> RowStatus], row' = [row EXCEPT ![j] = rw],
         \A p \in job[j].profiles : /\ rw[p] # "working"
                                    /\ status = "completed" => rw[p] \in Final
                                    /\ status = "cancelled" => rw[p] # "cleanup_failed",
         status = "cleanup_blocked" \/ \A p \in Profile : browser[p] # j,
         job[j].cancel => status # "completed",
         UNCHANGED <<visit, browser, ran, up, deaths>>
  PROVE  JobsInv' /\ CancelStep
<1> DEFINE jb == [job[j] EXCEPT !.status = status]
<1>1. /\ job' = [job EXCEPT ![j] = jb] /\ work' = [work EXCEPT ![j] = NoWork]
      /\ held' = Released(job[j].profiles, j)
  BY DEF JobEnds
<1>2. /\ jb \in JobRow /\ jb.status = status /\ jb.profiles = job[j].profiles
  BY JobRowsTyped DEF JobRow
<1> HIDE DEF jb
<1>3. job[j].profiles \in SUBSET Profile
  BY JobRowsTyped DEF JobRow
<1>4. Sound(j, jb, rw, NoWork, ran[j], up, browser', held')
  <2>1. Sound(j, job[j], row[j], work[j], ran[j], up, browser, held)
    BY JobRowsTyped
  <2>2. \A p \in Profile : held'[p] # j
    BY <1>1, <1>3, <2>1, LeasesTyped DEF Sound, LeasedTo
  <2>3. \A p \in Profile : browser'[p] = j => p \in jb.profiles /\ jb.status = "cleanup_blocked"
    BY <1>2, <2>1 DEF Sound, Traced
  <2>4. Settled(jb, rw)
    BY <1>2 DEF Settled
  <2>5. jb.status \notin Active /\ jb.status # "none"
    BY <1>2, WordsDiffer
  <2> QED BY <1>2, <2>2, <2>3, <2>4, <2>5, JobRowsTyped, AtRest
<1>5. Heeds(job[j], work[j], jb, NoWork)
  BY <1>2, NoWorkTyped DEF Heeds
<1>6. Moved(j, jb, rw, NoWork, ran[j])
  BY <1>1, SameTyped DEF Moved
<1>7. Hands(j) /\ Alone(j, jb)
  <2>1. jb.status \notin Active
    BY <1>2, WordsDiffer
  <2>2. /\ held' \in [Profile -> Owners] /\ \A p \in Profile : held'[p] \in {held[p], j, Nobody}
    BY <1>1, <1>3, LeasesTyped
  <2>3. /\ browser' \in [Profile -> Owners]
        /\ \A p \in Profile : browser'[p] \in {browser[p], Nobody}
    BY SameTyped
  <2> QED BY <2>1, <2>2, <2>3 DEF Hands, Alone
<1> QED BY <1>2, <1>4, <1>5, <1>6, <1>7, NoWorkTyped, JobRowsTyped, JobMoves

LEMMA NextBatchKeeps == ASSUME JobsInv, NEW j \in ExJob, NextBatch(j) PROVE JobsInv' /\ CancelStep
<1>1. work[j].pc = "batches" /\ UNCHANGED <<row, visit, browser, ran, up, deaths>>
  BY DEF NextBatch
<1>2. Sound(j, job[j], row[j], work[j], ran[j], up, browser, held)
  BY JobRowsTyped
<1>3. /\ job[j].status = "running" /\ work[j].cleaned = work[j].started /\ ~ work[j].blocked
      /\ work[j].batch \subseteq work[j].done /\ work[j].done \subseteq job[j].profiles
      /\ up \notin {"down", "recovering"}
      /\ job[j].profiles \subseteq Profile /\ work[j].pc \in Working
  BY <1>1, <1>2, JobRowsTyped DEF Sound, Phase, InBatch, Working, JobRow, Active
<1>4. \A p \in Profile : browser[p] # j
  BY <1>1, <1>2, <1>3 DEF Sound, Traced, Active
<1>5. \A p \in job[j].profiles : /\ p \in work[j].done => row[j][p] \in Final
                                 /\ p \notin work[j].done => row[j][p] = "queued"
  BY <1>1, <1>2, <1>3 DEF Sound, TurnsTold
<1>6. CASE JobEnds(j, EndOfBatches(j)) /\ (job[j].cancel \/ Remaining(j) = {})
  <2> DEFINE status == EndOfBatches(j)
  <2>1. /\ status \in TerminalJob /\ status \in {"completed", "cancelled"}
        /\ status = "completed" => ~ job[j].cancel /\ Remaining(j) = {}
    BY <1>6 DEF EndOfBatches, TerminalJob
  <2> HIDE DEF status
  <2>2. \A p \in job[j].profiles : /\ row[j][p] # "working"
                                   /\ status = "completed" => row[j][p] \in Final
                                   /\ status = "cancelled" => row[j][p] # "cleanup_failed"
    BY <1>5, <2>1, WordsDiffer DEF Remaining
  <2>3. row' = [row EXCEPT ![j] = row[j]]
    BY <1>1, SameTyped
  <2>4. JobEnds(j, status)
    BY <1>6 DEF status
  <2>5. row[j] \in [Profile -> RowStatus] /\ (job[j].cancel => status # "completed")
    BY <2>1, JobRowsTyped
  <2> QED BY <1>1, <1>3, <1>4, <2>1, <2>2, <2>3, <2>4, <2>5, EndKeeps
<1>7. ASSUME NEW b \in SUBSET Remaining(j), ~ job[j].cancel, UNCHANGED <<job, held>>,
             work' = [work EXCEPT ![j] =
               [NoWork EXCEPT !.pc = "start", !.done = NoWork.done \cup work[j].done, !.batch = b]]
      PROVE  JobsInv' /\ CancelStep
  <2> DEFINE w == [NoWork EXCEPT !.pc = "start", !.done = NoWork.done \cup work[j].done, !.batch = b]
  <2>1. b \subseteq job[j].profiles /\ \A p \in b : p \notin work[j].done
    BY DEF Remaining
  <2>2. /\ w \in WorkRow /\ w.pc = "start" /\ w.batch = b /\ w.started = {} /\ w.bound = {}
        /\ w.cleaned = {} /\ w.done = work[j].done /\ w.blocked = FALSE
        /\ w.record = [p \in Profile |-> "none"] /\ w.opening = {} /\ w.connecting = {}
    BY <1>3, <2>1, NoWorkTyped DEF WorkRow, WorkPc, Working, NoWork
  <2>3. work' = [work EXCEPT ![j] = w]
    BY <1>7
  <2> HIDE DEF w
  <2>4. Phase(job[j], w, up) /\ InBatch(job[j], w) /\ Asked(w)
    BY <1>3, <2>1, <2>2 DEF Phase, InBatch, Asked, Active
  <2>5. TurnsTold(job[j], row[j], w) /\ Settled(job[j], row[j])
    BY <1>1, <1>2, <1>3, <1>5, <2>1, <2>2 DEF TurnsTold, Sound
  <2>6. BatchTold(job[j], row[j], w)
    BY <1>3, <1>5, <2>1, <2>2 DEF BatchTold, InHand
  <2>7. TurnsRun(job[j], ran[j], w)
    BY <1>1, <1>2, <1>3, <2>1, <2>2 DEF TurnsRun, Sound
  <2>8. Traced(j, job[j], w, browser') /\ LeasedTo(j, job[j], w, held')
    BY <1>1, <1>2, <1>4, <1>7, <2>2 DEF Traced, LeasedTo, Sound, Working
  <2>9. Sound(j, job[j], row[j], w, ran[j], up, browser', held')
    BY <2>4, <2>5, <2>6, <2>7, <2>8 DEF Sound
  <2>10. Heeds(job[j], work[j], job[j], w)
    BY <1>7 DEF Heeds
  <2>11. Moved(j, job[j], row[j], w, ran[j]) /\ Hands(j) /\ Alone(j, job[j])
    BY <1>1, <1>7, <2>3, SameTyped DEF Moved, Hands, Alone
  <2> QED BY <2>2, <2>9, <2>10, <2>11, JobRowsTyped, JobMoves
<1> QED BY <1>6, <1>7 DEF NextBatch

\* A batch whose browsers are being started goes on with one of its profiles.
Turns(j, p, rw, w) ==
  /\ w \in WorkRow /\ rw \in [Profile -> RowStatus]
  /\ work' = [work EXCEPT ![j] = w] /\ row' = [row EXCEPT ![j] = rw]
  /\ w.pc = "start" /\ w.batch = work[j].batch /\ w.cleaned = work[j].cleaned
  /\ w.done = work[j].done /\ w.blocked = work[j].blocked
  /\ p \in work[j].batch /\ w.started = work[j].started \cup {p}
  /\ w.bound \subseteq w.started /\ Asked(w)
  /\ \A q \in Profile \ {p} : /\ rw[q] = row[j][q] /\ w.record[q] = work[j].record[q]
                              /\ q \in w.bound <=> q \in work[j].bound
                              /\ q \notin w.opening \cup w.connecting
  /\ IF p \in InHand(w) THEN w.record[p] = "none" ELSE rw[p] = "failed" /\ w.record[p] = "failed"

LEMMA TurnsKeep ==
  ASSUME JobsInv, NEW j \in ExJob, work[j].pc = "start", NEW p, NEW rw, NEW w, Turns(j, p, rw, w),
         UNCHANGED <<job, held, visit, ran, up, deaths>>, Hands(j),
         Heeds(job[j], work[j], job[j], w),
         \A q \in work[j].opening \cup work[j].connecting : q = p
  PROVE  JobsInv' /\ CancelStep
<1>1. Sound(j, job[j], row[j], work[j], ran[j], up, browser, held) /\ work[j] \in WorkRow /\ job[j] \in JobRow
      /\ ran[j] \in [Profile -> {0, 1}]
  BY JobRowsTyped
<1>2. /\ w \in WorkRow /\ rw \in [Profile -> RowStatus]
      /\ work' = [work EXCEPT ![j] = w] /\ row' = [row EXCEPT ![j] = rw]
      /\ w.pc = "start" /\ w.batch = work[j].batch /\ w.cleaned = work[j].cleaned
      /\ w.done = work[j].done /\ w.blocked = work[j].blocked
      /\ p \in work[j].batch /\ w.started = work[j].started \cup {p}
      /\ w.bound \subseteq w.started /\ Asked(w)
  BY DEF Turns
<1>3. Phase(job[j], w, up) /\ InBatch(job[j], w)
  BY <1>1, <1>2 DEF Sound, Phase, InBatch
<1>4. job[j].status = "running" /\ w.batch \subseteq job[j].profiles /\ w.batch \subseteq Profile
      /\ (\A q \in w.batch : q \notin w.done) /\ w.cleaned = {} /\ job[j].profiles \subseteq Profile
      /\ ~ w.blocked /\ p \in Profile
  BY <1>1, <1>2 DEF Sound, Phase, InBatch, Working, JobRow, WorkRow
<1>5. TurnsTold(job[j], rw, w)
  <2>1. \A q \in job[j].profiles : /\ q \in w.done => row[j][q] \in Final
                                   /\ q \notin w.done \cup w.batch => row[j][q] = "queued"
    BY <1>1, <1>2 DEF Sound, TurnsTold
  <2>2. \A q \in Profile \ {p} : rw[q] = row[j][q]
    BY DEF Turns
  <2> QED BY <1>2, <1>4, <2>1, <2>2 DEF TurnsTold
<1>6. Settled(job[j], rw)
  BY <1>4 DEF Settled, TerminalJob
<1>7. BatchTold(job[j], rw, w)
  <2>1. ASSUME NEW q \in w.batch
        PROVE  /\ q \notin w.started => rw[q] = "queued" /\ w.record[q] = "none"
               /\ q \in InHand(w) => w.record[q] = "none"
               /\ q \in w.started \ InHand(w) => rw[q] = "failed" /\ w.record[q] = "failed"
    <3>1. CASE q = p
      BY <1>2, <3>1 DEF Turns
    <3>2. CASE q # p
      <4>1. /\ q \notin work[j].started => row[j][q] = "queued" /\ work[j].record[q] = "none"
            /\ q \in InHand(work[j]) => work[j].record[q] = "none"
            /\ q \in work[j].started \ InHand(work[j]) => row[j][q] = "failed" /\ work[j].record[q] = "failed"
        BY <1>1, <1>2 DEF Sound, BatchTold
      <4>2. /\ rw[q] = row[j][q] /\ w.record[q] = work[j].record[q]
            /\ q \in InHand(w) <=> q \in InHand(work[j])
        BY <1>4, <3>2 DEF Turns, InHand
      <4> QED BY <1>2, <3>2, <4>1, <4>2
    <3> QED BY <3>1, <3>2
  <2> QED BY <1>2, <2>1 DEF BatchTold
<1>8. TurnsRun(job[j], ran[j], w) /\ LeasedTo(j, job[j], w, held')
  BY <1>1, <1>2 DEF Sound, TurnsRun, LeasedTo
<1>9. Traced(j, job[j], w, browser')
  <2> SUFFICES ASSUME NEW q \in Profile, browser'[q] = j
               PROVE  q \in job[j].profiles /\ w.pc \in Working /\ q \in w.started \ w.cleaned
    BY DEF Traced
  <2>1. browser[q] = j \/ q \in work[j].opening
    BY ExecutionAssumption DEF Hands
  <2>2. browser[q] = j => q \in job[j].profiles /\ (q \in work[j].started \/ work[j].blocked)
    BY <1>1, <1>4 DEF Sound, Traced, Phase, Active
  <2>3. q \in work[j].opening => q \in work[j].started /\ q \in work[j].batch
    BY <1>1 DEF Sound, Asked, InBatch
  <2> QED BY <1>2, <1>4, <2>1, <2>2, <2>3 DEF Working
<1>10. Sound(j, job[j], rw, w, ran[j], up, browser', held')
  BY <1>2, <1>3, <1>5, <1>6, <1>7, <1>8, <1>9 DEF Sound
<1>11. Moved(j, job[j], rw, w, ran[j]) /\ Alone(j, job[j])
  BY <1>2, SameTyped DEF Moved, Alone
<1> QED BY <1>1, <1>2, <1>10, <1>11, JobMoves

LEMMA StartProfileKeeps ==
  ASSUME JobsInv, NEW j \in ExJob, StartProfile(j) PROVE JobsInv' /\ CancelStep
<1>1. /\ work[j].pc = "start" /\ ~ job[j].cancel /\ UNCHANGED <<job, held, visit, browser, ran, up, deaths>>
      /\ work[j].opening = {} /\ work[j].connecting = {}
  BY DEF StartProfile, Waits
<1>2. PICK p \in work[j].batch \ work[j].started :
        /\ row' = [row EXCEPT ![j][p] = "working"]
        /\ work' = [work EXCEPT ![j].started = work[j].started \cup {p}, ![j].opening = {p}]
  BY DEF StartProfile, Tracked
<1> DEFINE rw == [row[j] EXCEPT ![p] = "working"]
           w == [work[j] EXCEPT !.started = work[j].started \cup {p}, !.opening = {p}]
<1>3. Sound(j, job[j], row[j], work[j], ran[j], up, browser, held) /\ work[j] \in WorkRow
      /\ row[j] \in [Profile -> RowStatus]
  BY JobRowsTyped
<1>4. p \in Profile /\ work[j].bound \subseteq work[j].started /\ p \notin work[j].bound
      /\ work[j].record[p] = "none" /\ work[j].started \subseteq Profile
  BY <1>1, <1>2, <1>3 DEF Sound, InBatch, BatchTold, WorkRow
<1>5. /\ w \in WorkRow /\ w.pc = "start" /\ w.batch = work[j].batch /\ w.started = work[j].started \cup {p}
      /\ w.bound = work[j].bound /\ w.cleaned = work[j].cleaned /\ w.done = work[j].done
      /\ w.blocked = work[j].blocked /\ w.record = work[j].record /\ w.opening = {p} /\ w.connecting = {}
  BY <1>1, <1>3, <1>4 DEF WorkRow
<1>6. rw \in [Profile -> RowStatus] /\ \A q \in Profile \ {p} : rw[q] = row[j][q]
  BY <1>3, <1>4 DEF RowStatus
<1>7. work' = [work EXCEPT ![j] = w] /\ row' = [row EXCEPT ![j] = rw]
  BY <1>2
<1> HIDE DEF w, rw
<1>8. Turns(j, p, rw, w)
  BY <1>1, <1>2, <1>4, <1>5, <1>6, <1>7 DEF Turns, Asked, InHand
<1>9. Hands(j) /\ Heeds(job[j], work[j], job[j], w)
  BY <1>1, SameTyped DEF Hands, Heeds
<1> QED BY <1>1, <1>8, <1>9, TurnsKeep

LEMMA StartAnsweredKeeps ==
  ASSUME JobsInv, NEW j \in ExJob, StartAnswered(j) PROVE JobsInv' /\ CancelStep
<1>1. UNCHANGED <<job, held, visit, ran, up, deaths>>
  BY DEF StartAnswered
<1>2. PICK p \in work[j].opening :
        \/ /\ browser' = [browser EXCEPT ![p] = j] /\ UNCHANGED row
           /\ work' = [work EXCEPT ![j].started = work[j].started, ![j].opening = {}, ![j].connecting = {p}]
        \/ /\ browser' \in {[browser EXCEPT ![p] = j], browser} /\ row' = [row EXCEPT ![j][p] = "failed"]
           /\ work' = [work EXCEPT ![j].opening = {}, ![j].record[p] = "failed"]
  BY DEF StartAnswered, Tracked, Opens
<1>3. Sound(j, job[j], row[j], work[j], ran[j], up, browser, held) /\ work[j] \in WorkRow
      /\ row[j] \in [Profile -> RowStatus]
  BY JobRowsTyped
<1>4. /\ work[j].pc = "start" /\ p \in work[j].started /\ p \notin work[j].bound
      /\ work[j].connecting = {} /\ work[j].opening = {p} /\ p \in InHand(work[j])
  BY <1>3 DEF Sound, Asked, InHand
<1>5. p \in work[j].batch /\ p \in Profile /\ work[j].bound \subseteq work[j].started
      /\ work[j].record[p] = "none"
  BY <1>3, <1>4 DEF Sound, InBatch, WorkRow, BatchTold
<1>6. Hands(j)
  <2>1. browser \in [Profile -> Owners] /\ j \in Owners
    BY DEF JobsInv, JobTypes, Owners, Owner
  <2>2. browser' \in {[browser EXCEPT ![p] = j], browser}
    BY <1>2
  <2> QED BY <1>1, <1>2, <1>5, <2>1, <2>2, SameTyped DEF Hands
<1>7. CASE UNCHANGED row /\
           work' = [work EXCEPT ![j].started = work[j].started, ![j].opening = {}, ![j].connecting = {p}]
  <2> DEFINE w == [work[j] EXCEPT !.started = work[j].started, !.opening = {}, !.connecting = {p}]
  <2>1. /\ w \in WorkRow /\ w.pc = "start" /\ w.batch = work[j].batch /\ w.started = work[j].started
        /\ w.bound = work[j].bound /\ w.cleaned = work[j].cleaned /\ w.done = work[j].done
        /\ w.blocked = work[j].blocked /\ w.record = work[j].record /\ w.opening = {} /\ w.connecting = {p}
    BY <1>3, <1>4, <1>5 DEF WorkRow
  <2>2. work' = [work EXCEPT ![j] = w] /\ row' = [row EXCEPT ![j] = row[j]]
    BY <1>7, SameTyped
  <2> HIDE DEF w
  <2>3. Turns(j, p, row[j], w)
    BY <1>3, <1>4, <1>5, <2>1, <2>2 DEF Turns, Asked, InHand
  <2>4. Heeds(job[j], work[j], job[j], w)
    BY <1>3, <1>4, <2>1 DEF Heeds, Sound, Phase, Working
  <2> QED BY <1>1, <1>4, <1>6, <2>3, <2>4, TurnsKeep
<1>8. CASE row' = [row EXCEPT ![j][p] = "failed"] /\
           work' = [work EXCEPT ![j].opening = {}, ![j].record[p] = "failed"]
  <2> DEFINE rw == [row[j] EXCEPT ![p] = "failed"]
             record == [work[j].record EXCEPT ![p] = "failed"]
             w == [work[j] EXCEPT !.opening = {}, !.record = record]
  <2>1. record \in [Profile -> {"none"} \cup Final] /\ record[p] = "failed"
        /\ \A q \in Profile \ {p} : record[q] = work[j].record[q]
    BY <1>3, <1>5 DEF WorkRow, Final
  <2>2. rw \in [Profile -> RowStatus] /\ rw[p] = "failed" /\ \A q \in Profile \ {p} : rw[q] = row[j][q]
    BY <1>3, <1>5 DEF RowStatus, Final
  <2>3. work' = [work EXCEPT ![j] = w] /\ row' = [row EXCEPT ![j] = rw]
    BY <1>8
  <2> HIDE DEF record, rw
  <2>4. /\ w \in WorkRow /\ w.pc = "start" /\ w.batch = work[j].batch /\ w.started = work[j].started
        /\ w.bound = work[j].bound /\ w.cleaned = work[j].cleaned /\ w.done = work[j].done
        /\ w.blocked = work[j].blocked /\ w.record = record /\ w.opening = {} /\ w.connecting = {}
    BY <1>3, <1>4, <2>1 DEF WorkRow
  <2> HIDE DEF w
  <2>5. Turns(j, p, rw, w)
    BY <1>3, <1>4, <1>5, <2>1, <2>2, <2>3, <2>4 DEF Turns, Asked, InHand
  <2>6. Heeds(job[j], work[j], job[j], w)
    BY <1>3, <1>4, <2>4 DEF Heeds, Sound, Phase, Working
  <2> QED BY <1>1, <1>4, <1>6, <2>5, <2>6, TurnsKeep
<1> QED BY <1>2, <1>7, <1>8

LEMMA ConnectKeeps == ASSUME JobsInv, NEW j \in ExJob, Connect(j) PROVE JobsInv' /\ CancelStep
<1>1. UNCHANGED <<job, held, visit, browser, ran, up, deaths>>
  BY DEF Connect
<1>2. PICK p \in work[j].connecting :
        \/ /\ work' = [work EXCEPT ![j].connecting = {}, ![j].bound = @ \cup {p}] /\ UNCHANGED row
        \/ /\ work' = [work EXCEPT ![j].connecting = {}, ![j].record[p] = "failed"]
           /\ row' = [row EXCEPT ![j][p] = "failed"]
  BY DEF Connect
<1>3. Sound(j, job[j], row[j], work[j], ran[j], up, browser, held) /\ work[j] \in WorkRow
      /\ row[j] \in [Profile -> RowStatus]
  BY JobRowsTyped
<1>4. /\ work[j].pc = "start" /\ p \in work[j].started /\ p \notin work[j].bound
      /\ work[j].opening = {} /\ work[j].connecting = {p} /\ p \in InHand(work[j])
  BY <1>3 DEF Sound, Asked, InHand
<1>5. p \in work[j].batch /\ p \in Profile /\ work[j].bound \subseteq work[j].started
      /\ work[j].record[p] = "none"
  BY <1>3, <1>4 DEF Sound, InBatch, WorkRow, BatchTold
<1>6. Hands(j)
  BY <1>1, SameTyped DEF Hands
<1>7. CASE UNCHANGED row /\ work' = [work EXCEPT ![j].connecting = {}, ![j].bound = @ \cup {p}]
  <2> DEFINE bound == work[j].bound \cup {p}
             w == [work[j] EXCEPT !.connecting = {}, !.bound = bound]
  <2>1. bound \subseteq Profile /\ bound \subseteq work[j].started /\ p \in bound
        /\ \A q \in Profile \ {p} : q \in bound <=> q \in work[j].bound
    BY <1>3, <1>4, <1>5 DEF WorkRow
  <2>2. work' = [work EXCEPT ![j] = w] /\ row' = [row EXCEPT ![j] = row[j]]
    BY <1>7, SameTyped
  <2> HIDE DEF bound
  <2>3. /\ w \in WorkRow /\ w.pc = "start" /\ w.batch = work[j].batch /\ w.started = work[j].started
        /\ w.bound = bound /\ w.cleaned = work[j].cleaned /\ w.done = work[j].done
        /\ w.blocked = work[j].blocked /\ w.record = work[j].record /\ w.opening = {} /\ w.connecting = {}
    BY <1>3, <1>4, <2>1 DEF WorkRow
  <2> HIDE DEF w
  <2>4. Turns(j, p, row[j], w)
    BY <1>3, <1>4, <1>5, <2>1, <2>2, <2>3 DEF Turns, Asked, InHand
  <2>5. Heeds(job[j], work[j], job[j], w)
    BY <1>3, <1>4, <2>3 DEF Heeds, Sound, Phase, Working
  <2> QED BY <1>1, <1>4, <1>6, <2>4, <2>5, TurnsKeep
<1>8. CASE row' = [row EXCEPT ![j][p] = "failed"] /\
           work' = [work EXCEPT ![j].connecting = {}, ![j].record[p] = "failed"]
  <2> DEFINE rw == [row[j] EXCEPT ![p] = "failed"]
             record == [work[j].record EXCEPT ![p] = "failed"]
             w == [work[j] EXCEPT !.connecting = {}, !.record = record]
  <2>1. record \in [Profile -> {"none"} \cup Final] /\ record[p] = "failed"
        /\ \A q \in Profile \ {p} : record[q] = work[j].record[q]
    BY <1>3, <1>5 DEF WorkRow, Final
  <2>2. rw \in [Profile -> RowStatus] /\ rw[p] = "failed" /\ \A q \in Profile \ {p} : rw[q] = row[j][q]
    BY <1>3, <1>5 DEF RowStatus, Final
  <2>3. work' = [work EXCEPT ![j] = w] /\ row' = [row EXCEPT ![j] = rw]
    BY <1>8
  <2> HIDE DEF record, rw
  <2>4. /\ w \in WorkRow /\ w.pc = "start" /\ w.batch = work[j].batch /\ w.started = work[j].started
        /\ w.bound = work[j].bound /\ w.cleaned = work[j].cleaned /\ w.done = work[j].done
        /\ w.blocked = work[j].blocked /\ w.record = record /\ w.opening = {} /\ w.connecting = {}
    BY <1>3, <1>4, <2>1 DEF WorkRow
  <2> HIDE DEF w
  <2>5. Turns(j, p, rw, w)
    BY <1>3, <1>4, <1>5, <2>1, <2>2, <2>3, <2>4 DEF Turns, Asked, InHand
  <2>6. Heeds(job[j], work[j], job[j], w)
    BY <1>3, <1>4, <2>4 DEF Heeds, Sound, Phase, Working
  <2> QED BY <1>1, <1>4, <1>6, <2>5, <2>6, TurnsKeep
<1> QED BY <1>2, <1>7, <1>8

\* A batch goes on with pc, its profiles having these records, rows and runs.
GoesOn(j, pc, record, rw, rn) ==
  /\ work' = [work EXCEPT ![j] = [work[j] EXCEPT !.pc = pc, !.record = record, !.connecting = {}]]
  /\ work[j].opening = {}
  /\ row' = [row EXCEPT ![j] = rw] /\ ran' = [ran EXCEPT ![j] = rn]
  /\ pc = "execute" => /\ record = work[j].record /\ rw = row[j] /\ work[j].pc = "start"
                       /\ work[j].connecting = {}
                       /\ job[j].cancel \/ work[j].started = work[j].batch
  /\ \A p \in Profile : p \notin work[j].batch => rw[p] = row[j][p] /\ rn[p] = ran[j][p]
  /\ pc = "clean" => \A p \in work[j].batch :
       /\ rw[p] \in Final \/ (rw[p] = "queued" /\ job[j].cancel)
       /\ p \in work[j].started => record[p] \in Final

LEMMA ExecutesKeep ==
  ASSUME JobsInv, NEW j \in ExJob, TileAndExecute(j) \/ Executed(j) \/ BatchRaises(j)
  PROVE  JobsInv' /\ CancelStep
<1> DEFINE s0 == work[j]
<1>1. Sound(j, job[j], row[j], s0, ran[j], up, browser, held) /\ s0 \in WorkRow /\ job[j] \in JobRow
      /\ row[j] \in [Profile -> RowStatus] /\ ran[j] \in [Profile -> {0, 1}]
  BY JobRowsTyped
<1>2. s0.pc \in {"start", "execute"} /\ UNCHANGED <<job, held, visit, browser, up, deaths>>
  BY DEF TileAndExecute, Executed, BatchRaises
<1>3. PICK pc \in {"execute", "clean", "raised"}, record \in [Profile -> {"none"} \cup Final],
           rw \in [Profile -> RowStatus], rn \in [Profile -> {0, 1}] : GoesOn(j, pc, record, rw, rn)
  <2>1. CASE TileAndExecute(j)
    <3>1. s0.pc = "start" /\ (job[j].cancel \/ s0.started = s0.batch) /\ s0.opening = {} /\ s0.connecting = {}
      BY <2>1 DEF TileAndExecute, Waits
    <3>2. \A p \in s0.batch :
            /\ p \notin s0.started => row[j][p] = "queued" /\ s0.record[p] = "none"
            /\ p \in s0.started \ s0.bound => row[j][p] = "failed" /\ s0.record[p] = "failed"
      BY <1>1, <3>1 DEF Sound, BatchTold, InHand
    <3>3. s0.bound \subseteq s0.batch /\ s0.batch \subseteq Profile /\ s0.record \in [Profile -> {"none"} \cup Final]
      BY <1>1 DEF Sound, InBatch, WorkRow
    <3>4. CASE /\ work' = [work EXCEPT ![j].pc = "execute"] /\ UNCHANGED row
               /\ ran' = [ran EXCEPT ![j] = [p \in Profile |-> IF p \in s0.bound THEN @[p] + 1 ELSE @[p]]]
      <4> DEFINE rn == [p \in Profile |-> IF p \in s0.bound THEN ran[j][p] + 1 ELSE ran[j][p]]
      <4>1. \A p \in s0.bound : ran[j][p] = 0
        BY <1>1, <3>1, <3>3 DEF Sound, TurnsRun, InBatch
      <4>2. rn \in [Profile -> {0, 1}] /\ \A p \in Profile : p \notin s0.batch => rn[p] = ran[j][p]
        BY <1>1, <3>3, <4>1
      <4>3. ran' = [ran EXCEPT ![j] = rn]
        BY <3>4
      <4>4. work' = [work EXCEPT ![j] = [s0 EXCEPT !.pc = "execute", !.record = s0.record, !.connecting = {}]]
        BY <1>1, <3>1, <3>4 DEF WorkRow
      <4>5. row' = [row EXCEPT ![j] = row[j]]
        BY <3>4, SameTyped
      <4> HIDE DEF rn
      <4>6. GoesOn(j, "execute", s0.record, row[j], rn)
        BY <3>1, <4>2, <4>3, <4>4, <4>5 DEF GoesOn
      <4> QED BY <1>1, <3>3, <4>2, <4>6
    <3>5. CASE /\ work' = [work EXCEPT ![j].pc = "clean",
                    ![j].record = [p \in Profile |-> IF p \in s0.bound THEN "failed" ELSE @[p]]]
               /\ row' = [row EXCEPT ![j] = [p \in Profile |-> IF p \in s0.bound THEN "failed" ELSE @[p]]]
               /\ UNCHANGED ran
      <4> DEFINE rec == [p \in Profile |-> IF p \in s0.bound THEN "failed" ELSE s0.record[p]]
                 rw == [p \in Profile |-> IF p \in s0.bound THEN "failed" ELSE row[j][p]]
      <4>1. rec \in [Profile -> {"none"} \cup Final] /\ rw \in [Profile -> RowStatus]
        BY <1>1, <3>3 DEF Final, RowStatus
      <4>2. /\ \A p \in Profile : p \notin s0.batch => rw[p] = row[j][p]
            /\ \A p \in s0.batch : /\ rw[p] \in Final \/ (rw[p] = "queued" /\ job[j].cancel)
                                   /\ p \in s0.started => rec[p] \in Final
        BY <1>1, <3>1, <3>2, <3>3 DEF Final
      <4>3. /\ row' = [row EXCEPT ![j] = rw] /\ ran' = [ran EXCEPT ![j] = ran[j]]
        BY <3>5, SameTyped
      <4>30. work' = [work EXCEPT ![j] = [s0 EXCEPT !.pc = "clean", !.record = rec, !.connecting = {}]]
        <5>1. work' = [work EXCEPT ![j] = [s0 EXCEPT !.pc = "clean", !.record = rec]]
          BY <3>5
        <5> HIDE DEF rec
        <5> QED BY <1>1, <3>1, <5>1 DEF WorkRow
      <4> HIDE DEF rec, rw
      <4>4. GoesOn(j, "clean", rec, rw, ran[j])
        BY <3>1, <4>2, <4>3, <4>30 DEF GoesOn
      <4> QED BY <1>1, <4>1, <4>4
    <3> QED BY <2>1, <3>4, <3>5 DEF TileAndExecute
  <2>2. CASE Executed(j)
    <3>1. PICK good \in SUBSET s0.bound :
            LET outcome(p, old) == IF p \in good THEN "succeeded"
                                   ELSE IF p \in s0.bound THEN "failed" ELSE old IN
            /\ work' = [work EXCEPT ![j].pc = "clean", ![j].record = [p \in Profile |-> outcome(p, @[p])]]
            /\ row' = [row EXCEPT ![j] = [p \in Profile |-> outcome(p, @[p])]]
      BY <2>2 DEF Executed
    <3> DEFINE rec == [p \in Profile |-> IF p \in good THEN "succeeded"
                                         ELSE IF p \in s0.bound THEN "failed" ELSE s0.record[p]]
               rw == [p \in Profile |-> IF p \in good THEN "succeeded"
                                         ELSE IF p \in s0.bound THEN "failed" ELSE row[j][p]]
    <3>2. s0.pc = "execute" /\ UNCHANGED ran
      BY <2>2 DEF Executed
    <3>3. /\ \A p \in s0.batch :
               /\ p \notin s0.started => row[j][p] = "queued" /\ s0.record[p] = "none"
               /\ p \in s0.started \ s0.bound => row[j][p] = "failed" /\ s0.record[p] = "failed"
          /\ s0.started = s0.batch \/ job[j].cancel
          /\ s0.opening = {} /\ s0.connecting = {}
      BY <1>1, <3>2 DEF Sound, BatchTold, Asked, InHand
    <3>4. s0.bound \subseteq s0.batch /\ s0.batch \subseteq Profile /\ s0.record \in [Profile -> {"none"} \cup Final]
      BY <1>1 DEF Sound, InBatch, WorkRow
    <3>5. rec \in [Profile -> {"none"} \cup Final] /\ rw \in [Profile -> RowStatus]
      BY <1>1, <3>4 DEF Final, RowStatus
    <3>6. /\ \A p \in Profile : p \notin s0.batch => rw[p] = row[j][p]
          /\ \A p \in s0.batch : /\ rw[p] \in Final \/ (rw[p] = "queued" /\ job[j].cancel)
                                 /\ p \in s0.started => rec[p] \in Final
      BY <1>1, <3>3, <3>4 DEF Final
    <3>7. /\ work' = [work EXCEPT ![j] = [s0 EXCEPT !.pc = "clean", !.record = rec]]
          /\ row' = [row EXCEPT ![j] = rw] /\ ran' = [ran EXCEPT ![j] = ran[j]]
      BY <3>1, <3>2, SameTyped
    <3> HIDE DEF rec, rw
    <3>70. work' = [work EXCEPT ![j] = [s0 EXCEPT !.pc = "clean", !.record = rec, !.connecting = {}]]
      <4>1. s0.connecting = {} /\ work' = [work EXCEPT ![j] = [s0 EXCEPT !.pc = "clean", !.record = rec]]
        BY <3>3, <3>7
      <4> QED BY ONLY <1>1, <4>1 DEF WorkRow
    <3>8. GoesOn(j, "clean", rec, rw, ran[j])
      BY <3>3, <3>6, <3>7, <3>70 DEF GoesOn
    <3> QED BY <1>1, <3>5, <3>8
  <2>3. CASE BatchRaises(j)
    <3> DEFINE rec == [p \in Profile |-> IF p \in Unrecorded(j) THEN "failed" ELSE s0.record[p]]
               rw == [p \in Profile |-> IF p \in Unrecorded(j) THEN "failed" ELSE row[j][p]]
    <3>1. UNCHANGED ran /\ s0.opening = {}
      BY <2>3 DEF BatchRaises
    <3>2. \/ /\ work' = [work EXCEPT ![j] = [s0 EXCEPT !.pc = "clean", !.record = rec, !.connecting = {}]]
             /\ row' = [row EXCEPT ![j] = rw]
          \/ work' = [work EXCEPT ![j] = [s0 EXCEPT !.pc = "raised", !.connecting = {}]] /\ UNCHANGED row
      <4>1. CASE /\ work' = [work EXCEPT ![j].pc = "clean", ![j].connecting = {}, ![j].record =
                                [p \in Profile |-> IF p \in Unrecorded(j) THEN "failed" ELSE @[p]]]
                 /\ row' = [row EXCEPT ![j] = [p \in Profile |-> IF p \in Unrecorded(j) THEN "failed" ELSE @[p]]]
        <5>1. work' = [work EXCEPT ![j] = [s0 EXCEPT !.pc = "clean", !.connecting = {}, !.record = rec]]
          BY <4>1
        <5>2. row' = [row EXCEPT ![j] = rw]
          BY <4>1
        <5> HIDE DEF rec, rw
        <5> QED BY <1>1, <5>1, <5>2 DEF WorkRow
      <4>2. CASE work' = [work EXCEPT ![j].pc = "raised", ![j].connecting = {}] /\ UNCHANGED row
        BY <4>2
      <4> QED BY <2>3, <4>1, <4>2 DEF BatchRaises
    <3>3. \A p \in s0.batch :
            /\ p \notin s0.started => row[j][p] = "queued" /\ s0.record[p] = "none"
            /\ p \in InHand(s0) => s0.record[p] = "none"
            /\ p \in s0.started \ InHand(s0) => row[j][p] = "failed" /\ s0.record[p] = "failed"
      BY <1>1, <1>2 DEF Sound, BatchTold
    <3>4. s0.bound \subseteq s0.batch /\ s0.batch \subseteq Profile /\ s0.record \in [Profile -> {"none"} \cup Final]
          /\ Unrecorded(j) \subseteq s0.batch /\ \A p \in s0.batch : p \in Unrecorded(j) <=> s0.record[p] = "none"
      BY <1>1 DEF Sound, InBatch, WorkRow, Unrecorded
    <3>5. rec \in [Profile -> {"none"} \cup Final] /\ rw \in [Profile -> RowStatus]
      BY <1>1, <3>4 DEF Final, RowStatus
    <3>6. /\ \A p \in Profile : p \notin s0.batch => rw[p] = row[j][p]
          /\ \A p \in s0.batch : rw[p] \in Final /\ rec[p] \in Final
      BY <1>1, <3>3, <3>4 DEF Final
    <3>7. ran' = [ran EXCEPT ![j] = ran[j]] /\ (row' = row => row' = [row EXCEPT ![j] = row[j]])
      BY <3>1, SameTyped
    <3>8. work' = [work EXCEPT ![j] = [s0 EXCEPT !.pc = "raised", !.connecting = {}]]
          => work' = [work EXCEPT ![j] = [s0 EXCEPT !.pc = "raised", !.record = s0.record, !.connecting = {}]]
      BY <1>1 DEF WorkRow
    <3> HIDE DEF rec, rw
    <3>9. CASE /\ work' = [work EXCEPT ![j] = [s0 EXCEPT !.pc = "clean", !.record = rec, !.connecting = {}]]
               /\ row' = [row EXCEPT ![j] = rw]
      <4>1. GoesOn(j, "clean", rec, rw, ran[j])
        BY <3>1, <3>6, <3>7, <3>9 DEF GoesOn
      <4> QED BY <1>1, <3>5, <4>1
    <3>10. CASE work' = [work EXCEPT ![j] = [s0 EXCEPT !.pc = "raised", !.connecting = {}]] /\ UNCHANGED row
      <4>1. GoesOn(j, "raised", s0.record, row[j], ran[j])
        BY <3>1, <3>7, <3>8, <3>10 DEF GoesOn
      <4> QED BY <1>1, <3>4, <4>1
    <3> QED BY <3>2, <3>9, <3>10
  <2> QED BY <2>1, <2>2, <2>3
<1> DEFINE w == [s0 EXCEPT !.pc = pc, !.record = record, !.connecting = {}]
<1>4. /\ w \in WorkRow /\ w.pc = pc /\ w.batch = s0.batch /\ w.started = s0.started /\ w.bound = s0.bound
      /\ w.cleaned = s0.cleaned /\ w.done = s0.done /\ w.blocked = s0.blocked /\ w.record = record
      /\ w.opening = {} /\ w.connecting = {}
  BY <1>1, <1>3 DEF WorkRow, WorkPc, Working, GoesOn
<1>5. work' = [work EXCEPT ![j] = w]
  BY <1>3 DEF GoesOn
<1> HIDE DEF w
<1>6. /\ job[j].status = "running" /\ up \notin {"down", "recovering"} /\ s0.batch \subseteq job[j].profiles
      /\ s0.done \subseteq job[j].profiles /\ (\A p \in s0.batch : p \notin s0.done) /\ s0.cleaned = {}
      /\ ~ s0.blocked /\ job[j].profiles \subseteq Profile
  BY <1>1, <1>2 DEF Sound, Phase, InBatch, Working, JobRow, Active
<1>7. Phase(job[j], w, up) /\ InBatch(job[j], w) /\ Asked(w)
  BY <1>1, <1>4, <1>6 DEF Sound, Phase, InBatch, Asked
<1>8. TurnsTold(job[j], rw, w)
  <2>1. \A p \in job[j].profiles : /\ p \in s0.done => row[j][p] \in Final
                                   /\ p \notin s0.done \cup s0.batch => row[j][p] = "queued"
    BY <1>1, <1>2 DEF Sound, TurnsTold
  <2> QED BY <1>3, <1>4, <1>6, <2>1 DEF TurnsTold, GoesOn
<1>9. BatchTold(job[j], rw, w)
  <2>1. CASE pc = "execute"
    <3>1. InHand(s0) = InHand(w) /\ s0.pc = "start" /\ record = s0.record /\ rw = row[j]
          /\ (job[j].cancel \/ s0.started = s0.batch)
      BY <1>3, <1>4, <2>1 DEF GoesOn, InHand, Asked, Sound
    <3> QED BY <1>1, <1>4, <2>1, <3>1 DEF Sound, BatchTold
  <2>2. CASE pc = "clean"
    BY <1>3, <1>4, <2>2, WordsDiffer DEF BatchTold, GoesOn
  <2>3. CASE pc = "raised"
    BY <1>4, <2>3 DEF BatchTold
  <2> QED BY <2>1, <2>2, <2>3
<1>10. Settled(job[j], rw)
  BY <1>6 DEF Settled, TerminalJob
<1>11. TurnsRun(job[j], rn, w)
  <2>1. \A p \in Profile : p \notin s0.done \cup s0.batch => ran[j][p] = 0
    BY <1>1, <1>2 DEF Sound, TurnsRun, Working
  <2> QED BY <1>3, <1>4, <1>6, <2>1 DEF TurnsRun, GoesOn
<1>12. Traced(j, job[j], w, browser') /\ LeasedTo(j, job[j], w, held')
  BY <1>1, <1>2, <1>4 DEF Sound, Traced, LeasedTo, Working
<1>13. Sound(j, job[j], rw, w, rn, up, browser', held')
  BY <1>7, <1>8, <1>9, <1>10, <1>11, <1>12 DEF Sound
<1>14. Heeds(job[j], s0, job[j], w)
  BY <1>4, <1>6 DEF Heeds
<1>15. Moved(j, job[j], rw, w, rn) /\ Hands(j) /\ Alone(j, job[j])
  BY <1>2, <1>3, <1>5, SameTyped DEF Moved, Hands, Alone, GoesOn
<1> QED BY <1>1, <1>4, <1>13, <1>14, <1>15, JobMoves

\* A stop touches the browser of its profile, and is confirmed only of one that is gone.
LEMMA StopsTyped ==
  ASSUME JobsInv, NEW p \in Profile, NEW r \in StopAndConfirm(p)
  PROVE  /\ r[1] \in BOOLEAN /\ r[2] \in [Profile -> Owners]
         /\ \A q \in Profile : r[2][q] \in {browser[q], Nobody}
         /\ r[1] => r[2][p] = Nobody
<1>1. browser \in [Profile -> Owners] /\ Nobody \in Owners
  BY DEF JobsInv, JobTypes, Owners
<1>2. \/ r = <<TRUE, [browser EXCEPT ![p] = Nobody]>> \/ r = <<FALSE, browser>>
      \/ r = <<FALSE, [browser EXCEPT ![p] = Nobody]>>
  BY DEF StopAndConfirm
<1>3. CASE r = <<TRUE, [browser EXCEPT ![p] = Nobody]>>
  <2>1. r[1] = TRUE /\ r[2] = [browser EXCEPT ![p] = Nobody]
    BY <1>3
  <2> QED BY <1>1, <2>1
<1>4. CASE r = <<FALSE, browser>>
  <2>1. r[1] = FALSE /\ r[2] = browser
    BY <1>4
  <2> QED BY <1>1, <2>1
<1>5. CASE r = <<FALSE, [browser EXCEPT ![p] = Nobody]>>
  <2>1. r[1] = FALSE /\ r[2] = [browser EXCEPT ![p] = Nobody]
    BY <1>5
  <2> QED BY <1>1, <2>1
<1> QED BY <1>2, <1>3, <1>4, <1>5

\* One profile is cleaned up: of what the job started, less is left to be traced.
LEMMA CleanedTraced ==
  ASSUME JobsInv, NEW j \in ExJob, NEW w \in WorkRow, NEW p \in Profile, NEW r \in StopAndConfirm(p),
         browser' = r[2], work[j].pc \in {"clean", "raised", "recover"}, w.pc = work[j].pc,
         w.started = work[j].started, w.cleaned = work[j].cleaned \cup {p},
         w.blocked = (work[j].blocked \/ ~ r[1])
  PROVE  Traced(j, job[j], w, browser')
<1> SUFFICES ASSUME NEW q \in Profile, browser'[q] = j PROVE
       /\ q \in job[j].profiles
       /\ \/ job[j].status = "cleanup_blocked"
          \/ w.pc \in Working /\ (q \in w.started \ w.cleaned \/ w.blocked \/ w.pc = "raised")
          \/ w.pc = "recover" /\ (q \notin w.cleaned \/ w.blocked)
          \/ w.pc = "none" /\ job[j].status \in Active
  BY DEF Traced
<1>1. browser[q] = j /\ (r[1] => q # p)
  BY StopsTyped, ExecutionAssumption
<1>2. /\ q \in job[j].profiles
      /\ \/ job[j].status = "cleanup_blocked"
         \/ work[j].pc \in Working
              /\ (q \in work[j].started \ work[j].cleaned \/ work[j].blocked \/ work[j].pc = "raised")
         \/ work[j].pc = "recover" /\ (q \notin work[j].cleaned \/ work[j].blocked)
         \/ work[j].pc = "none" /\ job[j].status \in Active
  BY <1>1, JobRowsTyped DEF Sound, Traced
<1>3. r[1] \in BOOLEAN
  BY StopsTyped
<1>4. w.blocked \/ (r[1] /\ q # p /\ w.blocked = work[j].blocked)
  BY <1>1, <1>3, JobRowsTyped DEF WorkRow
<1>5. CASE w.blocked
  BY <1>2, <1>5
<1>6. CASE q # p /\ w.blocked = work[j].blocked
  BY <1>2, <1>6
<1> QED BY <1>4, <1>5, <1>6

LEMMA CleanProfileKeeps ==
  ASSUME JobsInv, NEW j \in ExJob, CleanProfile(j) PROVE JobsInv' /\ CancelStep
<1> DEFINE s0 == work[j]
<1>1. s0.pc \in {"clean", "raised"} /\ UNCHANGED <<job, held, visit, ran, up, deaths>>
  BY DEF CleanProfile
<1> DEFINE Does(p, r) ==
             /\ browser' = r[2]
             /\ row' = [row EXCEPT ![j][p] = IF ~r[1] THEN "cleanup_failed"
                                            ELSE IF s0.record[p] = "none" THEN "failed" ELSE s0.record[p]]
             /\ work' = [work EXCEPT ![j].cleaned = @ \cup {p}, ![j].blocked = @ \/ ~r[1]]
<1>20. PICK p \in s0.started \ s0.cleaned : \E r \in StopAndConfirm(p) : Does(p, r)
  BY DEF CleanProfile
<1>2. PICK r \in StopAndConfirm(p) : Does(p, r)
  BY <1>20
<1>3. Sound(j, job[j], row[j], s0, ran[j], up, browser, held) /\ s0 \in WorkRow /\ job[j] \in JobRow
      /\ row[j] \in [Profile -> RowStatus] /\ ran[j] \in [Profile -> {0, 1}]
  BY JobRowsTyped
<1>4. p \in s0.batch /\ p \in Profile /\ r[1] \in BOOLEAN /\ s0.batch \subseteq Profile
      /\ s0.blocked \in BOOLEAN
  <2>1. p \in s0.batch /\ p \in Profile /\ s0.batch \subseteq Profile /\ s0.blocked \in BOOLEAN
    BY <1>3 DEF Sound, InBatch, WorkRow
  <2>2. r[1] \in BOOLEAN
    BY <2>1, StopsTyped
  <2> QED BY <2>1, <2>2
<1> DEFINE state == IF ~r[1] THEN "cleanup_failed"
                    ELSE IF s0.record[p] = "none" THEN "failed" ELSE s0.record[p]
           rw == [row[j] EXCEPT ![p] = state]
           cleaned == s0.cleaned \cup {p}
           blocked == s0.blocked \/ ~r[1]
           w == [s0 EXCEPT !.cleaned = cleaned, !.blocked = blocked]
<1>5. work' = [work EXCEPT ![j] = w] /\ row' = [row EXCEPT ![j] = rw]
  BY <1>2
<1>6. state \in RowStatus /\ state # "working" /\ state # "queued"
      /\ (state = "cleanup_failed" => blocked) /\ (state # "cleanup_failed" => state \in Final)
  BY <1>3, <1>4 DEF WorkRow, RowStatus, Final
<1> HIDE DEF state
<1>7. rw \in [Profile -> RowStatus] /\ rw[p] = state /\ \A q \in Profile \ {p} : rw[q] = row[j][q]
  BY <1>3, <1>4, <1>6
<1>8. cleaned \subseteq s0.started /\ cleaned \subseteq Profile /\ blocked \in BOOLEAN
      /\ (s0.blocked => blocked)
  BY <1>1, <1>2, <1>3, <1>4 DEF Sound, InBatch, WorkRow
<1> HIDE DEF rw
<1>9. /\ w \in WorkRow /\ w.pc = s0.pc /\ w.batch = s0.batch /\ w.started = s0.started /\ w.bound = s0.bound
      /\ w.cleaned = cleaned /\ w.done = s0.done /\ w.blocked = blocked /\ w.record = s0.record
      /\ w.opening = s0.opening /\ w.connecting = s0.connecting
  BY <1>3, <1>8 DEF WorkRow
<1>10. Traced(j, job[j], w, browser')
  BY <1>1, <1>2, <1>4, <1>9, CleanedTraced
<1> HIDE DEF w, cleaned, blocked
<1>11. /\ job[j].status \in Active /\ (s0.pc = "clean" => job[j].status = "running")
       /\ job[j].status \notin TerminalJob /\ job[j].status # "none"
       /\ up \notin {"down", "recovering"} /\ s0.batch \subseteq job[j].profiles
       /\ s0.done \subseteq job[j].profiles /\ (\A q \in s0.batch : q \notin s0.done)
       /\ job[j].profiles \subseteq Profile
  BY <1>1, <1>3, WordsDiffer DEF Sound, Phase, InBatch, Working, JobRow, Active
<1>12. Phase(job[j], w, up) /\ InBatch(job[j], w) /\ Asked(w)
  BY <1>1, <1>3, <1>8, <1>9, <1>11 DEF Sound, Phase, InBatch, Asked, Active
<1>13. TurnsTold(job[j], rw, w)
  BY <1>1, <1>3, <1>4, <1>7, <1>9, <1>11 DEF Sound, TurnsTold
<1>14. BatchTold(job[j], rw, w)
  <2>1. CASE w.pc = "clean"
    <3>1. \A q \in s0.batch :
            /\ row[j][q] # "working"
            /\ row[j][q] = "queued" => job[j].cancel
            /\ row[j][q] = "cleanup_failed" => s0.blocked
            /\ q \in s0.started => s0.record[q] \in Final
      BY <1>3, <1>9, <2>1 DEF Sound, BatchTold
    <3>2. \A q \in s0.batch : /\ rw[q] # "working"
                              /\ rw[q] = "queued" => job[j].cancel
                              /\ rw[q] = "cleanup_failed" => blocked
      BY <1>4, <1>6, <1>7, <1>8, <3>1
    <3> QED BY <1>9, <2>1, <3>1, <3>2 DEF BatchTold
  <2>2. CASE w.pc = "raised"
    BY <2>2 DEF BatchTold
  <2> QED BY <1>1, <1>9, <2>1, <2>2
<1>15. Settled(job[j], rw)
  BY <1>11 DEF Settled, TerminalJob
<1>16. TurnsRun(job[j], ran[j], w) /\ LeasedTo(j, job[j], w, held')
  BY <1>1, <1>3, <1>9 DEF Sound, TurnsRun, LeasedTo
<1>17. Sound(j, job[j], rw, w, ran[j], up, browser', held')
  BY <1>10, <1>12, <1>13, <1>14, <1>15, <1>16 DEF Sound
<1>18. Heeds(job[j], s0, job[j], w)
  BY <1>9, <1>11 DEF Heeds, TerminalJob
<1>19. Moved(j, job[j], rw, w, ran[j]) /\ Hands(j) /\ Alone(j, job[j])
  <2>1. browser' \in [Profile -> Owners] /\ \A q \in Profile : browser'[q] \in {browser[q], Nobody}
    BY <1>2, <1>4, StopsTyped
  <2> QED BY <1>1, <1>5, <2>1, SameTyped DEF Moved, Hands, Alone
<1> QED BY <1>3, <1>7, <1>9, <1>17, <1>18, <1>19, JobMoves

LEMMA CleanupRaisesKeeps ==
  ASSUME JobsInv, NEW j \in ExJob, CleanupRaises(j) PROVE JobsInv' /\ CancelStep
<1> DEFINE s0 == work[j]
           w == [s0 EXCEPT !.pc = "raised", !.cleaned = s0.started]
<1>1. /\ s0.pc \in {"clean", "raised"} /\ UNCHANGED <<job, held, visit, ran, up, deaths>>
      /\ work' = [work EXCEPT ![j] = w]
  BY DEF CleanupRaises
<1>2. PICK p \in s0.started \ s0.cleaned :
       /\ row' \in {row, [row EXCEPT ![j][p] = "working"]}
       /\ browser' \in {browser, [browser EXCEPT ![p] = Nobody]}
  BY DEF CleanupRaises
<1>3. Sound(j, job[j], row[j], s0, ran[j], up, browser, held) /\ s0 \in WorkRow /\ job[j] \in JobRow
      /\ row[j] \in [Profile -> RowStatus] /\ ran[j] \in [Profile -> {0, 1}]
  BY JobRowsTyped
<1>4. /\ w \in WorkRow /\ w.pc = "raised" /\ w.batch = s0.batch /\ w.started = s0.started /\ w.bound = s0.bound
      /\ w.cleaned = s0.started /\ w.done = s0.done /\ w.blocked = s0.blocked
      /\ w.opening = s0.opening /\ w.connecting = s0.connecting
  BY <1>3 DEF WorkRow, WorkPc, Working
<1> HIDE DEF w
<1>5. p \in s0.batch /\ p \in Profile /\ s0.batch \subseteq Profile
  BY <1>2, <1>3 DEF Sound, InBatch, WorkRow
<1>6. PICK rw \in [Profile -> RowStatus] : row' = [row EXCEPT ![j] = rw]
  <2>1. [row[j] EXCEPT ![p] = "working"] \in [Profile -> RowStatus]
    BY <1>3, <1>5 DEF RowStatus
  <2>2. row' = [row EXCEPT ![j] = row[j]] \/ row' = [row EXCEPT ![j] = [row[j] EXCEPT ![p] = "working"]]
    BY <1>2, SameTyped
  <2> QED BY <1>3, <2>1, <2>2
<1>7. browser' \in [Profile -> Owners] /\ \A q \in Profile : browser'[q] \in {browser[q], Nobody}
  BY <1>2, <1>5 DEF JobsInv, JobTypes, Owners
<1>8. /\ job[j].status \in Active /\ job[j].status \notin TerminalJob /\ job[j].status # "none"
      /\ up \notin {"down", "recovering"} /\ s0.batch \subseteq job[j].profiles
      /\ s0.done \subseteq job[j].profiles /\ (\A q \in s0.batch : q \notin s0.done)
  BY <1>1, <1>3, WordsDiffer DEF Sound, Phase, InBatch, Working, Active
<1>9. Phase(job[j], w, up) /\ InBatch(job[j], w) /\ Asked(w)
  BY <1>1, <1>3, <1>4, <1>8 DEF Sound, Phase, InBatch, Asked, Working, Active
<1>10. TurnsTold(job[j], rw, w) /\ BatchTold(job[j], rw, w) /\ Settled(job[j], rw)
  BY <1>4, <1>8 DEF TurnsTold, BatchTold, Settled, TerminalJob
<1>11. TurnsRun(job[j], ran[j], w) /\ LeasedTo(j, job[j], w, held')
  BY <1>1, <1>3, <1>4 DEF Sound, TurnsRun, LeasedTo, Working
<1>12. Traced(j, job[j], w, browser')
  <2>1. \A q \in Profile : browser'[q] = j => browser[q] = j
    BY <1>7, ExecutionAssumption
  <2> QED BY <1>3, <1>4, <2>1 DEF Sound, Traced, Working
<1>13. Sound(j, job[j], rw, w, ran[j], up, browser', held')
  BY <1>9, <1>10, <1>11, <1>12 DEF Sound
<1>14. Heeds(job[j], s0, job[j], w)
  BY <1>4, <1>8 DEF Heeds, TerminalJob
<1>15. Moved(j, job[j], rw, w, ran[j]) /\ Hands(j) /\ Alone(j, job[j])
  BY <1>1, <1>6, <1>7, SameTyped DEF Moved, Hands, Alone
<1> QED BY <1>3, <1>4, <1>13, <1>14, <1>15, JobMoves

LEMMA BatchEndsKeeps == ASSUME JobsInv, NEW j \in ExJob, BatchEnds(j) PROVE JobsInv' /\ CancelStep
<1> DEFINE s0 == work[j]
<1>1. s0.pc = "clean" /\ s0.cleaned = s0.started /\ UNCHANGED <<row, visit, browser, ran, up, deaths>>
  BY DEF BatchEnds
<1>2. Sound(j, job[j], row[j], s0, ran[j], up, browser, held) /\ s0 \in WorkRow /\ job[j] \in JobRow
      /\ row[j] \in [Profile -> RowStatus] /\ ran[j] \in [Profile -> {0, 1}]
  BY JobRowsTyped
<1>3. /\ job[j].status = "running" /\ up \notin {"down", "recovering"} /\ s0.batch \subseteq job[j].profiles
      /\ s0.done \subseteq job[j].profiles /\ (\A q \in s0.batch : q \notin s0.done)
      /\ s0.pc \in Working /\ job[j].profiles \subseteq Profile
  BY <1>1, <1>2 DEF Sound, Phase, InBatch, Working, JobRow, Active
<1>4. \A p \in s0.batch : /\ row[j][p] # "working"
                          /\ row[j][p] = "queued" => job[j].cancel
                          /\ row[j][p] = "cleanup_failed" => s0.blocked
  BY <1>1, <1>2 DEF Sound, BatchTold
<1>5. \A p \in job[j].profiles : /\ p \in s0.done => row[j][p] \in Final
                                 /\ p \notin s0.done \cup s0.batch => row[j][p] = "queued"
  BY <1>1, <1>2 DEF Sound, TurnsTold
<1>6. s0.blocked \/ \A p \in Profile : browser[p] # j
  BY <1>1, <1>2, <1>3 DEF Sound, Traced, Active
<1>7. \A p \in job[j].profiles : row[j][p] # "working" /\ (row[j][p] = "cleanup_failed" => s0.blocked)
  BY <1>4, <1>5, WordsDiffer
<1>8. row' = [row EXCEPT ![j] = row[j]]
  BY <1>1, SameTyped
<1>9. ASSUME NEW status \in TerminalJob, JobEnds(j, status),
             (s0.blocked /\ status = "cleanup_blocked") \/ (~ s0.blocked /\ status = "cancelled")
      PROVE  JobsInv' /\ CancelStep
  <2>1. \A p \in job[j].profiles : /\ row[j][p] # "working"
                                   /\ status = "completed" => row[j][p] \in Final
                                   /\ status = "cancelled" => row[j][p] # "cleanup_failed"
    BY <1>7, <1>9
  <2>2. status = "cleanup_blocked" \/ \A p \in Profile : browser[p] # j
    BY <1>6, <1>9
  <2>3. (job[j].cancel => status # "completed") /\ work[j].pc \in Working
        /\ row[j] \in [Profile -> RowStatus]
    BY <1>2, <1>3, <1>9
  <2> QED BY <1>1, <1>8, <1>9, <2>1, <2>2, <2>3, EndKeeps
<1>10. CASE /\ work' = [work EXCEPT ![j].pc = "batches", ![j].done = @ \cup work[j].batch]
            /\ UNCHANGED <<job, held>> /\ ~ s0.blocked /\ ~ job[j].cancel
  <2> DEFINE done == s0.done \cup s0.batch
             w == [s0 EXCEPT !.pc = "batches", !.done = done]
  <2>1. work' = [work EXCEPT ![j] = w]
    BY <1>10
  <2>2. done \subseteq job[j].profiles /\ done \subseteq Profile
    BY <1>3
  <2>3. /\ w \in WorkRow /\ w.pc = "batches" /\ w.batch = s0.batch /\ w.started = s0.started
        /\ w.bound = s0.bound /\ w.cleaned = s0.cleaned /\ w.done = done /\ w.blocked = s0.blocked
        /\ w.opening = s0.opening /\ w.connecting = s0.connecting
    BY <1>2, <2>2 DEF WorkRow, WorkPc, Working
  <2> HIDE DEF w
  <2>4. Phase(job[j], w, up) /\ InBatch(job[j], w) /\ Asked(w)
    BY <1>1, <1>2, <1>3, <1>10, <2>2, <2>3 DEF Sound, Phase, InBatch, Asked
  <2>5. TurnsTold(job[j], row[j], w)
    <3>1. \A p \in s0.batch : row[j][p] \in Final
      BY <1>2, <1>3, <1>4, <1>10 DEF RowStatus
    <3> QED BY <1>3, <1>5, <2>3, <3>1 DEF TurnsTold
  <2>6. BatchTold(job[j], row[j], w) /\ Settled(job[j], row[j])
    BY <1>3, <2>3 DEF BatchTold, Settled, TerminalJob
  <2>7. TurnsRun(job[j], ran[j], w)
    BY <1>1, <1>2, <1>3, <2>3 DEF Sound, TurnsRun, Working
  <2>8. Traced(j, job[j], w, browser') /\ LeasedTo(j, job[j], w, held')
    BY <1>1, <1>2, <1>6, <1>10, <2>3 DEF Sound, Traced, LeasedTo, Working
  <2>9. Sound(j, job[j], row[j], w, ran[j], up, browser', held')
    BY <2>4, <2>5, <2>6, <2>7, <2>8 DEF Sound
  <2>10. Heeds(job[j], s0, job[j], w)
    BY <1>10 DEF Heeds
  <2>11. Moved(j, job[j], row[j], w, ran[j]) /\ Hands(j) /\ Alone(j, job[j])
    BY <1>1, <1>10, <2>1, SameTyped DEF Moved, Hands, Alone
  <2> QED BY <1>2, <2>3, <2>9, <2>10, <2>11, JobMoves
<1> QED BY <1>9, <1>10 DEF BatchEnds, TerminalJob

LEMMA RunFailsKeeps == ASSUME JobsInv, NEW j \in ExJob, RunFails(j) PROVE JobsInv' /\ CancelStep
<1> DEFINE rw == [p \in Profile |-> IF p \in job[j].profiles /\ row[j][p] \notin Final \cup {"cleanup_failed"}
                                    THEN "failed" ELSE row[j][p]]
<1>1. /\ work[j].pc \in Working /\ UNCHANGED <<visit, browser, ran, up, deaths>>
      /\ JobEnds(j, "cleanup_blocked") /\ row' = [row EXCEPT ![j] = rw]
  BY DEF RunFails, Working
<1>2. rw \in [Profile -> RowStatus]
  BY JobRowsTyped DEF RowStatus, Final
<1>3. \A p \in job[j].profiles : rw[p] # "working"
  BY JobRowsTyped DEF JobRow, Final
<1> HIDE DEF rw
<1>4. "cleanup_blocked" \in TerminalJob
  BY DEF TerminalJob
<1> QED BY <1>1, <1>2, <1>3, <1>4, EndKeeps

LEMMA EndRaisesKeeps == ASSUME JobsInv, NEW j \in ExJob, EndRaises(j) PROVE JobsInv' /\ CancelStep
<1> DEFINE s0 == work[j]
           done == s0.done \cup s0.batch
           w == [NoWork EXCEPT !.pc = "raised", !.done = done]
<1>1. /\ s0.pc \in {"submitted", "batches", "clean"} /\ work' = [work EXCEPT ![j] = w]
      /\ UNCHANGED <<job, row, held, visit, browser, ran, up, deaths>>
  BY DEF EndRaises
<1>2. Sound(j, job[j], row[j], s0, ran[j], up, browser, held) /\ s0 \in WorkRow /\ job[j] \in JobRow
      /\ row[j] \in [Profile -> RowStatus] /\ ran[j] \in [Profile -> {0, 1}]
  BY JobRowsTyped
<1>3. /\ job[j].status \in Active /\ job[j].status \notin TerminalJob /\ job[j].status # "none"
      /\ up \notin {"down", "recovering"} /\ done \subseteq job[j].profiles /\ done \subseteq Profile
      /\ \A p \in Profile : p \notin done => ran[j][p] = 0
  <2>1. CASE s0.pc = "submitted"
    <3>1. job[j].status = "queued" /\ up \notin {"down", "recovering"}
      BY <1>2, <2>1 DEF Sound, Phase, Active
    <3>2. done = {} /\ \A p \in Profile : ran[j][p] = 0
      BY <1>2, <2>1 DEF Sound, InBatch, TurnsRun
    <3> QED BY <3>1, <3>2, WordsDiffer DEF Active
  <2>2. CASE s0.pc \in {"batches", "clean"}
    <3>1. job[j].status = "running" /\ up \notin {"down", "recovering"} /\ s0.pc \in Working
      BY <1>2, <2>2 DEF Sound, Phase, Working, Active
    <3>2. done \subseteq job[j].profiles /\ done \subseteq Profile
      BY <1>2, <3>1 DEF Sound, InBatch, WorkRow
    <3>3. \A p \in Profile : p \notin done => ran[j][p] = 0
      BY <1>2, <3>1 DEF Sound, TurnsRun
    <3> QED BY <3>1, <3>2, <3>3, WordsDiffer DEF Active
  <2> QED BY <1>1, <2>1, <2>2
<1> HIDE DEF done
<1>4. /\ w \in WorkRow /\ w.pc = "raised" /\ w.batch = {} /\ w.started = {} /\ w.bound = {}
      /\ w.cleaned = {} /\ w.done = done /\ w.blocked = FALSE /\ w.opening = {} /\ w.connecting = {}
  BY <1>3, NoWorkTyped DEF WorkRow, WorkPc, Working
<1> HIDE DEF w
<1>5. Phase(job[j], w, up) /\ InBatch(job[j], w) /\ Asked(w)
  BY <1>3, <1>4 DEF Phase, InBatch, Asked, Working, Active
<1>6. TurnsTold(job[j], row[j], w) /\ BatchTold(job[j], row[j], w) /\ Settled(job[j], row[j])
  BY <1>3, <1>4 DEF TurnsTold, BatchTold, Settled, TerminalJob
<1>7. TurnsRun(job[j], ran[j], w)
  BY <1>3, <1>4 DEF TurnsRun
<1>8. Traced(j, job[j], w, browser') /\ LeasedTo(j, job[j], w, held')
  BY <1>1, <1>2, <1>4 DEF Sound, Traced, LeasedTo, Working
<1>9. Sound(j, job[j], row[j], w, ran[j], up, browser', held')
  BY <1>5, <1>6, <1>7, <1>8 DEF Sound
<1>10. Heeds(job[j], s0, job[j], w)
  BY <1>3, <1>4 DEF Heeds, TerminalJob
<1>11. Moved(j, job[j], row[j], w, ran[j]) /\ Hands(j) /\ Alone(j, job[j])
  BY <1>1, SameTyped DEF Moved, Hands, Alone
<1> QED BY <1>2, <1>4, <1>9, <1>10, <1>11, JobMoves

\* Nobody settles the job: its row says that it is active.
LEMMA RunIsLostKeeps == ASSUME JobsInv, NEW j \in ExJob, RunIsLost(j) PROVE JobsInv' /\ CancelStep
<1>1. /\ work[j].pc = "raised" /\ work' = [work EXCEPT ![j] = NoWork]
      /\ held' = Released(job[j].profiles, j) /\ UNCHANGED <<job, row, visit, browser, ran, up, deaths>>
  BY DEF RunIsLost
<1>2. Sound(j, job[j], row[j], work[j], ran[j], up, browser, held) /\ job[j] \in JobRow
      /\ row[j] \in [Profile -> RowStatus] /\ ran[j] \in [Profile -> {0, 1}]
  BY JobRowsTyped
<1>3. /\ job[j].status \in Active /\ job[j].status \notin TerminalJob /\ job[j].status # "none"
      /\ up # "recovering" /\ job[j].profiles \in SUBSET Profile
  BY <1>1, <1>2, WordsDiffer DEF Sound, Phase, Working, Active, JobRow
<1>4. Sound(j, job[j], row[j], NoWork, ran[j], up, browser', held')
  <2>1. \A p \in Profile : held'[p] # j
    BY <1>1, <1>2, <1>3, LeasesTyped DEF Sound, LeasedTo
  <2>2. \A p \in Profile : browser'[p] = j => p \in job[j].profiles /\ job[j].status \in {"cleanup_blocked"} \cup Active
    BY <1>1, <1>2, <1>3 DEF Sound, Traced, Active
  <2>3. Settled(job[j], row[j]) /\ job[j].status # "none"
    BY <1>2, <1>3 DEF Sound
  <2> QED BY <1>2, <1>3, <2>1, <2>2, <2>3, AtRest
<1>5. Heeds(job[j], work[j], job[j], NoWork)
  BY <1>3, NoWorkTyped DEF Heeds, TerminalJob
<1>6. Moved(j, job[j], row[j], NoWork, ran[j])
  BY <1>1, SameTyped DEF Moved
<1>7. Hands(j) /\ Alone(j, job[j])
  <2>1. /\ held' \in [Profile -> Owners] /\ \A p \in Profile : held'[p] \in {held[p], j, Nobody}
    BY <1>1, <1>3, LeasesTyped
  <2> QED BY <1>1, <2>1, SameTyped DEF Hands, Alone
<1> QED BY <1>2, <1>4, <1>5, <1>6, <1>7, NoWorkTyped, JobMoves

LEMMA RecoverProfileKeeps ==
  ASSUME JobsInv, NEW j \in ExJob, RecoverProfile(j) PROVE JobsInv' /\ CancelStep
<1> DEFINE s0 == work[j]
           Does(p, r) ==
             /\ browser' = r[2]
             /\ row' = [row EXCEPT ![j][p] = IF r[1] THEN "failed" ELSE "cleanup_failed"]
             /\ work' = [work EXCEPT ![j].cleaned = @ \cup {p}, ![j].blocked = @ \/ ~r[1]]
<1>1. s0.pc = "recover" /\ UNCHANGED <<job, held, visit, ran, up, deaths>>
  BY DEF RecoverProfile
<1>2. PICK p \in job[j].profiles \ s0.cleaned : \E r \in StopAndConfirm(p) : Does(p, r)
  BY DEF RecoverProfile
<1>3. PICK r \in StopAndConfirm(p) : Does(p, r)
  BY <1>2
<1>4. Sound(j, job[j], row[j], s0, ran[j], up, browser, held) /\ s0 \in WorkRow /\ job[j] \in JobRow
      /\ row[j] \in [Profile -> RowStatus] /\ ran[j] \in [Profile -> {0, 1}]
  BY JobRowsTyped
<1>5. p \in job[j].profiles /\ p \in Profile /\ job[j].profiles \subseteq Profile
      /\ s0.blocked \in BOOLEAN /\ s0.cleaned \subseteq job[j].profiles
  BY <1>1, <1>2, <1>4 DEF Sound, InBatch, WorkRow, JobRow
<1>6. r[1] \in BOOLEAN
  BY <1>3, <1>5, StopsTyped
<1> DEFINE state == IF r[1] THEN "failed" ELSE "cleanup_failed"
           rw == [row[j] EXCEPT ![p] = state]
           cleaned == s0.cleaned \cup {p}
           blocked == s0.blocked \/ ~r[1]
           w == [s0 EXCEPT !.cleaned = cleaned, !.blocked = blocked]
<1>7. work' = [work EXCEPT ![j] = w] /\ row' = [row EXCEPT ![j] = rw]
  BY <1>3
<1>8. state \in {"failed", "cleanup_failed"} /\ (state = "cleanup_failed" => blocked)
  BY <1>6
<1> HIDE DEF state
<1>9. rw \in [Profile -> RowStatus] /\ rw[p] = state /\ \A q \in Profile \ {p} : rw[q] = row[j][q]
  BY <1>4, <1>5, <1>8 DEF RowStatus, Final
<1>10. cleaned \subseteq job[j].profiles /\ cleaned \subseteq Profile /\ blocked \in BOOLEAN
       /\ (s0.blocked => blocked) /\ \A q \in cleaned : q = p \/ q \in s0.cleaned
  BY <1>5, <1>6
<1> HIDE DEF rw
<1>11. /\ w \in WorkRow /\ w.pc = "recover" /\ w.batch = s0.batch /\ w.started = s0.started
       /\ w.bound = s0.bound /\ w.cleaned = cleaned /\ w.done = s0.done /\ w.blocked = blocked
       /\ w.opening = s0.opening /\ w.connecting = s0.connecting
  BY <1>1, <1>4, <1>10 DEF WorkRow
<1>12. Traced(j, job[j], w, browser')
  BY <1>1, <1>3, <1>5, <1>11, CleanedTraced
<1> HIDE DEF w, cleaned, blocked
<1>13. job[j].status \in Active /\ up # "down"
  BY <1>1, <1>4 DEF Sound, Phase
<1>14. Phase(job[j], w, up) /\ InBatch(job[j], w) /\ Asked(w)
  BY <1>1, <1>4, <1>10, <1>11, <1>13 DEF Sound, Phase, InBatch, Asked, Working
<1>15. BatchTold(job[j], rw, w)
  <2>1. \A q \in s0.cleaned : row[j][q] = "failed" \/ (row[j][q] = "cleanup_failed" /\ s0.blocked)
    BY <1>1, <1>4 DEF Sound, BatchTold
  <2>2. \A q \in cleaned : rw[q] = "failed" \/ (rw[q] = "cleanup_failed" /\ blocked)
    BY <1>8, <1>9, <1>10, <2>1
  <2> QED BY <1>11, <2>2 DEF BatchTold
<1>16. TurnsTold(job[j], rw, w) /\ Settled(job[j], rw)
  BY <1>11, <1>13 DEF TurnsTold, Settled, TerminalJob, Active
<1>17. TurnsRun(job[j], ran[j], w) /\ LeasedTo(j, job[j], w, held')
  BY <1>1, <1>4, <1>11, <1>13 DEF Sound, TurnsRun, LeasedTo, Working, Active
<1>18. Sound(j, job[j], rw, w, ran[j], up, browser', held')
  BY <1>12, <1>14, <1>15, <1>16, <1>17 DEF Sound
<1>19. Heeds(job[j], s0, job[j], w)
  BY <1>11, <1>13 DEF Heeds, Active
<1>20. Moved(j, job[j], rw, w, ran[j]) /\ Hands(j) /\ Alone(j, job[j])
  <2>1. browser' \in [Profile -> Owners] /\ \A q \in Profile : browser'[q] \in {browser[q], Nobody}
    BY <1>3, <1>5, StopsTyped
  <2> QED BY <1>1, <1>7, <2>1, SameTyped DEF Moved, Hands, Alone
<1> QED BY <1>4, <1>9, <1>11, <1>18, <1>19, <1>20, JobMoves

LEMMA RecoverJobKeeps == ASSUME JobsInv, NEW j \in ExJob, RecoverJob(j) PROVE JobsInv' /\ CancelStep
<1> DEFINE s0 == work[j]
           status == IF s0.blocked THEN "cleanup_blocked" ELSE "cancelled"
           jb == [job[j] EXCEPT !.status = status]
<1>1. s0.pc = "recover" /\ s0.cleaned = job[j].profiles
      /\ UNCHANGED <<row, held, visit, browser, ran, up, deaths>>
      /\ job' = [job EXCEPT ![j] = jb] /\ work' = [work EXCEPT ![j] = NoWork]
  BY DEF RecoverJob
<1>2. Sound(j, job[j], row[j], s0, ran[j], up, browser, held) /\ s0 \in WorkRow /\ job[j] \in JobRow
      /\ row[j] \in [Profile -> RowStatus] /\ ran[j] \in [Profile -> {0, 1}]
  BY JobRowsTyped
<1>3. status \in TerminalJob /\ status \in {"cleanup_blocked", "cancelled"}
      /\ (status = "cancelled" => ~ s0.blocked)
  BY DEF TerminalJob
<1> HIDE DEF status
<1>4. jb \in JobRow /\ jb.status = status /\ jb.profiles = job[j].profiles
  BY <1>2, <1>3 DEF JobRow
<1> HIDE DEF jb
<1>5. Sound(j, jb, row[j], NoWork, ran[j], up, browser', held')
  <2>1. \A p \in job[j].profiles : row[j][p] = "failed" \/ (row[j][p] = "cleanup_failed" /\ s0.blocked)
    BY <1>1, <1>2 DEF Sound, BatchTold
  <2>2. Settled(jb, row[j])
    BY <1>3, <1>4, <2>1 DEF Settled, Final
  <2>3. \A p \in Profile : held'[p] # j
    BY <1>1, <1>2 DEF Sound, LeasedTo, Working
  <2>4. \A p \in Profile : browser'[p] = j => p \in jb.profiles /\ jb.status = "cleanup_blocked"
    <3>1. up # "down" /\ job[j].status # "cleanup_blocked"
      BY <1>1, <1>2 DEF Sound, Phase, Active
    <3>2. \A p \in Profile : browser[p] = j => p \in job[j].profiles /\ s0.blocked
      BY <1>1, <1>2, <3>1 DEF Sound, Traced, Working
    <3> QED BY <1>1, <1>3, <1>4, <3>2
  <2>5. jb.status \notin Active /\ jb.status # "none"
    BY <1>3, <1>4, WordsDiffer
  <2> QED BY <1>2, <1>4, <2>2, <2>3, <2>4, <2>5, AtRest
<1>6. Heeds(job[j], s0, jb, NoWork)
  BY <1>3, <1>4, NoWorkTyped DEF Heeds
<1>7. jb.status \notin Active
  BY <1>3, <1>4, WordsDiffer
<1>8. Moved(j, jb, row[j], NoWork, ran[j]) /\ Hands(j) /\ Alone(j, jb)
  BY <1>1, <1>7, SameTyped DEF Moved, Hands, Alone
<1> QED BY <1>2, <1>4, <1>5, <1>6, <1>8, NoWorkTyped, JobMoves

LEMMA RecoveryFailsKeeps ==
  ASSUME JobsInv, NEW j \in ExJob, RecoveryFails(j) PROVE JobsInv' /\ CancelStep
<1>1. /\ work[j].pc = "recover" /\ up' = "failed" /\ UNCHANGED <<job, held, visit, ran, deaths>>
      /\ work' = [k \in ExJob |-> IF work[k].pc = "recover" THEN NoWork ELSE work[k]]
  BY DEF RecoveryFails
<1>2. Sound(j, job[j], row[j], work[j], ran[j], up, browser, held) /\ job[j] \in JobRow
      /\ row[j] \in [Profile -> RowStatus] /\ ran[j] \in [Profile -> {0, 1}]
  BY JobRowsTyped
<1>3. job[j].status \in Active /\ up # "down" /\ job[j].profiles \subseteq Profile
  BY <1>1, <1>2 DEF Sound, Phase, JobRow
<1>4. \A k \in ExJob : work[k].pc = "recover" => k = j
  <2>1. \A k \in ExJob : work[k].pc = "recover" => job[k].status \in Active
    BY JobRowsTyped DEF Sound, Phase
  <2> QED BY <1>3, <2>1 DEF JobsInv, OneActiveJob, Active
<1>5. work' = [work EXCEPT ![j] = NoWork]
  BY <1>1, <1>4 DEF JobsInv, JobTypes
<1>6. /\ browser' \in [Profile -> Owners] /\ \A q \in Profile : browser'[q] \in {browser[q], Nobody}
      /\ \E rw \in [Profile -> RowStatus] : row' = [row EXCEPT ![j] = rw]
  <2>1. CASE UNCHANGED <<row, browser>>
    BY <1>2, <2>1, SameTyped
  <2>2. ASSUME NEW p \in job[j].profiles, NEW r \in StopAndConfirm(p), browser' = r[2],
               row' = [row EXCEPT ![j][p] = "working"]
        PROVE  /\ browser' \in [Profile -> Owners] /\ \A q \in Profile : browser'[q] \in {browser[q], Nobody}
               /\ \E rw \in [Profile -> RowStatus] : row' = [row EXCEPT ![j] = rw]
    <3>1. [row[j] EXCEPT ![p] = "working"] \in [Profile -> RowStatus]
      BY <1>2, <1>3 DEF RowStatus
    <3>2. row' = [row EXCEPT ![j] = [row[j] EXCEPT ![p] = "working"]]
      BY <2>2
    <3>3. browser' \in [Profile -> Owners] /\ \A q \in Profile : browser'[q] \in {browser[q], Nobody}
      BY <1>3, <2>2, StopsTyped
    <3> QED BY <3>1, <3>2, <3>3
  <2> QED BY <2>1, <2>2 DEF RecoveryFails
<1>7. PICK rw \in [Profile -> RowStatus] : row' = [row EXCEPT ![j] = rw]
  BY <1>6
<1>8. Sound(j, job[j], rw, NoWork, ran[j], up', browser', held')
  <2>1. \A p \in Profile : held'[p] # j
    BY <1>1, <1>2 DEF Sound, LeasedTo, Working
  <2>2. \A p \in Profile : browser'[p] = j => p \in job[j].profiles /\ job[j].status \in {"cleanup_blocked"} \cup Active
    BY <1>2, <1>3, <1>6, ExecutionAssumption DEF Sound, Traced
  <2>3. Settled(job[j], rw) /\ job[j].status # "none"
    BY <1>3 DEF Settled, Active, TerminalJob
  <2> QED BY <1>1, <1>2, <2>1, <2>2, <2>3, AtRest
<1>9. Heeds(job[j], work[j], job[j], NoWork)
  BY <1>3, NoWorkTyped DEF Heeds, Active
<1>10. Moved(j, job[j], rw, NoWork, ran[j]) /\ Hands(j) /\ Alone(j, job[j])
  BY <1>1, <1>3, <1>5, <1>6, <1>7, SameTyped DEF Moved, Hands, Alone
<1> QED BY <1>2, <1>8, <1>9, <1>10, NoWorkTyped, JobMoves

\* The process dies: the jobs and their rows stay as they are.
LEMMA DiesKeeps == ASSUME JobsInv, ServiceDies PROVE JobsInv' /\ CancelStep
<1>1. /\ up # "down" /\ up' = "down"
      /\ deaths' = deaths \/ (deaths' = deaths + 1 /\ deaths < MaxExDeaths)
      /\ work' = [j \in ExJob |-> NoWork] /\ visit' = [v \in Visitor |-> NoVisit]
      /\ held' = [p \in Profile |-> Nobody] /\ UNCHANGED <<job, row, ran>>
      /\ browser' = browser \/ \E j \in ExJob : \E p \in work[j].opening : browser' = [browser EXCEPT ![p] = j]
  BY DEF ServiceDies, ServiceUp
<1>10. /\ browser' \in [Profile -> Owners]
       /\ \A k \in ExJob, p \in Profile : browser'[p] = k => browser[p] = k \/ p \in work[k].opening
  <2>1. browser \in [Profile -> Owners] /\ ExJob \subseteq Owners
    BY DEF JobsInv, JobTypes, Owners, Owner
  <2>2. CASE browser' = browser
    BY <2>1, <2>2
  <2>3. ASSUME NEW j \in ExJob, NEW p \in work[j].opening, browser' = [browser EXCEPT ![p] = j]
        PROVE  /\ browser' \in [Profile -> Owners]
               /\ \A k \in ExJob, q \in Profile : browser'[q] = k => browser[q] = k \/ q \in work[k].opening
    BY <2>1, <2>3
  <2> QED BY <1>1, <2>2, <2>3
<1>2. JobTypes'
  BY <1>1, <1>10, NoWorkTyped, ExecutionAssumption DEF JobsInv, JobTypes, Owners
<1>3. OneActiveJob'
  BY <1>1 DEF JobsInv, OneActiveJob
<1>4. VisitsSound'
  BY <1>1, NoWorkTyped, ExecutionAssumption DEF VisitsSound
<1>5. ASSUME NEW j \in ExJob
      PROVE  Sound(j, job'[j], row'[j], work'[j], ran'[j], up', browser', held')
  <2>1. Sound(j, job[j], row[j], work[j], ran[j], up, browser, held) /\ job[j] \in JobRow
        /\ row[j] \in [Profile -> RowStatus] /\ ran[j] \in [Profile -> {0, 1}]
    BY JobRowsTyped
  <2>2. \A p \in Profile : browser'[p] = j =>
          p \in job[j].profiles /\ job[j].status \in {"cleanup_blocked"} \cup Active
    <3>1. \A p \in work[j].opening : work[j].pc = "start" /\ p \in job[j].profiles
      BY <2>1 DEF Sound, Asked, InBatch, Working
    <3>2. work[j].pc = "start" => job[j].status \in Active
      BY <2>1 DEF Sound, Phase, Working, Active
    <3>3. \A p \in Profile : browser[p] = j =>
            p \in job[j].profiles /\ job[j].status \in {"cleanup_blocked"} \cup Active
      BY <2>1 DEF Sound, Traced, Phase, Active
    <3> QED BY <1>10, <3>1, <3>2, <3>3
  <2>3. (job[j].status = "none" => \A p \in Profile : row[j][p] = "queued" /\ ran[j][p] = 0)
        /\ Settled(job[j], row[j])
    BY <2>1 DEF Sound, TurnsTold, TurnsRun
  <2>4. \A p \in Profile : held'[p] # j
    BY <1>1, ExecutionAssumption
  <2>5. Sound(j, job[j], row[j], NoWork, ran[j], "down", browser', held')
    BY <2>1, <2>2, <2>3, <2>4, AtRest
  <2> QED BY <1>1, <2>5
<1>6. CancelStep
  BY <1>1, <1>10, NoWorkTyped DEF CancelStep, TerminalJob
<1> QED BY <1>2, <1>3, <1>4, <1>5, <1>6 DEF JobsInv

\* It starts again: the jobs that it left are recovered.
LEMMA StartsKeeps == ASSUME JobsInv, ServiceStarts PROVE JobsInv' /\ CancelStep
<1> DEFINE rec == [NoWork EXCEPT !.pc = "recover"]
<1>1. /\ up = "down" /\ up' = "recovering"
      /\ work' = [j \in ExJob |-> IF j \in Recoverable THEN rec ELSE NoWork]
      /\ UNCHANGED <<job, row, held, visit, browser, ran, deaths>>
  BY DEF ServiceStarts
<1>2. /\ rec \in WorkRow /\ rec.pc = "recover" /\ rec.batch = {} /\ rec.started = {} /\ rec.bound = {}
      /\ rec.cleaned = {} /\ rec.done = {} /\ rec.blocked = FALSE /\ rec.opening = {} /\ rec.connecting = {}
  BY NoWorkTyped DEF WorkRow, WorkPc
<1> HIDE DEF rec
<1>3. JobTypes'
  BY <1>1, <1>2, NoWorkTyped DEF JobsInv, JobTypes
<1>4. OneActiveJob' /\ VisitsSound'
  BY <1>1 DEF JobsInv, OneActiveJob, VisitsSound, VisitOwner
<1>5. ASSUME NEW j \in ExJob
      PROVE  Sound(j, job'[j], row'[j], work'[j], ran'[j], up', browser', held')
  <2>1. Sound(j, job[j], row[j], work[j], ran[j], up, browser, held) /\ job[j] \in JobRow
        /\ row[j] \in [Profile -> RowStatus] /\ ran[j] \in [Profile -> {0, 1}]
    BY JobRowsTyped
  <2>2. work[j].pc = "none"
    BY <1>1, <2>1 DEF Sound, Phase
  <2>3. \A p \in Profile : held[p] # j
    BY <2>1, <2>2 DEF Sound, LeasedTo, Working
  <2>4. \A p \in Profile : browser[p] = j =>
          p \in job[j].profiles /\ job[j].status \in {"cleanup_blocked"} \cup Active
    BY <2>1 DEF Sound, Traced, Phase, Active
  <2>5. (job[j].status = "none" => \A p \in Profile : row[j][p] = "queued" /\ ran[j][p] = 0)
        /\ Settled(job[j], row[j])
    BY <2>1 DEF Sound, TurnsTold, TurnsRun
  <2>6. CASE j \in Recoverable
    <3>1. job[j].status \in Active /\ job[j].status # "none" /\ work'[j] = rec
      BY <1>1, <2>6 DEF Recoverable, Active
    <3>2. Phase(job[j], rec, "recovering") /\ InBatch(job[j], rec) /\ Asked(rec)
      BY <1>2, <3>1 DEF Phase, InBatch, Asked, Working
    <3>3. TurnsTold(job[j], row[j], rec) /\ BatchTold(job[j], row[j], rec) /\ TurnsRun(job[j], ran[j], rec)
      BY <1>2, <3>1 DEF TurnsTold, BatchTold, TurnsRun, Working
    <3>4. Traced(j, job[j], rec, browser) /\ LeasedTo(j, job[j], rec, held)
      BY <1>2, <2>3, <2>4 DEF Traced, LeasedTo
    <3>5. Sound(j, job[j], row[j], rec, ran[j], "recovering", browser, held)
      BY <2>5, <3>2, <3>3, <3>4 DEF Sound
    <3> QED BY <1>1, <3>1, <3>5
  <2>7. CASE j \notin Recoverable
    <3>1. job[j].status \notin Active /\ work'[j] = NoWork
      BY <1>1, <2>7 DEF Recoverable, Active
    <3>2. Sound(j, job[j], row[j], NoWork, ran[j], "recovering", browser, held)
      BY <2>1, <2>3, <2>4, <2>5, <3>1, AtRest
    <3> QED BY <1>1, <3>1, <3>2
  <2> QED BY <2>6, <2>7
<1>6. CancelStep
  BY <1>1, <1>2, NoWorkTyped DEF CancelStep, TerminalJob
<1> QED BY <1>3, <1>4, <1>5, <1>6 DEF JobsInv

LEMMA RecoveredKeeps == ASSUME JobsInv, Recovered PROVE JobsInv' /\ CancelStep
<1>1. /\ up = "recovering" /\ up' = "up" /\ \A j \in ExJob : work[j].pc # "recover"
      /\ UNCHANGED <<job, row, work, held, visit, browser, ran, deaths>>
  BY DEF Recovered
<1>2. JobTypes' /\ OneActiveJob' /\ VisitsSound'
  BY <1>1 DEF JobsInv, JobTypes, OneActiveJob, VisitsSound, VisitOwner
<1>3. ASSUME NEW j \in ExJob
      PROVE  Sound(j, job[j], row[j], work[j], ran[j], "up", browser, held)
  <2>1. Sound(j, job[j], row[j], work[j], ran[j], up, browser, held)
    BY JobRowsTyped
  <2>2. Phase(job[j], work[j], "up") /\ Traced(j, job[j], work[j], browser)
    BY <1>1, <2>1 DEF Sound, Phase, Traced
  <2> QED BY <2>1, <2>2 DEF Sound
<1>4. CancelStep
  BY <1>1 DEF CancelStep, TerminalJob
<1> QED BY <1>1, <1>2, <1>3, <1>4 DEF JobsInv

\* A visit changes no job; what it takes and gives back is its own.
LEMMA VisitMoves ==
  ASSUME JobsInv, UNCHANGED <<job, row, work, ran, up, deaths>>,
         visit' \in [Visitor -> VisitRow], held' \in [Profile -> Owners],
         browser' \in [Profile -> Owners], VisitsSound',
         \A p \in Profile : browser'[p] = browser[p] \/ browser'[p] \notin ExJob,
         \A p \in Profile : held'[p] = held[p] \/ held'[p] \notin ExJob
  PROVE  JobsInv' /\ CancelStep
<1>1. JobTypes' /\ OneActiveJob'
  BY DEF JobsInv, JobTypes, OneActiveJob
<1>2. ASSUME NEW j \in ExJob
      PROVE  Sound(j, job[j], row[j], work[j], ran[j], up, browser', held')
  <2>1. Sound(j, job[j], row[j], work[j], ran[j], up, browser, held)
    BY JobRowsTyped
  <2>2. \A p \in Profile : (browser'[p] = j => browser[p] = j) /\ (held'[p] = j => held[p] = j)
    OBVIOUS
  <2>3. Traced(j, job[j], work[j], browser') /\ LeasedTo(j, job[j], work[j], held')
    BY <2>1, <2>2 DEF Sound, Traced, LeasedTo
  <2> QED BY <2>1, <2>3 DEF Sound
<1>3. CancelStep
  BY DEF CancelStep, TerminalJob
<1> QED BY <1>1, <1>2, <1>3 DEF JobsInv

LEMMA BeginVisitKeeps ==
  ASSUME JobsInv, NEW v \in Visitor, NEW k \in Kind, NEW p \in Profile, BeginVisit(v, k, p)
  PROVE  JobsInv' /\ CancelStep
<1> DEFINE new == [pc |-> "held", kind |-> k, profile |-> p, closers |-> 0]
<1>1. /\ up = "up" /\ visit[v].pc = "none" /\ held[p] \in {Nobody, <<k, p>>}
      /\ visit' = [visit EXCEPT ![v] = new] /\ held' = Leased({p}, <<k, p>>)
      /\ UNCHANGED <<job, row, work, browser, ran, up, deaths>>
  BY DEF BeginVisit, Conflict
<1>2. new \in VisitRow /\ new.pc = "held" /\ new.kind = k /\ new.profile = p /\ new.closers = 0
  BY ExecutionAssumption DEF VisitRow
<1> HIDE DEF new
<1>3. <<k, p>> \in Kind \X Profile /\ <<k, p>> \in Owners /\ <<k, p>> \notin ExJob
  BY ExecutionAssumption DEF Owners, Owner
<1>4. /\ visit \in [Visitor -> VisitRow] /\ held \in [Profile -> Owners] /\ browser \in [Profile -> Owners]
  BY DEF JobsInv, JobTypes
<1>5. \A q \in Profile : held'[q] = IF q = p THEN <<k, p>> ELSE held[q]
  BY <1>1 DEF Leased, Conflict
<1>6. held' \in [Profile -> Owners]
  BY <1>1, <1>3, <1>4 DEF Leased, Conflict
<1>7. visit' \in [Visitor -> VisitRow] /\ visit'[v] = new /\ \A u \in Visitor \ {v} : visit'[u] = visit[u]
  BY <1>1, <1>2, <1>4
<1>8. VisitsSound'
  <2>1. /\ \A u \in Visitor : visit'[u].pc # "none" => visit'[u].profile \in Profile /\ up' # "down"
        /\ \A u \in Visitor : visit'[u].pc = "none" => visit'[u].closers = 0
    BY <1>1, <1>2, <1>7 DEF JobsInv, VisitsSound
  <2>2. ASSUME NEW q \in Profile, held'[q] \in Kind \X Profile
        PROVE  \E u \in Visitor : /\ visit'[u].pc # "none" /\ visit'[u].profile = q
                                  /\ held'[q] = VisitOwner(u)'
    <3>1. CASE q = p
      BY <1>2, <1>5, <1>7, <3>1 DEF VisitOwner
    <3>2. CASE q # p
      <4>1. held[q] \in Kind \X Profile /\ held'[q] = held[q]
        BY <1>5, <2>2, <3>2
      <4>2. PICK u \in Visitor : visit[u].pc # "none" /\ held[q] = VisitOwner(u) /\ visit[u].profile = q
        BY <4>1 DEF JobsInv, VisitsSound
      <4>3. visit'[u] = visit[u]
        BY <1>1, <1>7, <4>2
      <4> QED BY <4>1, <4>2, <4>3 DEF VisitOwner
    <3> QED BY <3>1, <3>2
  <2> QED BY <2>1, <2>2 DEF VisitsSound
<1>9. \A q \in Profile : held'[q] = held[q] \/ held'[q] \notin ExJob
  BY <1>3, <1>5
<1>10. browser' \in [Profile -> Owners] /\ \A q \in Profile : browser'[q] = browser[q] \/ browser'[q] \notin ExJob
  BY <1>1, <1>4
<1> QED BY <1>1, <1>6, <1>7, <1>8, <1>9, <1>10, VisitMoves

\* A visit that goes on, or is over and leaves nothing leased to it.
LEMMA VisitGoes ==
  ASSUME JobsInv, NEW v \in Visitor, visit[v].pc # "none", NEW new \in VisitRow,
         visit' = [visit EXCEPT ![v] = new], UNCHANGED <<job, row, work, ran, up, deaths>>,
         browser' \in [Profile -> Owners],
         \A p \in Profile : browser'[p] = browser[p] \/ browser'[p] \notin ExJob,
         held' \in [Profile -> Owners], \A p \in Profile : held'[p] \in {held[p], Nobody},
         \/ /\ new.pc # "none" /\ new.kind = visit[v].kind /\ new.profile = visit[v].profile
         \/ /\ new.pc = "none" /\ new.closers = 0
            /\ held'[visit[v].profile] # VisitOwner(v)
  PROVE  JobsInv' /\ CancelStep
<1>1. visit' \in [Visitor -> VisitRow] /\ visit'[v] = new /\ \A u \in Visitor \ {v} : visit'[u] = visit[u]
  BY DEF JobsInv, JobTypes
<1>2. visit[v].profile \in Profile /\ up # "down"
  BY DEF JobsInv, VisitsSound
<1>3. VisitsSound'
  <2>1. /\ \A u \in Visitor : visit'[u].pc # "none" => visit'[u].profile \in Profile /\ up' # "down"
        /\ \A u \in Visitor : visit'[u].pc = "none" => visit'[u].closers = 0
    BY <1>1, <1>2 DEF JobsInv, VisitsSound
  <2>2. ASSUME NEW q \in Profile, held'[q] \in Kind \X Profile
        PROVE  \E u \in Visitor : /\ visit'[u].pc # "none" /\ visit'[u].profile = q
                                  /\ held'[q] = VisitOwner(u)'
    <3>1. held[q] \in Kind \X Profile /\ held'[q] = held[q]
      BY <2>2, ExecutionAssumption
    <3>2. PICK u \in Visitor : visit[u].pc # "none" /\ held[q] = VisitOwner(u) /\ visit[u].profile = q
      BY <3>1 DEF JobsInv, VisitsSound
    <3>3. CASE u # v
      <4>1. visit'[u] = visit[u]
        BY <1>1, <3>3
      <4> QED BY <3>1, <3>2, <4>1 DEF VisitOwner
    <3>4. CASE u = v
      <4>1. new.pc # "none" /\ new.kind = visit[v].kind /\ new.profile = visit[v].profile
        BY <3>1, <3>2, <3>4
      <4> QED BY <1>1, <3>1, <3>2, <3>4, <4>1 DEF VisitOwner
    <3> QED BY <3>3, <3>4
  <2> QED BY <2>1, <2>2 DEF VisitsSound
<1>4. \A q \in Profile : held'[q] = held[q] \/ held'[q] \notin ExJob
  BY ExecutionAssumption
<1> QED BY <1>1, <1>3, <1>4, VisitMoves

LEMMA VisitTyped ==
  ASSUME JobsInv, NEW v \in Visitor, visit[v].pc # "none"
  PROVE  /\ visit[v].profile \in Profile /\ visit[v] \in VisitRow /\ VisitOwner(v) \in Kind \X Profile
         /\ VisitOwner(v) \in Owners /\ VisitOwner(v) \notin ExJob /\ VisitOwner(v) # Nobody
         /\ held \in [Profile -> Owners] /\ browser \in [Profile -> Owners] /\ Nobody \in Owners
         /\ Nobody \notin ExJob
<1>1. visit[v].profile \in Profile /\ visit[v] \in VisitRow
  BY DEF JobsInv, JobTypes, VisitsSound
<1>2. VisitOwner(v) \in Kind \X Profile
  BY <1>1 DEF VisitRow, VisitOwner
<1> QED BY <1>1, <1>2, ExecutionAssumption DEF Owners, Owner, JobsInv, JobTypes

LEMMA VisitLeaves ==
  ASSUME JobsInv, NEW v \in Visitor, visit[v].pc # "none"
  PROVE  LET new == Released({visit[v].profile}, VisitOwner(v)) IN
         /\ new \in [Profile -> Owners] /\ \A p \in Profile : new[p] \in {held[p], Nobody}
         /\ new[visit[v].profile] # VisitOwner(v)
  BY VisitTyped DEF Released

\* What becomes of the browser of a visited profile.
LEMMA BrowserLeft ==
  ASSUME JobsInv, NEW v \in Visitor, visit[v].pc # "none",
         \/ browser' = [browser EXCEPT ![visit[v].profile] = VisitOwner(v)]
         \/ browser' \in Opens(visit[v].profile, VisitOwner(v))
         \/ \E r \in StopAndConfirm(visit[v].profile) : browser' = r[2]
  PROVE  /\ browser' \in [Profile -> Owners]
         /\ \A p \in Profile : browser'[p] = browser[p] \/ browser'[p] \notin ExJob
<1>1. CASE browser' \in {browser, [browser EXCEPT ![visit[v].profile] = VisitOwner(v)]}
  BY <1>1, VisitTyped
<1>2. CASE \E r \in StopAndConfirm(visit[v].profile) : browser' = r[2]
  BY <1>2, VisitTyped, StopsTyped
<1> QED BY <1>1, <1>2 DEF Opens

LEMMA VisitsKeep ==
  ASSUME JobsInv, NEW v \in Visitor, OpenVisit(v) \/ EndVisit(v) \/ CallClose(v) \/ CloseVisit(v)
  PROVE  JobsInv' /\ CancelStep
<1>1. visit[v].pc # "none" /\ UNCHANGED <<job, row, work, ran, up, deaths>>
  BY DEF OpenVisit, EndVisit, CallClose, CloseVisit, JobsInv, VisitsSound
<1>2. CASE OpenVisit(v)
  <2>1. CASE /\ browser' = [browser EXCEPT ![visit[v].profile] = VisitOwner(v)]
             /\ visit' = [visit EXCEPT ![v].pc = "open"] /\ UNCHANGED held
    <3> DEFINE new == [visit[v] EXCEPT !.pc = "open"]
    <3>1. /\ new \in VisitRow /\ new.pc = "open" /\ new.kind = visit[v].kind
          /\ new.profile = visit[v].profile
      BY <1>1, VisitTyped DEF VisitRow
    <3>2. visit' = [visit EXCEPT ![v] = new]
      BY <2>1
    <3> HIDE DEF new
    <3>3. held' \in [Profile -> Owners] /\ \A p \in Profile : held'[p] \in {held[p], Nobody}
      BY <1>1, <2>1, VisitTyped
    <3>4. /\ browser' \in [Profile -> Owners]
          /\ \A p \in Profile : browser'[p] = browser[p] \/ browser'[p] \notin ExJob
      BY <1>1, <2>1, BrowserLeft
    <3> QED BY <1>1, <3>1, <3>2, <3>3, <3>4, VisitGoes
  <2>2. CASE /\ browser' \in Opens(visit[v].profile, VisitOwner(v))
                             \cup {r[2] : r \in StopAndConfirm(visit[v].profile)}
             /\ visit' = [visit EXCEPT ![v] = NoVisit]
             /\ held' = Released({visit[v].profile}, VisitOwner(v))
    <3>1. /\ browser' \in [Profile -> Owners]
          /\ \A p \in Profile : browser'[p] = browser[p] \/ browser'[p] \notin ExJob
      BY <1>1, <2>2, BrowserLeft
    <3> QED BY <1>1, <2>2, <3>1, VisitLeaves, NoWorkTyped, VisitGoes
  <2> QED BY <1>2, <2>1, <2>2 DEF OpenVisit
<1>3. CASE EndVisit(v)
  <2>1. /\ \E r \in StopAndConfirm(visit[v].profile) : browser' = r[2]
        /\ visit' = [visit EXCEPT ![v] = NoVisit]
        /\ held' = Released({visit[v].profile}, VisitOwner(v))
    BY <1>3 DEF EndVisit
  <2>2. /\ browser' \in [Profile -> Owners]
        /\ \A p \in Profile : browser'[p] = browser[p] \/ browser'[p] \notin ExJob
    BY <1>1, <2>1, BrowserLeft
  <2> QED BY <1>1, <2>1, <2>2, VisitLeaves, NoWorkTyped, VisitGoes
<1>4. CASE CallClose(v)
  <2> DEFINE new == [visit[v] EXCEPT !.closers = visit[v].closers + 1]
  <2>1. /\ visit' = [visit EXCEPT ![v] = new] /\ visit[v].closers < MaxClosers
        /\ UNCHANGED <<held, browser>>
    BY <1>4 DEF CallClose
  <2>2. visit[v].closers + 1 \in 0..MaxClosers
    BY <1>1, <2>1, VisitTyped, ExecutionAssumption DEF VisitRow
  <2>3. /\ new \in VisitRow /\ new.pc = visit[v].pc /\ new.kind = visit[v].kind
        /\ new.profile = visit[v].profile
    BY <1>1, <2>2, VisitTyped DEF VisitRow
  <2> HIDE DEF new
  <2>4. /\ held' \in [Profile -> Owners] /\ browser' \in [Profile -> Owners]
        /\ \A p \in Profile : held'[p] \in {held[p], Nobody}
        /\ \A p \in Profile : browser'[p] = browser[p] \/ browser'[p] \notin ExJob
    BY <1>1, <2>1, VisitTyped
  <2> QED BY <1>1, <2>1, <2>3, <2>4, VisitGoes
<1>5. CASE CloseVisit(v)
  <2> DEFINE new == IF visit[v].closers = 1 THEN NoVisit
                    ELSE [visit[v] EXCEPT !.pc = "closing", !.closers = visit[v].closers - 1]
  <2>1. /\ \E r \in StopAndConfirm(visit[v].profile) : browser' = r[2]
        /\ visit[v].closers > 0 /\ visit' = [visit EXCEPT ![v] = new]
        /\ held' = [held EXCEPT ![visit[v].profile] = Nobody]
    BY <1>5 DEF CloseVisit
  <2>2. visit[v].closers # 1 => visit[v].closers - 1 \in 0..MaxClosers
    BY <1>1, <2>1, VisitTyped, ExecutionAssumption DEF VisitRow
  <2>3. /\ new \in VisitRow
        /\ \/ new.pc = "none" /\ new.closers = 0
           \/ new.pc # "none" /\ new.kind = visit[v].kind /\ new.profile = visit[v].profile
    <3>1. CASE visit[v].closers = 1
      BY <3>1, NoWorkTyped
    <3>2. CASE visit[v].closers # 1
      BY <1>1, <2>2, <3>2, VisitTyped DEF VisitRow
    <3> QED BY <3>1, <3>2
  <2> HIDE DEF new
  <2>4. /\ held' \in [Profile -> Owners] /\ \A p \in Profile : held'[p] \in {held[p], Nobody}
        /\ held'[visit[v].profile] # VisitOwner(v)
    BY <1>1, <2>1, VisitTyped
  <2>5. /\ browser' \in [Profile -> Owners]
        /\ \A p \in Profile : browser'[p] = browser[p] \/ browser'[p] \notin ExJob
    BY <1>1, <2>1, BrowserLeft
  <2> QED BY <1>1, <2>1, <2>3, <2>4, <2>5, VisitGoes
<1> QED BY <1>2, <1>3, <1>4, <1>5

LEMMA JobsStep == JobsInv /\ [JobsNext]_jobVars => JobsInv' /\ CancelStep
<1> SUFFICES ASSUME JobsInv, [JobsNext]_jobVars PROVE JobsInv' /\ CancelStep
  OBVIOUS
<1>1. ASSUME NEW j \in ExJob, JobStep(j) PROVE JobsInv' /\ CancelStep
  BY <1>1, ClaimKeeps, NextBatchKeeps, StartProfileKeeps, StartAnsweredKeeps, ConnectKeeps, ExecutesKeep, CleanProfileKeeps,
     BatchEndsKeeps, RunFailsKeeps, RecoverProfileKeeps, RecoverJobKeeps DEF JobStep
<1>2. ASSUME NEW j \in ExJob,
             \/ CallStartJob(j) \/ StartFails(j) \/ Cancel(j) \/ BatchRaises(j) \/ CleanupRaises(j)
             \/ EndRaises(j) \/ RunIsLost(j) \/ RecoveryFails(j)
             \/ \E ps \in (SUBSET Profile) \ {{}}, n \in BatchSizes : StartJob(j, ps, n)
      PROVE  JobsInv' /\ CancelStep
  <2>1. CASE \E ps \in (SUBSET Profile) \ {{}}, n \in BatchSizes : StartJob(j, ps, n)
    BY <2>1, StartJobKeeps
  <2>2. CASE StartFails(j)
    BY <2>2, StartFailsKeeps
  <2> QED BY <1>2, <2>1, <2>2, CallStartKeeps, CancelKeeps, ExecutesKeep, CleanupRaisesKeeps,
            EndRaisesKeeps, RunIsLostKeeps, RecoveryFailsKeeps
<1>3. ASSUME NEW v \in Visitor,
             \/ \E k \in Kind, p \in Profile : BeginVisit(v, k, p)
             \/ OpenVisit(v) \/ EndVisit(v) \/ CallClose(v) \/ CloseVisit(v)
      PROVE  JobsInv' /\ CancelStep
  BY <1>3, BeginVisitKeeps, VisitsKeep
<1>4. CASE UNCHANGED jobVars
  <2>1. JobTypes' /\ OneActiveJob' /\ VisitsSound'
    BY <1>4 DEF jobVars, JobsInv, JobTypes, OneActiveJob, VisitsSound, VisitOwner
  <2>2. CancelStep
    BY <1>4 DEF jobVars, CancelStep, TerminalJob
  <2> QED BY <1>4, <2>1, <2>2 DEF jobVars, JobsInv
<1> QED BY <1>1, <1>2, <1>3, <1>4, DiesKeeps, StartsKeeps, RecoveredKeeps DEF JobsNext

LEMMA JobsInvariant == JobsSpec => []JobsInv
<1>1. JobsSpec => JobsInit /\ [][JobsNext]_jobVars
  BY DEF JobsSpec
<1> QED BY <1>1, JobsInitInv, JobsStep, PTL

\* The rows of jobs tell the truth about browsers and strategies and profiles are given back
\* (scheduler.py's batches, cleanup and recovery), for any number of jobs, profiles, visits
\* and deaths of the process.
THEOREM JobsHold == JobsSpec => []JobsSafe
BY JobsInvariant, JobsInvSafe, PTL

\* A job whose cancellation is recorded turns to no further profile; the one browser that can
\* still open for it is that of the profile which AdsPower was asked for before; and it never
\* ends as a completion (scheduler.py:145-184).
THEOREM CancellationsHold == JobsSpec => CancelHeeded
<1>1. JobsSpec => [][JobsNext]_jobVars
  BY DEF JobsSpec
<1>2. JobsInv /\ [JobsNext]_jobVars =>
        [\A j \in ExJob : job[j].status \notin TerminalJob /\ job[j].cancel =>
                     /\ work'[j].started \subseteq work[j].started
                     /\ \A p \in Profile : browser[p] # j /\ browser'[p] = j => p \in work[j].opening
                     /\ job'[j].status # "completed"]_<<job, work, browser>>
  BY JobsStep DEF CancelStep
<1> QED BY <1>1, <1>2, JobsInvariant, PTL DEF CancelHeeded

\* A service that is up again after the death of an earlier process leaves none of its jobs
\* active: those that were queued and those that were running are settled before whoever waits
\* for the recovery goes on (scheduler.py:108-144, service.py:887).
THEOREM RecoveriesSettle == JobsSpec => RecoverySettles
<1>1. JobsSpec => [][JobsNext]_jobVars
  BY DEF JobsSpec
<1>2. ASSUME JobsInv, [JobsNext]_jobVars, up = "recovering", up' = "up"
      PROVE  \A j \in ExJob : job'[j].status \notin {"queued", "running"}
  <2>1. Recovered
    BY <1>2 DEF JobsNext, JobStep, jobVars, Claim, NextBatch, StartProfile, StartAnswered, Connect,
       TileAndExecute, Executed, CleanProfile, BatchEnds, RunFails, RecoverProfile, RecoverJob,
       CallStartJob, StartFails, Cancel, BatchRaises, CleanupRaises, EndRaises, RunIsLost,
       RecoveryFails, StartJob, BeginVisit, OpenVisit, EndVisit, CallClose, CloseVisit,
       ServiceDies, ServiceStarts
  <2>2. \A j \in ExJob : Phase(job[j], work[j], up)
    BY <1>2 DEF JobsInv, Sound
  <2> QED BY <1>2, <2>1, <2>2 DEF Recovered, Phase, Active
<1>3. JobsInv /\ [JobsNext]_jobVars =>
        [up = "recovering" /\ up' = "up" =>
           \A j \in ExJob : job'[j].status \notin {"queued", "running"}]_<<job, up>>
  BY <1>2
<1> QED BY <1>1, <1>3, JobsInvariant, PTL DEF RecoverySettles
================================================================================
