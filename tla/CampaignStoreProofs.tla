------------------------- MODULE CampaignStoreProofs -------------------------
(***************************************************************************)
(* What no step of the store can do to a comment, and the safety           *)
(* properties that follow: proved for any plan, any number of accounts and *)
(* any bound.  The argument is the same throughout: the transactions are   *)
(* summarised by a few relations between a row before and after a step     *)
(* (Effect, ApprovalEffect, EntersFrozen), and the invariants are proved *)
(* from the summaries alone.  At the end, the same campaign before its     *)
(* plan is locked (CampaignPlanning).                                      *)
(***************************************************************************)
EXTENDS CampaignPlanning, CampaignStore, FiniteSetTheorems, SequenceTheorems, TLAPS

-------------------------------------------------------------------------------
(* Types. *)

LEMMA MoveTarget ==
  ASSUME NEW s \in AssignmentStatus, NEW t, AssignmentMove(s, t)
  PROVE  t \in AssignmentStatus
BY DEF AssignmentMove, AssignmentTransitions, AssignmentStatus

LEMMA CampaignMoveTarget ==
  ASSUME NEW s \in CampaignStatus, NEW t, CampaignMove(s, t)
  PROVE  t \in CampaignStatus
BY DEF CampaignMove, CampaignTransitions, CampaignStatus

LEMMA BumpedType ==
  /\ \A r \in Row : Bumped(r) \in Row
  /\ \A k \in Campaign : Bumped(k) \in Campaign
BY DEF Bumped, Row, Campaign

LEMMA MovedType ==
  /\ \A r \in Row, s \in AssignmentStatus : Moved(r, s) \in Row
  /\ \A k \in Campaign, s \in CampaignStatus : Moved(k, s) \in Campaign
<1>1. \A r \in Row, s \in AssignmentStatus : [r EXCEPT !.status = s] \in Row
    BY DEF Row
<1>2. \A k \in Campaign, s \in CampaignStatus : [k EXCEPT !.status = s] \in Campaign
    BY DEF Campaign
<1> QED
    BY <1>1, <1>2, BumpedType DEF Moved

LEMMA IdentityType ==
  /\ \A r \in Row, g \in Nat : [r EXCEPT !.identity = g] \in Row
  /\ \A k \in Campaign, g \in Nat : [k EXCEPT !.identity = g] \in Campaign
BY DEF Row, Campaign

LEMMA FieldTypes ==
  ASSUME TypeOK
  PROVE  /\ campaign.identity \in Nat /\ campaign.prepare \in Nat
         /\ campaign.revision \in Nat /\ campaign.status \in CampaignStatus
         /\ \A a \in Assignment :
              /\ row[a] \in Row
              /\ row[a].status \in AssignmentStatus /\ row[a].revision \in Nat \ {0}
              /\ row[a].identity \in Nat /\ row[a].preflight \in Nat
              /\ row[a].account \in Account \cup {NoAccount}
              /\ approval[a].revision \in Nat /\ reserved[a] \in Nat
              /\ receipt[a] \in Receipt
BY DEF TypeOK, Campaign, Row

LEMMA BranchPausedType ==
  ASSUME NEW rows \in [Assignment -> Row], NEW P
  PROVE  BranchPaused(rows, P) \in [Assignment -> Row]
<1> SUFFICES ASSUME NEW d \in Assignment
             PROVE  BranchPaused(rows, P)[d] \in Row
    BY DEF BranchPaused
<1>1. "paused_dependency" \in AssignmentStatus
    BY DEF AssignmentStatus
<1> QED
    BY <1>1, MovedType DEF BranchPaused

LEMMA RowMoveType ==
  ASSUME TypeOK, NEW a \in Assignment, NEW t, AssignmentMove(row[a].status, t)
  PROVE  /\ t \in AssignmentStatus
         /\ [row EXCEPT ![a] = Moved(row[a], t)] \in [Assignment -> Row]
<1>1. row[a] \in Row
    BY DEF TypeOK
<1>2. t \in AssignmentStatus
    BY <1>1, MoveTarget DEF Row
<1>3. Moved(row[a], t) \in Row
    BY <1>1, <1>2, MovedType
<1> QED
    BY <1>2, <1>3 DEF TypeOK

LEMMA UpdateType ==
  ASSUME TypeOK, NEW a \in Assignment, NEW rev, NEW t, UpdateAssignmentStatus(a, rev, t)
  PROVE  TypeOK'
BY RowMoveType DEF TypeOK, UpdateAssignmentStatus

LEMMA FailType ==
  ASSUME TypeOK, NEW a \in Assignment, NEW rev, NEW t,
         FailAssignmentAndPauseDescendants(a, rev, t)
  PROVE  TypeOK'
BY RowMoveType, BranchPausedType DEF TypeOK, FailAssignmentAndPauseDescendants

LEMMA ReconcileType ==
  ASSUME TypeOK, ReconcileCampaignState
  PROVE  TypeOK'
<1> DEFINE first == [a \in Assignment |->
                       IF a \in Interrupted THEN Moved(row[a], "published_unverified") ELSE row[a]]
<1>1. \A r \in Row : /\ Moved(r, "published_unverified") \in Row
                     /\ Moved(r, "waiting_dependency") \in Row
    BY MovedType DEF AssignmentStatus
<1>2. \A r \in Row : [r EXCEPT !.preflight = 0] \in Row
    BY DEF Row
<1>3. first \in [Assignment -> Row]
    BY <1>1, FieldTypes
<1>4. Closed \in [Assignment -> Row]
    BY <1>3, BranchPausedType DEF Closed
<1>5. row' \in [Assignment -> Row]
    BY <1>1, <1>2, <1>4 DEF ReconcileCampaignState, Recovered
<1>6. receipt' \in [Assignment -> Receipt]
    BY FieldTypes DEF ReconcileCampaignState, TypeOK, Receipt
<1>7. \A n \in Nat : [campaign EXCEPT !.prepare = n] \in Campaign
    BY DEF TypeOK, Campaign
<1>8. campaign' \in Campaign
    BY <1>7, FieldTypes DEF ReconcileCampaignState
<1> QED
    BY <1>5, <1>6, <1>8 DEF ReconcileCampaignState, TypeOK

LEMMA TypeStays ==
  ASSUME TypeOK, [Step]_vars
  PROVE  TypeOK'
<1>1. CASE ChangeCampaign
    BY <1>1, MovedType DEF TypeOK, ChangeCampaign, TransitionCampaign, CampaignStatus
<1>2. CASE NextPrepareGeneration
    BY <1>2 DEF TypeOK, NextPrepareGeneration, Campaign
<1>3. CASE \E g \in 1..campaign.prepare : MarkReconcilePrepareGeneration(g)
    BY <1>3, FieldTypes DEF TypeOK, MarkReconcilePrepareGeneration, Campaign
<1>4. CASE FreezeIdentities
  <2>1. PICK obs \in [Active -> Account] :
               FreezeCampaignIdentities(campaign.revision, campaign.identity, obs)
      BY <1>4 DEF FreezeIdentities
  <2>2. campaign' \in Campaign
      BY <2>1, BumpedType, IdentityType DEF FreezeCampaignIdentities, TypeOK, Campaign
  <2>3. row' \in [Assignment -> Row]
      BY <2>1 DEF FreezeCampaignIdentities, TypeOK, Row, Campaign, AssignmentStatus
  <2> QED
      BY <2>1, <2>2, <2>3 DEF FreezeCampaignIdentities, TypeOK
<1>5. CASE InvalidateIdentity
  <2>1. PICK affected : InvalidateCampaignIdentity(campaign.revision, campaign.identity, affected)
      BY <1>5 DEF InvalidateIdentity
  <2>2. campaign' \in Campaign
    <3>1. Moved(campaign, "paused") \in Campaign
        BY MovedType DEF TypeOK, CampaignStatus
    <3> QED
        BY <2>1, <3>1, IdentityType DEF InvalidateCampaignIdentity, TypeOK, Campaign
  <2>3. row' \in [Assignment -> Row]
    <3>1. \A a \in Assignment, s \in {"paused", "paused_dependency"} : Moved(row[a], s) \in Row
        BY MovedType DEF TypeOK, AssignmentStatus
    <3>2. campaign.identity + 1 \in Nat
        BY FieldTypes
    <3>3. \A a \in Assignment, s \in {"paused", "paused_dependency"} :
            [Moved(row[a], s) EXCEPT !.identity = campaign.identity + 1] \in Row
        BY <3>1, <3>2, IdentityType
    <3> QED
        BY <2>1, <3>3 DEF InvalidateCampaignIdentity, TypeOK
  <2> QED
      BY <2>1, <2>2, <2>3 DEF InvalidateCampaignIdentity, TypeOK
<1>6. CASE ReconcileCampaignState
    BY <1>6, ReconcileType
<1>7. ASSUME NEW a \in Assignment,
             OpenProfile(a) \/ LocateVideo(a) \/ LocateParent(a) \/ PrepareComment(a)
             \/ AwaitStepApproval(a) \/ Verify(a)
      PROVE  TypeOK'
    BY <1>7, UpdateType DEF OpenProfile, LocateVideo, LocateParent, PrepareComment,
       AwaitStepApproval, Verify
<1>8. ASSUME NEW a \in Assignment, FailPreparation(a) \/ Reject(a)
      PROVE  TypeOK'
    BY <1>8, FailType DEF FailPreparation, Reject, RejectSubmitAndPauseDescendants
<1>9. ASSUME NEW a \in Assignment,
             ReserveInput(a) \/ Approve(a) \/ Disapprove(a)
      PROVE  TypeOK'
  <2>1. Bumped(row[a]) \in Row /\ row[a].revision \in Nat
      BY BumpedType, FieldTypes
  <2>2. CASE ReserveInput(a)
      BY <2>1, <2>2 DEF TypeOK, ReserveInput, BeginCommentInput
  <2>3. CASE Approve(a)
      BY <2>1, <2>3 DEF TypeOK, Approve, CreateSubmitApproval
  <2>4. CASE Disapprove(a)
      BY <2>1, <2>4 DEF TypeOK, Disapprove, InvalidateSubmitApproval
  <2> QED
      BY <1>9, <2>2, <2>3, <2>4
<1>10. ASSUME NEW a \in Assignment, Submit(a)
       PROVE  TypeOK'
    BY <1>10, MovedType DEF TypeOK, Submit, BeginSubmitting, AssignmentStatus
<1>11. ASSUME NEW a \in Assignment, SaveReceipt(a)
       PROVE  TypeOK'
  <2>1. PICK t \in {"published_verified", "published_unverified"} :
               SaveReceiptAndTransition(a, row[a].revision, t, row[a].account)
      BY <1>11 DEF SaveReceipt
  <2>2. row' \in [Assignment -> Row]
      BY <2>1, RowMoveType, BranchPausedType DEF SaveReceiptAndTransition
  <2>3. receipt' \in [Assignment -> Receipt]
      BY <2>1 DEF SaveReceiptAndTransition, TypeOK, Receipt, Row
  <2> QED
      BY <2>1, <2>2, <2>3 DEF SaveReceiptAndTransition, TypeOK
<1>12. ASSUME NEW a \in Assignment, Resolve(a)
       PROVE  TypeOK'
  <2>1. /\ Moved(row[a], "published_verified") \in Row
        /\ Moved(row[a], "waiting_dependency") \in Row
      BY MovedType DEF TypeOK, AssignmentStatus
  <2>2. \A r \in Receipt, t \in {"published_verified", "published_unverified"} :
           [r EXCEPT !.status = t] \in Receipt
      BY DEF Receipt
  <2>3. CASE ResolvePublished(a, row[a].revision)
      BY <2>1, <2>2, <2>3 DEF TypeOK, ResolvePublished
  <2>4. CASE ResolveNotPublished(a, row[a].revision)
      BY <2>1, <2>2, <2>4 DEF TypeOK, ResolveNotPublished
  <2> QED
      BY <1>12, <2>3, <2>4 DEF Resolve
<1>13. ASSUME NEW a \in Assignment, ResumeVerifiedChildren(a)
       PROVE  TypeOK'
  <2>1. \A d \in Assignment : Moved(row[d], "waiting_dependency") \in Row
      BY MovedType DEF TypeOK, AssignmentStatus
  <2> QED
      BY <1>13, <2>1 DEF TypeOK, ResumeVerifiedChildren
<1>14. CASE UNCHANGED vars
    BY <1>14 DEF TypeOK, vars
<1> QED
    BY <1>1, <1>2, <1>3, <1>4, <1>5, <1>6, <1>7, <1>8, <1>9, <1>10, <1>11, <1>12, <1>13,
       <1>14 DEF Step

\* Every value the store ever holds has the type its column declares.
THEOREM TypeCorrect == Spec => []TypeOK
<1>1. Init => TypeOK
    BY PlanAssumption DEF Init, TypeOK, Row, Campaign, Receipt, CampaignStatus, AssignmentStatus,
       NoReceipt, NoApproval
<1> QED
    BY <1>1, TypeStays, PTL DEF Spec

-------------------------------------------------------------------------------
(* Steps of a comment and its receipt. *)

Published == {"published_verified", "published_unverified"}

\* Every step leaves a comment and its receipt alone, or advances the row by one
\* revision, never from "published_verified".  Only an eligible comment becomes
\* engaged, and only an engaged one becomes published, together with its receipt.
Effect(a) ==
  \/ row'[a] = row[a] /\ receipt'[a] = receipt[a]
  \/ /\ row[a].status # "published_verified"
     /\ row'[a].revision = row[a].revision + 1
     /\ row'[a].status \in Engaged => row[a].status \in Engaged \/ Eligible(a)
     /\ \/ receipt'[a] = receipt[a] /\ row'[a].status \notin Published
        \/ /\ row[a].status \in Engaged \/ receipt[a].status # "none"
           /\ receipt'[a].status # "none"
           /\ row'[a].status = "published_verified" <=> receipt'[a].status = "published_verified"
           /\ row'[a].status = "published_unverified" =>
                receipt'[a].status = "published_unverified"

-------------------------------------------------------------------------------
LEMMA MovedFields ==
  ASSUME NEW r \in Row, NEW s
  PROVE  /\ Moved(r, s).status = s /\ Moved(r, s).revision = r.revision + 1
         /\ Moved(r, s).identity = r.identity /\ Moved(r, s).preflight = r.preflight
         /\ Bumped(r).status = r.status /\ Bumped(r).revision = r.revision + 1
         /\ Bumped(r).identity = r.identity /\ Bumped(r).preflight = r.preflight
BY DEF Moved, Bumped, Row

\* The cascade moves a row that can be paused, and never the comment it starts from.
LEMMA BranchPausedRow ==
  ASSUME NEW rows, NEW P, NEW d \in Assignment
  PROVE  /\ \/ BranchPaused(rows, P)[d] = rows[d]
            \/ /\ rows[d].status \in PausableStatus
               /\ BranchPaused(rows, P)[d] = Moved(rows[d], "paused_dependency")
         /\ P = {d} => BranchPaused(rows, P)[d] = rows[d]
         /\ P = {} => BranchPaused(rows, P)[d] = rows[d]
BY DEF BranchPaused, Descendants

\* The moves of the transition table into an engaged status, and out of a verified one.
LEMMA EngagedMove ==
  ASSUME NEW s \in AssignmentStatus, NEW t, AssignmentMove(s, t)
  PROVE  /\ t \in Engaged => s \in Engaged \/ t = "opening_profile"
         /\ s # "published_verified"
         /\ t \in Published => s \in Engaged
BY DEF AssignmentMove, AssignmentTransitions, AssignmentStatus, Engaged, PreparingStatus, Published

\* A row that is moved, and not published, while every receipt stays.
LEMMA MovedEffect ==
  ASSUME TypeOK, NEW a \in Assignment, NEW t,
         row'[a] = Moved(row[a], t), receipt' = receipt,
         row[a].status # "published_verified", t \notin Published,
         t \in Engaged => row[a].status \in Engaged \/ Eligible(a)
  PROVE  Effect(a)
BY MovedFields, FieldTypes DEF Effect

\* The other comments of a branch that is paused.
LEMMA CascadeEffect ==
  ASSUME TypeOK, NEW rows, NEW P, NEW b \in Assignment, rows[b] = row[b],
         row' = BranchPaused(rows, P), receipt'[b] = receipt[b]
  PROVE  Effect(b)
<1>1. \/ row'[b] = row[b]
      \/ row[b].status \in PausableStatus /\ row'[b] = Moved(row[b], "paused_dependency")
    BY BranchPausedRow
<1>2. CASE row'[b] = row[b]
    BY <1>2 DEF Effect
<1>3. CASE row[b].status \in PausableStatus /\ row'[b] = Moved(row[b], "paused_dependency")
  <2>1. /\ row[b].status # "published_verified"
        /\ "paused_dependency" \notin Published /\ "paused_dependency" \notin Engaged
      BY <1>3 DEF PausableStatus, PreparingStatus, Published, Engaged
  <2> QED
      BY <1>3, <2>1, MovedFields, FieldTypes DEF Effect
<1> QED
    BY <1>1, <1>2, <1>3

LEMMA UpdateEffect ==
  ASSUME TypeOK, NEW a \in Assignment, NEW t,
         UpdateAssignmentStatus(a, row[a].revision, t), t \notin Published,
         t = "opening_profile" => Eligible(a)
  PROVE  \A b \in Assignment : Effect(b)
<1> SUFFICES ASSUME NEW b \in Assignment PROVE Effect(b)
    OBVIOUS
<1>1. CASE b = a
  <2>1. row'[a] = Moved(row[a], t) /\ receipt' = receipt
      BY DEF UpdateAssignmentStatus, TypeOK
  <2>2. /\ t \in Engaged => row[a].status \in Engaged \/ t = "opening_profile"
        /\ row[a].status # "published_verified"
      BY EngagedMove, FieldTypes DEF UpdateAssignmentStatus
  <2> QED
      BY <1>1, <2>1, <2>2, MovedEffect
<1>2. CASE b # a
    BY <1>2 DEF UpdateAssignmentStatus, Effect, TypeOK
<1> QED
    BY <1>1, <1>2

LEMMA FailEffect ==
  ASSUME TypeOK, NEW a \in Assignment, NEW t \in {"failed", "paused"},
         FailAssignmentAndPauseDescendants(a, row[a].revision, t)
  PROVE  \A b \in Assignment : Effect(b)
<1> SUFFICES ASSUME NEW b \in Assignment PROVE Effect(b)
    OBVIOUS
<1> DEFINE rows == [row EXCEPT ![a] = Moved(row[a], t)]
<1>1. row' = BranchPaused(rows, {a}) /\ receipt' = receipt
    BY DEF FailAssignmentAndPauseDescendants
<1>2. CASE b = a
  <2>1. row'[a] = Moved(row[a], t)
    <3>1. rows[a] = Moved(row[a], t)
        BY DEF TypeOK
    <3> HIDE DEF rows
    <3> QED
        BY <1>1, <3>1, BranchPausedRow
  <2>2. row[a].status # "published_verified"
      BY EngagedMove, FieldTypes DEF FailAssignmentAndPauseDescendants
  <2>3. t \notin Published /\ t \notin Engaged
      BY DEF Published, Engaged, PreparingStatus
  <2> QED
      BY <1>1, <1>2, <2>1, <2>2, <2>3, MovedEffect
<1>3. CASE b # a
  <2>1. rows[b] = row[b]
      BY <1>3 DEF TypeOK
  <2> HIDE DEF rows
  <2> QED
      BY <1>1, <2>1, CascadeEffect
<1> QED
    BY <1>2, <1>3

LEMMA FreezeEffect ==
  ASSUME TypeOK, FreezeIdentities
  PROVE  \A b \in Assignment : Effect(b)
<1> SUFFICES ASSUME NEW b \in Assignment PROVE Effect(b)
    OBVIOUS
<1>1. PICK obs : FreezeCampaignIdentities(campaign.revision, campaign.identity, obs)
    BY DEF FreezeIdentities
<1>2. CASE b \in Active
  <2>1. /\ row'[b].revision = row[b].revision + 1
        /\ row'[b].status \in {"planned", "waiting_dependency"}
        /\ receipt' = receipt
      BY <1>1, <1>2 DEF FreezeCampaignIdentities
  <2>2. row[b].status # "published_verified"
      BY <1>2 DEF Active, IdentityTerminal
  <2> QED
      BY <2>1, <2>2 DEF Effect, Engaged, PreparingStatus, Published
<1>3. CASE b \notin Active
    BY <1>1, <1>3 DEF FreezeCampaignIdentities, Effect
<1> QED
    BY <1>2, <1>3

\* The row an invalidation writes, with its fields.
LEMMA InvalidatedRow ==
  ASSUME TypeOK, NEW affected, NEW b \in Active,
         InvalidateCampaignIdentity(campaign.revision, campaign.identity, affected)
  PROVE  /\ row'[b].revision = row[b].revision + 1
         /\ row'[b].status \in {"paused", "paused_dependency"}
<1> DEFINE t == IF b \in affected THEN "paused" ELSE "paused_dependency"
<1>1. b \in Assignment
    BY DEF Active
<1>2. row'[b] = [Moved(row[b], t) EXCEPT !.identity = campaign.identity + 1]
    BY <1>1 DEF InvalidateCampaignIdentity
<1>3. Moved(row[b], t) \in Row /\ row[b] \in Row
  <2>1. t \in AssignmentStatus
      BY DEF AssignmentStatus
  <2> HIDE DEF t
  <2> QED
      BY <1>1, <2>1, MovedType, FieldTypes
<1>4. Moved(row[b], t).revision = row[b].revision + 1 /\ Moved(row[b], t).status = t
    BY <1>3, MovedFields
<1>5. \A r \in Row : \A g : /\ [r EXCEPT !.identity = g].revision = r.revision
                            /\ [r EXCEPT !.identity = g].status = r.status
    BY DEF Row
<1> QED
    BY <1>2, <1>3, <1>4, <1>5

LEMMA InvalidateEffect ==
  ASSUME TypeOK, InvalidateIdentity
  PROVE  \A b \in Assignment : Effect(b)
<1> SUFFICES ASSUME NEW b \in Assignment PROVE Effect(b)
    OBVIOUS
<1>1. PICK affected : InvalidateCampaignIdentity(campaign.revision, campaign.identity, affected)
    BY DEF InvalidateIdentity
<1>2. CASE b \in Active
  <2>1. row[b].status # "published_verified"
      BY <1>2 DEF Active, IdentityTerminal
  <2>2. receipt' = receipt
      BY <1>1 DEF InvalidateCampaignIdentity
  <2> QED
      BY <1>1, <1>2, <2>1, <2>2, InvalidatedRow
      DEF Effect, Engaged, PreparingStatus, Published
<1>3. CASE b \notin Active
    BY <1>1, <1>3 DEF InvalidateCampaignIdentity, Effect
<1> QED
    BY <1>2, <1>3

LEMMA SubmitEffect ==
  ASSUME TypeOK, NEW a \in Assignment, Submit(a) \/ Disapprove(a) \/ ReserveInput(a)
  PROVE  \A b \in Assignment : Effect(b)
<1> SUFFICES ASSUME NEW b \in Assignment PROVE Effect(b)
    OBVIOUS
<1>1. /\ row[a].status \in {"awaiting_step_approval", "preparing_comment"}
      /\ receipt' = receipt
      /\ \E new \in {Moved(row[a], "submitting"), Bumped(row[a])} : row' = [row EXCEPT ![a] = new]
    BY DEF Submit, Disapprove, ReserveInput, BeginSubmitting, InvalidateSubmitApproval,
       BeginCommentInput
<1>2. row[a].status \in Engaged /\ row[a].status \notin Published
    BY <1>1 DEF Engaged, PreparingStatus, Published
<1>3. CASE b = a
  <2>1. row'[a].revision = row[a].revision + 1 /\ row'[a].status \notin Published
      BY <1>1, <1>2, MovedFields, FieldTypes DEF TypeOK, Published
  <2> QED
      BY <1>1, <1>2, <1>3, <2>1 DEF Effect, Published
<1>4. CASE b # a
    BY <1>1, <1>4 DEF Effect, TypeOK
<1> QED
    BY <1>3, <1>4

LEMMA SaveReceiptEffect ==
  ASSUME TypeOK, NEW a \in Assignment, SaveReceipt(a)
  PROVE  \A b \in Assignment : Effect(b)
<1> SUFFICES ASSUME NEW b \in Assignment PROVE Effect(b)
    OBVIOUS
<1>1. PICK t \in Published : SaveReceiptAndTransition(a, row[a].revision, t, row[a].account)
    BY DEF SaveReceipt, Published
<1> DEFINE rows == [row EXCEPT ![a] = Moved(row[a], t)]
           P    == IF t = "published_unverified" THEN {a} ELSE {}
<1>2. /\ row' = BranchPaused(rows, P)
      /\ receipt' = [receipt EXCEPT ![a] = [status |-> t, account |-> row[a].account]]
    BY <1>1 DEF SaveReceiptAndTransition
<1>3. rows[a] = Moved(row[a], t) /\ (b # a => rows[b] = row[b])
    BY DEF TypeOK
<1>4. P = {a} \/ P = {}
    OBVIOUS
<1> HIDE DEF rows, P
<1>5. CASE b = a
  <2>1. row'[a] = Moved(row[a], t)
      BY <1>2, <1>3, <1>4, BranchPausedRow
  <2>2. row'[a].status = t /\ row'[a].revision = row[a].revision + 1
      BY <2>1, MovedFields, FieldTypes
  <2>3. receipt'[a].status = t
      BY <1>2 DEF TypeOK
  <2>4. row[a].status \in Engaged /\ row[a].status # "published_verified"
      BY DEF SaveReceipt, Interrupted, Engaged
  <2> QED
      BY <1>1, <1>5, <2>2, <2>3, <2>4 DEF Effect, Published
<1>6. CASE b # a
  <2>1. receipt'[b] = receipt[b]
      BY <1>2, <1>6 DEF TypeOK
  <2> QED
      BY <1>2, <1>3, <1>6, <2>1, CascadeEffect
<1> QED
    BY <1>5, <1>6

LEMMA ResolveEffect ==
  ASSUME TypeOK, NEW a \in Assignment, Resolve(a)
  PROVE  \A b \in Assignment : Effect(b)
<1> SUFFICES ASSUME NEW b \in Assignment PROVE Effect(b)
    OBVIOUS
<1>1. /\ receipt[a].status # "none" /\ row[a].status # "published_verified"
      /\ \/ /\ row[a].status \in Engaged
            /\ row' = [row EXCEPT ![a] = Moved(row[a], "published_verified")]
            /\ receipt' = [receipt EXCEPT ![a].status = "published_verified"]
         \/ /\ row' = [row EXCEPT ![a] = Moved(row[a], "waiting_dependency")]
            /\ receipt' = [receipt EXCEPT ![a].status = "published_unverified"]
    BY EngagedMove, FieldTypes DEF Resolve, ResolvePublished, ResolveNotPublished, Published
<1>2. CASE b = a
  <2>2. CASE /\ row[a].status \in Engaged
             /\ row' = [row EXCEPT ![a] = Moved(row[a], "published_verified")]
             /\ receipt' = [receipt EXCEPT ![a].status = "published_verified"]
    <3>1. row'[a] = Moved(row[a], "published_verified")
        BY <2>2 DEF TypeOK
    <3>2. row'[a].status = "published_verified" /\ row'[a].revision = row[a].revision + 1
        BY <3>1, MovedFields, FieldTypes
    <3>3. receipt'[a].status = "published_verified"
        BY <2>2 DEF TypeOK, Receipt
    <3> QED
        BY <1>1, <1>2, <3>3, <2>2, <3>2 DEF Effect
  <2>3. CASE /\ row' = [row EXCEPT ![a] = Moved(row[a], "waiting_dependency")]
             /\ receipt' = [receipt EXCEPT ![a].status = "published_unverified"]
    <3>1. row'[a] = Moved(row[a], "waiting_dependency")
        BY <2>3 DEF TypeOK
    <3>2. row'[a].status = "waiting_dependency" /\ row'[a].revision = row[a].revision + 1
        BY <3>1, MovedFields, FieldTypes
    <3>3. receipt'[a].status = "published_unverified"
        BY <2>3 DEF TypeOK, Receipt
    <3> QED
        BY <1>1, <1>2, <3>3, <3>2 DEF Effect, Engaged, PreparingStatus
  <2> QED
      BY <1>1, <2>2, <2>3
<1>3. CASE b # a
    BY <1>1, <1>3 DEF Effect, TypeOK
<1> QED
    BY <1>2, <1>3

LEMMA ResumeEffect ==
  ASSUME TypeOK, NEW p \in Assignment, ResumeVerifiedChildren(p)
  PROVE  \A b \in Assignment : Effect(b)
<1> SUFFICES ASSUME NEW b \in Assignment PROVE Effect(b)
    OBVIOUS
<1>1. CASE b \in ResumableChildren(p)
  <2>1. row'[b] = Moved(row[b], "waiting_dependency") /\ receipt' = receipt
      BY <1>1 DEF ResumeVerifiedChildren
  <2>2. row[b].status # "published_verified"
      BY <1>1 DEF ResumableChildren
  <2>3. "waiting_dependency" \notin Published /\ "waiting_dependency" \notin Engaged
      BY DEF Published, Engaged, PreparingStatus
  <2> QED
      BY <2>1, <2>2, <2>3, MovedEffect
<1>2. CASE b \notin ResumableChildren(p)
    BY <1>2 DEF ResumeVerifiedChildren, Effect
<1> QED
    BY <1>1, <1>2

\* What recovery writes to a row.
LEMMA ReconciledRow ==
  ASSUME TypeOK, NEW b \in Assignment, ReconcileCampaignState
  PROVE  \/ b \in Interrupted /\ row'[b] = Moved(row[b], "published_unverified")
         \/ b \notin Interrupted /\ row'[b] = row[b]
         \/ /\ b \notin Interrupted /\ row[b].status \in PausableStatus
            /\ row'[b] = Moved(row[b], "paused_dependency")
         \/ /\ b \notin Interrupted /\ row[b].status = "awaiting_step_approval"
            /\ row'[b] = [Moved(row[b], "waiting_dependency") EXCEPT !.preflight = 0]
<1> DEFINE first == [a \in Assignment |->
                       IF a \in Interrupted THEN Moved(row[a], "published_unverified") ELSE row[a]]
<1>1. first[b] = IF b \in Interrupted THEN Moved(row[b], "published_unverified") ELSE row[b]
    OBVIOUS
<1>2. Closed = BranchPaused(first, Interrupted)
    BY DEF Closed
<1>3. row'[b] = Recovered[b]
    BY DEF ReconcileCampaignState
<1> HIDE DEF first
<1>4. \/ Closed[b] = first[b]
      \/ first[b].status \in PausableStatus /\ Closed[b] = Moved(first[b], "paused_dependency")
    BY <1>2, BranchPausedRow
<1>5. CASE b \in Interrupted
  <2>1. first[b].status = "published_unverified"
      BY <1>1, <1>5, MovedFields, FieldTypes
  <2>2. Closed[b] = first[b] /\ b \notin SpentApprovals
      BY <1>4, <2>1 DEF PausableStatus, PreparingStatus, SpentApprovals
  <2> QED
      BY <1>1, <1>3, <1>5, <2>2 DEF Recovered
<1>6. CASE b \notin Interrupted /\ Closed[b] = row[b]
    BY <1>3, <1>6 DEF Recovered, SpentApprovals
<1>7. CASE /\ b \notin Interrupted /\ row[b].status \in PausableStatus
           /\ Closed[b] = Moved(row[b], "paused_dependency")
  <2>1. b \notin SpentApprovals
      BY <1>7, MovedFields, FieldTypes DEF SpentApprovals
  <2> QED
      BY <1>3, <1>7, <2>1 DEF Recovered
<1> QED
    BY <1>1, <1>4, <1>5, <1>6, <1>7

LEMMA ReconcileEffect ==
  ASSUME TypeOK, ReconcileCampaignState
  PROVE  \A b \in Assignment : Effect(b)
<1> SUFFICES ASSUME NEW b \in Assignment PROVE Effect(b)
    OBVIOUS
<1>1. receipt'[b] = IF b \in Interrupted
                    THEN [status |-> "published_unverified", account |-> row[b].account]
                    ELSE receipt[b]
    BY DEF ReconcileCampaignState
<1>2. CASE b \in Interrupted
  <2>1. row'[b] = Moved(row[b], "published_unverified")
      BY <1>2, ReconciledRow
  <2>2. row'[b].status = "published_unverified" /\ row'[b].revision = row[b].revision + 1
      BY <2>1, MovedFields, FieldTypes
  <2> QED
      BY <1>1, <1>2, <2>2 DEF Effect, Interrupted, Engaged
<1>3. CASE b \notin Interrupted /\ row'[b] = row[b]
    BY <1>1, <1>3 DEF Effect
<1>4. CASE /\ b \notin Interrupted /\ row[b].status \in PausableStatus
           /\ row'[b] = Moved(row[b], "paused_dependency")
  <2>1. /\ row'[b].status = "paused_dependency" /\ row'[b].revision = row[b].revision + 1
        /\ row[b].status # "published_verified" /\ receipt'[b] = receipt[b]
      BY <1>1, <1>4, MovedFields, FieldTypes DEF PausableStatus, PreparingStatus
  <2> QED
      BY <2>1 DEF Effect, Engaged, PreparingStatus, Published
<1>5. CASE /\ b \notin Interrupted /\ row[b].status = "awaiting_step_approval"
           /\ row'[b] = [Moved(row[b], "waiting_dependency") EXCEPT !.preflight = 0]
  <2> DEFINE moved == Moved(row[b], "waiting_dependency")
  <2>1. moved \in Row /\ moved.status = "waiting_dependency" /\ moved.revision = row[b].revision + 1
      BY MovedType, MovedFields, FieldTypes DEF AssignmentStatus
  <2> HIDE DEF moved
  <2>2. row'[b].status = moved.status /\ row'[b].revision = moved.revision
      BY <1>5, <2>1 DEF moved, Row
  <2> QED
      BY <1>1, <1>5, <2>1, <2>2 DEF Effect, Engaged, PreparingStatus, Published
<1> QED
    BY <1>2, <1>3, <1>4, <1>5, ReconciledRow

LEMMA StepEffect ==
  ASSUME TypeOK, [Step]_vars
  PROVE  \A b \in Assignment : Effect(b)
<1>1. CASE row' = row /\ receipt' = receipt
    BY <1>1 DEF Effect
<1>2. ASSUME \/ ChangeCampaign \/ NextPrepareGeneration
             \/ \E g \in 1..campaign.prepare : MarkReconcilePrepareGeneration(g)
             \/ UNCHANGED vars
      PROVE  row' = row /\ receipt' = receipt
    BY <1>2 DEF ChangeCampaign, TransitionCampaign, NextPrepareGeneration,
       MarkReconcilePrepareGeneration, vars
<1>3. ASSUME NEW a \in Assignment,
             OpenProfile(a) \/ LocateVideo(a) \/ LocateParent(a) \/ PrepareComment(a)
             \/ AwaitStepApproval(a) \/ Verify(a)
      PROVE  \A b \in Assignment : Effect(b)
  <2>1. PICK t : /\ UpdateAssignmentStatus(a, row[a].revision, t)
                 /\ t \in {"opening_profile", "locating_video", "locating_parent",
                           "preparing_comment", "awaiting_step_approval", "verifying_receipt"}
                 /\ t = "opening_profile" => Eligible(a)
      BY <1>3 DEF OpenProfile, LocateVideo, LocateParent, PrepareComment, AwaitStepApproval, Verify
  <2> QED
      BY <2>1, UpdateEffect DEF Published
<1>4. ASSUME NEW a \in Assignment, FailPreparation(a) \/ Reject(a)
      PROVE  \A b \in Assignment : Effect(b)
    BY <1>4, FailEffect DEF FailPreparation, Reject, RejectSubmitAndPauseDescendants
<1>5. ASSUME NEW a \in Assignment, Approve(a)
      PROVE  row' = row /\ receipt' = receipt
    BY <1>5 DEF Approve, CreateSubmitApproval
<1> QED
    BY <1>1, <1>2, <1>3, <1>4, <1>5, FreezeEffect, InvalidateEffect, ReconcileEffect, SubmitEffect,
       SaveReceiptEffect, ResolveEffect, ResumeEffect DEF Step

-------------------------------------------------------------------------------
\* A verified publication is final, whatever the plan and the interleaving of
\* jobs, handlers, recovery and identity changes.
THEOREM VerifiedStaysVerified == Spec => VerifiedIsFinal
<1>1. TypeOK /\ [Step]_vars =>
        \A a \in Assignment : row[a].status = "published_verified" =>
          row'[a] = row[a] /\ receipt'[a] = receipt[a]
    BY StepEffect DEF Effect
<1> QED
    BY <1>1, TypeCorrect, PTL DEF Spec, VerifiedIsFinal

\* A verified parent stays verified through any step.
LEMMA VerifiedParentStays ==
  ASSUME TypeOK, [Step]_vars, NEW a \in Assignment, VerifiedParent(a)
  PROVE  VerifiedParent(a)'
BY StepEffect DEF Effect, VerifiedParent

\* The published status of a row and its durable receipt agree in every reachable
\* state, with any number of comments.
THEOREM ReceiptsAgree == Spec => []ReceiptMatchesStatus
<1>1. Init => ReceiptMatchesStatus
    BY DEF Init, ReceiptMatchesStatus, NoReceipt
<1>2. TypeOK /\ ReceiptMatchesStatus /\ [Step]_vars => ReceiptMatchesStatus'
  <2> SUFFICES ASSUME TypeOK, ReceiptMatchesStatus, [Step]_vars, NEW a \in Assignment
               PROVE  /\ row'[a].status = "published_verified" <=>
                           receipt'[a].status = "published_verified"
                      /\ row'[a].status = "published_unverified" =>
                           receipt'[a].status = "published_unverified"
      BY DEF ReceiptMatchesStatus
  <2>1. Effect(a)
      BY StepEffect
  <2> QED
      BY <2>1 DEF Effect, ReceiptMatchesStatus, Published
<1> QED
    BY <1>1, <1>2, TypeCorrect, PTL DEF Spec

LEMMA RepliesStay ==
  ASSUME TypeOK, ReplyOnlyUnderVerifiedParent, [Step]_vars
  PROVE  ReplyOnlyUnderVerifiedParent'
<1> SUFFICES ASSUME NEW a \in Assignment, Parent[a] # NoParent,
                    row'[a].status \in Engaged \/ receipt'[a].status # "none"
             PROVE  VerifiedParent(a)'
    BY DEF ReplyOnlyUnderVerifiedParent
<1>1. \/ row[a].status \in Engaged \/ receipt[a].status # "none"
      \/ Eligible(a)
    BY StepEffect DEF Effect
<1>2. VerifiedParent(a)
    BY <1>1 DEF ReplyOnlyUnderVerifiedParent, Eligible
<1> QED
    BY <1>2, VerifiedParentStays

\* A reply is worked on or published only under a verified parent, however deep
\* the reply tree is.
THEOREM RepliesFollowParents == Spec => []ReplyOnlyUnderVerifiedParent
<1>1. Init => ReplyOnlyUnderVerifiedParent
    BY DEF Init, ReplyOnlyUnderVerifiedParent, NoReceipt, Engaged, PreparingStatus
<1> QED
    BY <1>1, RepliesStay, TypeCorrect, PTL DEF Spec

-------------------------------------------------------------------------------
(* Approvals.  `ApprovalsFollowTheirRow` is not inductive: a row could be       *)
(* bumped onto the revision of an approval from its future.                    *)
ApprovalsBehind == \A a \in Assignment : approval[a].revision <= row[a].revision

\* An approval is given at the revision of a row that awaits it, or spent
\* together with a move of its row, or belongs to a row that awaits none.
ApprovalEffect(a) ==
  \/ approval'[a] = approval[a]
  \/ /\ approval'[a].revision = row[a].revision /\ ~approval'[a].consumed
     /\ row[a].status = "awaiting_step_approval" /\ row'[a] = row[a]
  \/ /\ approval'[a].revision = approval[a].revision
     /\ \/ row'[a].revision = row[a].revision + 1
        \/ row'[a] = row[a] /\ row[a].status # "awaiting_step_approval"

LEMMA InvalidateApprovals ==
  ASSUME TypeOK, InvalidateIdentity, NEW b \in Assignment
  PROVE  ApprovalEffect(b)
<1>1. PICK affected : InvalidateCampaignIdentity(campaign.revision, campaign.identity, affected)
    BY DEF InvalidateIdentity
<1>2. approval'[b].revision = approval[b].revision
    BY <1>1, FieldTypes DEF InvalidateCampaignIdentity, TypeOK
<1>3. CASE b \in Active
    BY <1>1, <1>2, <1>3, InvalidatedRow DEF ApprovalEffect
<1>4. CASE b \notin Active
    BY <1>1, <1>2, <1>4 DEF InvalidateCampaignIdentity, ApprovalEffect, Active, IdentityTerminal
<1> QED
    BY <1>3, <1>4

LEMMA SpendApproval ==
  ASSUME TypeOK, NEW a \in Assignment, Submit(a) \/ Disapprove(a), NEW b \in Assignment
  PROVE  ApprovalEffect(b)
<1>1. CASE b = a
  <2>1. row'[a].revision = row[a].revision + 1
    <3>1. \E new \in {Moved(row[a], "submitting"), Bumped(row[a])} : row' = [row EXCEPT ![a] = new]
        BY DEF Submit, Disapprove, BeginSubmitting, InvalidateSubmitApproval
    <3> QED
        BY <3>1, MovedFields, FieldTypes DEF TypeOK
  <2>2. approval'[a].revision = approval[a].revision
      BY DEF Submit, Disapprove, BeginSubmitting, InvalidateSubmitApproval, TypeOK
  <2> QED
      BY <1>1, <2>1, <2>2 DEF ApprovalEffect
<1>2. CASE b # a
    BY <1>2 DEF Submit, Disapprove, BeginSubmitting, InvalidateSubmitApproval, TypeOK,
       ApprovalEffect
<1> QED
    BY <1>1, <1>2

LEMMA StepApprovals ==
  ASSUME TypeOK, [Step]_vars, NEW b \in Assignment
  PROVE  ApprovalEffect(b)
<1>1. CASE approval' = approval
    BY <1>1 DEF ApprovalEffect
<1>2. ASSUME \/ ChangeCampaign \/ NextPrepareGeneration \/ FreezeIdentities
             \/ \E g \in 1..campaign.prepare : MarkReconcilePrepareGeneration(g)
             \/ ReconcileCampaignState \/ UNCHANGED vars
      PROVE  approval' = approval
    BY <1>2 DEF ChangeCampaign, TransitionCampaign, NextPrepareGeneration, FreezeIdentities,
       FreezeCampaignIdentities, MarkReconcilePrepareGeneration, ReconcileCampaignState, vars
<1>3. ASSUME NEW a \in Assignment,
             \/ OpenProfile(a) \/ LocateVideo(a) \/ LocateParent(a) \/ PrepareComment(a)
             \/ AwaitStepApproval(a) \/ Verify(a) \/ FailPreparation(a) \/ Reject(a)
      PROVE  approval' = approval
    BY <1>3 DEF OpenProfile, LocateVideo, LocateParent, PrepareComment, AwaitStepApproval, Verify,
       UpdateAssignmentStatus, FailPreparation, Reject, RejectSubmitAndPauseDescendants,
       FailAssignmentAndPauseDescendants
<1>4. ASSUME NEW a \in Assignment,
             \/ ReserveInput(a) \/ SaveReceipt(a) \/ Resolve(a) \/ ResumeVerifiedChildren(a)
      PROVE  approval' = approval
    BY <1>4 DEF ReserveInput, BeginCommentInput, SaveReceipt, SaveReceiptAndTransition, Resolve,
       ResolvePublished, ResolveNotPublished, ResumeVerifiedChildren
<1>5. ASSUME NEW a \in Assignment, Approve(a)
      PROVE  ApprovalEffect(b)
    BY <1>5 DEF Approve, CreateSubmitApproval, ApprovalEffect, TypeOK
<1> QED
    BY <1>1, <1>2, <1>3, <1>4, <1>5, InvalidateApprovals, SpendApproval DEF Step

\* An approval at the current revision of a row belongs to a row that awaits it and
\* is not spent, so no approval ever outlives what the operator approved.
THEOREM ApprovalsAreCurrent == Spec => []ApprovalsFollowTheirRow
<1>1. Init => ApprovalsBehind /\ ApprovalsFollowTheirRow
    BY DEF Init, ApprovalsBehind, ApprovalsFollowTheirRow, NoApproval
<1>2. TypeOK /\ ApprovalsBehind /\ ApprovalsFollowTheirRow /\ [Step]_vars =>
        ApprovalsBehind' /\ ApprovalsFollowTheirRow'
  <2> SUFFICES ASSUME TypeOK, ApprovalsBehind, ApprovalsFollowTheirRow, [Step]_vars,
                      NEW a \in Assignment
               PROVE  /\ approval'[a].revision <= row'[a].revision
                      /\ approval'[a].revision = row'[a].revision =>
                           row'[a].status = "awaiting_step_approval" /\ ~approval'[a].consumed
      BY DEF ApprovalsBehind, ApprovalsFollowTheirRow
  <2>1. /\ approval[a].revision \in Nat /\ row[a].revision \in Nat
        /\ approval[a].revision <= row[a].revision
        /\ approval[a].revision = row[a].revision =>
             row[a].status = "awaiting_step_approval" /\ ~approval[a].consumed
      BY FieldTypes DEF ApprovalsBehind, ApprovalsFollowTheirRow
  <2>2. row'[a] = row[a] \/ row'[a].revision = row[a].revision + 1
      BY StepEffect DEF Effect
  <2>3. CASE approval'[a] = approval[a]
      BY <2>1, <2>2, <2>3
  <2>4. CASE /\ approval'[a].revision = row[a].revision /\ ~approval'[a].consumed
             /\ row[a].status = "awaiting_step_approval" /\ row'[a] = row[a]
      BY <2>1, <2>4
  <2>5. CASE /\ approval'[a].revision = approval[a].revision
             /\ \/ row'[a].revision = row[a].revision + 1
                \/ row'[a] = row[a] /\ row[a].status # "awaiting_step_approval"
      BY <2>1, <2>5
  <2> QED
      BY <2>3, <2>4, <2>5, StepApprovals DEF ApprovalEffect
<1> QED
    BY <1>1, <1>2, TypeCorrect, PTL DEF Spec

-------------------------------------------------------------------------------
(* Identity generations.  What makes `SubmitUsesFrozenIdentity` inductive is    *)
(* the reservation of begin_comment_input: a row that still has the revision    *)
(* its input reserved is still bound to the current generation.                *)
ReservationsCurrent ==
  \A a \in Assignment :
    /\ reserved[a] <= row[a].revision
    /\ reserved[a] = row[a].revision => row[a].status = "preparing_comment" /\ Bound(a)

Frozen == {"awaiting_step_approval", "submitting", "verifying_receipt"}

\* Nothing enters a frozen status but a bound or a reserved row, and it keeps its
\* identity and its campaign's generation as it does.
EntersFrozen(a) ==
  row'[a] # row[a] /\ row'[a].status \in Frozen =>
    /\ campaign'.identity = campaign.identity
    /\ row'[a].identity = row[a].identity /\ row'[a].preflight = row[a].preflight
    /\ row[a].status \in Frozen \/ reserved[a] = row[a].revision

LEMMA CascadeNeverFreezes ==
  ASSUME TypeOK, NEW rows, NEW P, NEW b \in Assignment, rows[b] = row[b],
         row' = BranchPaused(rows, P)
  PROVE  EntersFrozen(b)
<1>1. row'[b] = row[b] \/ row'[b] = Moved(row[b], "paused_dependency")
    BY BranchPausedRow
<1>2. Moved(row[b], "paused_dependency").status = "paused_dependency"
    BY MovedFields, FieldTypes
<1> QED
    BY <1>1, <1>2 DEF EntersFrozen, Frozen

LEMMA UpdateFreezes ==
  ASSUME TypeOK, NEW a \in Assignment, NEW b \in Assignment,
         \/ OpenProfile(a) \/ LocateVideo(a) \/ LocateParent(a) \/ PrepareComment(a)
         \/ AwaitStepApproval(a) \/ Verify(a)
  PROVE  EntersFrozen(b)
<1>1. PICK t : /\ UpdateAssignmentStatus(a, row[a].revision, t)
               /\ t \in Frozen => t = "verifying_receipt" \/ reserved[a] = row[a].revision
    BY DEF OpenProfile, LocateVideo, LocateParent, PrepareComment, AwaitStepApproval, Verify, Frozen
<1>2. CASE b = a
  <2>1. row'[a] = Moved(row[a], t) /\ campaign' = campaign
      BY <1>1 DEF UpdateAssignmentStatus, TypeOK
  <2>2. t = "verifying_receipt" => row[a].status = "submitting"
      BY <1>1, FieldTypes DEF UpdateAssignmentStatus, AssignmentMove, AssignmentTransitions,
         AssignmentStatus
  <2> QED
      BY <1>1, <1>2, <2>1, <2>2, MovedFields, FieldTypes DEF EntersFrozen, Frozen
<1>3. CASE b # a
    BY <1>1, <1>3 DEF UpdateAssignmentStatus, TypeOK, EntersFrozen
<1> QED
    BY <1>2, <1>3

LEMMA FailNeverFreezes ==
  ASSUME TypeOK, NEW a \in Assignment, NEW b \in Assignment, FailPreparation(a) \/ Reject(a)
  PROVE  EntersFrozen(b)
<1>1. PICK t \in {"failed", "paused"} :
             FailAssignmentAndPauseDescendants(a, row[a].revision, t)
    BY DEF FailPreparation, Reject, RejectSubmitAndPauseDescendants
<1> DEFINE rows == [row EXCEPT ![a] = Moved(row[a], t)]
<1>2. row' = BranchPaused(rows, {a})
    BY <1>1 DEF FailAssignmentAndPauseDescendants
<1>3. rows[a] = Moved(row[a], t) /\ (b # a => rows[b] = row[b])
    BY DEF TypeOK
<1> HIDE DEF rows
<1>4. CASE b = a
  <2>1. row'[a].status = t
      BY <1>2, <1>3, BranchPausedRow, MovedFields, FieldTypes
  <2> QED
      BY <1>4, <2>1 DEF EntersFrozen, Frozen
<1>5. CASE b # a
    BY <1>2, <1>3, <1>5, CascadeNeverFreezes
<1> QED
    BY <1>4, <1>5

LEMMA SaveNeverFreezes ==
  ASSUME TypeOK, NEW a \in Assignment, NEW b \in Assignment, SaveReceipt(a)
  PROVE  EntersFrozen(b)
<1>1. PICK t \in Published : SaveReceiptAndTransition(a, row[a].revision, t, row[a].account)
    BY DEF SaveReceipt, Published
<1> DEFINE rows == [row EXCEPT ![a] = Moved(row[a], t)]
           P    == IF t = "published_unverified" THEN {a} ELSE {}
<1>2. row' = BranchPaused(rows, P)
    BY <1>1 DEF SaveReceiptAndTransition
<1>3. rows[a] = Moved(row[a], t) /\ (b # a => rows[b] = row[b])
    BY DEF TypeOK
<1>4. P = {a} \/ P = {}
    OBVIOUS
<1> HIDE DEF rows, P
<1>5. CASE b = a
  <2>1. row'[a].status = t
      BY <1>2, <1>3, <1>4, BranchPausedRow, MovedFields, FieldTypes
  <2> QED
      BY <1>5, <2>1 DEF EntersFrozen, Frozen, Published
<1>6. CASE b # a
    BY <1>2, <1>3, <1>6, CascadeNeverFreezes
<1> QED
    BY <1>5, <1>6

LEMMA SubmitFreezes ==
  ASSUME TypeOK, NEW a \in Assignment, NEW b \in Assignment,
         Submit(a) \/ Disapprove(a) \/ ReserveInput(a)
  PROVE  EntersFrozen(b)
<1>1. /\ campaign' = campaign
      /\ \/ /\ row[a].status \in Frozen
            /\ \E new \in {Moved(row[a], "submitting"), Bumped(row[a])} :
                 row' = [row EXCEPT ![a] = new]
         \/ /\ row[a].status = "preparing_comment"
            /\ row' = [row EXCEPT ![a] = Bumped(row[a])]
    BY DEF Submit, Disapprove, ReserveInput, BeginSubmitting, InvalidateSubmitApproval,
       BeginCommentInput, Frozen
<1>2. CASE b = a
  <2>1. \/ row[a].status \in Frozen /\ row'[a] \in {Moved(row[a], "submitting"), Bumped(row[a])}
        \/ row[a].status = "preparing_comment" /\ row'[a] = Bumped(row[a])
      BY <1>1 DEF TypeOK
  <2> QED
      BY <1>1, <1>2, <2>1, MovedFields, FieldTypes DEF EntersFrozen, Frozen
<1>3. CASE b # a
    BY <1>1, <1>3 DEF EntersFrozen, TypeOK
<1> QED
    BY <1>2, <1>3

LEMMA OthersNeverFreeze ==
  ASSUME TypeOK, NEW a \in Assignment, NEW b \in Assignment,
         Resolve(a) \/ ResumeVerifiedChildren(a)
  PROVE  EntersFrozen(b)
<1>1. row'[b] = row[b] \/ \E t \in {"published_verified", "waiting_dependency"} :
                            row'[b] = Moved(row[b], t)
    BY DEF Resolve, ResolvePublished, ResolveNotPublished, ResumeVerifiedChildren, TypeOK
<1> QED
    BY <1>1, MovedFields, FieldTypes DEF EntersFrozen, Frozen

LEMMA ReconcileNeverFreezes ==
  ASSUME TypeOK, ReconcileCampaignState, NEW b \in Assignment
  PROVE  EntersFrozen(b)
<1>1. \A t : Moved(row[b], t).status = t
    BY MovedFields, FieldTypes
<1>2. Moved(row[b], "waiting_dependency") \in Row
    BY MovedType, FieldTypes DEF AssignmentStatus
<1>3. [Moved(row[b], "waiting_dependency") EXCEPT !.preflight = 0].status =
        Moved(row[b], "waiting_dependency").status
    BY <1>2 DEF Row
<1>4. \/ row'[b] = row[b] \/ row'[b] = [Moved(row[b], "waiting_dependency") EXCEPT !.preflight = 0]
      \/ \E t \in {"published_unverified", "paused_dependency"} : row'[b] = Moved(row[b], t)
    BY ReconciledRow
<1>5. CASE \E t \in {"published_unverified", "paused_dependency"} : row'[b] = Moved(row[b], t)
    BY <1>1, <1>5 DEF EntersFrozen, Frozen
<1>6. CASE row'[b] = [Moved(row[b], "waiting_dependency") EXCEPT !.preflight = 0]
    BY <1>1, <1>3, <1>6 DEF EntersFrozen, Frozen
<1> QED
    BY <1>4, <1>5, <1>6 DEF EntersFrozen

LEMMA IdentityChangeNeverFreezes ==
  ASSUME TypeOK, NEW b \in Assignment, FreezeIdentities \/ InvalidateIdentity
  PROVE  /\ EntersFrozen(b)
         /\ b \in Active => row'[b].revision = row[b].revision + 1 /\ row'[b].status \notin Frozen
<1>1. CASE FreezeIdentities
    BY <1>1 DEF FreezeIdentities, FreezeCampaignIdentities, EntersFrozen, Frozen
<1>2. CASE InvalidateIdentity
  <2>1. PICK affected : InvalidateCampaignIdentity(campaign.revision, campaign.identity, affected)
      BY <1>2 DEF InvalidateIdentity
  <2>2. CASE b \in Active
      BY <2>1, <2>2, InvalidatedRow DEF EntersFrozen, Frozen
  <2>3. CASE b \notin Active
      BY <2>1, <2>3 DEF InvalidateCampaignIdentity, EntersFrozen
  <2> QED
      BY <2>2, <2>3
<1> QED
    BY <1>1, <1>2

LEMMA StepFreezes ==
  ASSUME TypeOK, [Step]_vars, NEW b \in Assignment
  PROVE  EntersFrozen(b)
<1>1. CASE row' = row
    BY <1>1 DEF EntersFrozen
<1>2. ASSUME \/ ChangeCampaign \/ NextPrepareGeneration \/ UNCHANGED vars
             \/ \E g \in 1..campaign.prepare : MarkReconcilePrepareGeneration(g)
             \/ \E a \in Assignment : Approve(a)
      PROVE  row' = row
    BY <1>2 DEF ChangeCampaign, TransitionCampaign, NextPrepareGeneration, vars,
       MarkReconcilePrepareGeneration, Approve, CreateSubmitApproval
<1> QED
    BY <1>1, <1>2, UpdateFreezes, FailNeverFreezes, SaveNeverFreezes, SubmitFreezes,
       OthersNeverFreeze, ReconcileNeverFreezes, IdentityChangeNeverFreezes DEF Step

\* The reservation of a row moves only when its input is reserved.
LEMMA StepReserves ==
  ASSUME TypeOK, [Step]_vars, NEW b \in Assignment
  PROVE  \/ reserved'[b] = reserved[b]
         \/ /\ reserved'[b] = row'[b].revision /\ row'[b].status = "preparing_comment"
            /\ Bound(b)'
<1>1. CASE reserved' = reserved
    BY <1>1
<1>2. ASSUME NEW a \in Assignment, ReserveInput(a)
      PROVE  \/ reserved'[b] = reserved[b]
             \/ /\ reserved'[b] = row'[b].revision /\ row'[b].status = "preparing_comment"
                /\ Bound(b)'
  <2>1. CASE b = a
    <3>1. /\ row'[a] = Bumped(row[a]) /\ row[a].status = "preparing_comment" /\ Bound(a)
          /\ reserved'[a] = row[a].revision + 1 /\ campaign' = campaign
        BY <1>2 DEF ReserveInput, BeginCommentInput, IdentityCurrent, TypeOK
    <3> QED
        BY <2>1, <3>1, MovedFields, FieldTypes DEF Bound
  <2>2. CASE b # a
      BY <1>2, <2>2 DEF ReserveInput, BeginCommentInput, TypeOK
  <2> QED
      BY <2>1, <2>2
<1>3. ASSUME \/ ChangeCampaign \/ NextPrepareGeneration \/ UNCHANGED vars
             \/ \E g \in 1..campaign.prepare : MarkReconcilePrepareGeneration(g)
             \/ FreezeIdentities \/ InvalidateIdentity \/ ReconcileCampaignState
      PROVE  reserved' = reserved
    BY <1>3 DEF ChangeCampaign, TransitionCampaign, NextPrepareGeneration, vars,
       MarkReconcilePrepareGeneration, FreezeIdentities, FreezeCampaignIdentities,
       InvalidateIdentity, InvalidateCampaignIdentity, ReconcileCampaignState
<1>4. ASSUME NEW a \in Assignment,
             \/ OpenProfile(a) \/ LocateVideo(a) \/ LocateParent(a) \/ PrepareComment(a)
             \/ AwaitStepApproval(a) \/ Verify(a) \/ FailPreparation(a) \/ Reject(a)
      PROVE  reserved' = reserved
    BY <1>4 DEF OpenProfile, LocateVideo, LocateParent, PrepareComment, AwaitStepApproval, Verify,
       UpdateAssignmentStatus, FailPreparation, Reject, RejectSubmitAndPauseDescendants,
       FailAssignmentAndPauseDescendants
<1>5. ASSUME NEW a \in Assignment,
             \/ Approve(a) \/ Submit(a) \/ Disapprove(a)
             \/ SaveReceipt(a) \/ Resolve(a) \/ ResumeVerifiedChildren(a)
      PROVE  reserved' = reserved
    BY <1>5 DEF Approve, CreateSubmitApproval, Submit, BeginSubmitting, Disapprove,
       InvalidateSubmitApproval, SaveReceipt, SaveReceiptAndTransition, Resolve,
       ResolvePublished, ResolveNotPublished, ResumeVerifiedChildren
<1> QED
    BY <1>1, <1>2, <1>3, <1>4, <1>5 DEF Step

\* The identity generation only moves together with every active row.
LEMMA StepIdentity ==
  ASSUME TypeOK, [Step]_vars
  PROVE  \/ campaign'.identity = campaign.identity
         \/ FreezeIdentities \/ InvalidateIdentity
<1>1. ASSUME ChangeCampaign
      PROVE  campaign'.identity = campaign.identity
  <2>1. PICK t : campaign' = Moved(campaign, t)
      BY <1>1 DEF ChangeCampaign, TransitionCampaign
  <2> QED
      BY <2>1 DEF Moved, Bumped, TypeOK, Campaign
<1>2. ASSUME \/ NextPrepareGeneration \/ ReconcileCampaignState \/ UNCHANGED vars
             \/ \E g \in 1..campaign.prepare : MarkReconcilePrepareGeneration(g)
      PROVE  campaign'.identity = campaign.identity
    BY <1>2 DEF NextPrepareGeneration, ReconcileCampaignState, vars,
       MarkReconcilePrepareGeneration, TypeOK, Campaign
<1>3. ASSUME NEW a \in Assignment,
             \/ OpenProfile(a) \/ LocateVideo(a) \/ LocateParent(a) \/ PrepareComment(a)
             \/ AwaitStepApproval(a) \/ Verify(a) \/ FailPreparation(a) \/ Reject(a)
      PROVE  campaign' = campaign
    BY <1>3 DEF OpenProfile, LocateVideo, LocateParent, PrepareComment, AwaitStepApproval, Verify,
       UpdateAssignmentStatus, FailPreparation, Reject, RejectSubmitAndPauseDescendants,
       FailAssignmentAndPauseDescendants
<1>4. ASSUME NEW a \in Assignment,
             \/ ReserveInput(a) \/ Approve(a) \/ Submit(a) \/ Disapprove(a)
             \/ SaveReceipt(a) \/ Resolve(a) \/ ResumeVerifiedChildren(a)
      PROVE  campaign' = campaign
    BY <1>4 DEF ReserveInput, BeginCommentInput, Approve, CreateSubmitApproval, Submit,
       BeginSubmitting, Disapprove, InvalidateSubmitApproval, SaveReceipt,
       SaveReceiptAndTransition, Resolve, ResolvePublished, ResolveNotPublished,
       ResumeVerifiedChildren
<1> QED
    BY <1>1, <1>2, <1>3, <1>4 DEF Step

\* What awaits approval or is being clicked is bound to the current identity
\* generation of its campaign, for any plan and any number of freezes.
THEOREM SubmissionsAreBound == Spec => []SubmitUsesFrozenIdentity
<1>1. Init => ReservationsCurrent /\ SubmitUsesFrozenIdentity
    BY DEF Init, ReservationsCurrent, SubmitUsesFrozenIdentity
<1>2. TypeOK /\ ReservationsCurrent /\ SubmitUsesFrozenIdentity /\ [Step]_vars =>
        ReservationsCurrent' /\ SubmitUsesFrozenIdentity'
  <2> SUFFICES ASSUME TypeOK, ReservationsCurrent, SubmitUsesFrozenIdentity, [Step]_vars,
                      NEW a \in Assignment
               PROVE  /\ reserved'[a] <= row'[a].revision
                      /\ reserved'[a] = row'[a].revision =>
                           row'[a].status = "preparing_comment" /\ Bound(a)'
                      /\ row'[a].status \in Frozen => Bound(a)'
      BY DEF ReservationsCurrent, SubmitUsesFrozenIdentity, Frozen
  <2>1. /\ reserved[a] \in Nat /\ row[a].revision \in Nat
        /\ reserved[a] <= row[a].revision
        /\ reserved[a] = row[a].revision => row[a].status = "preparing_comment" /\ Bound(a)
        /\ row[a].status \in Frozen => Bound(a)
      BY FieldTypes DEF ReservationsCurrent, SubmitUsesFrozenIdentity, Frozen
  <2>2. row'[a] = row[a] \/ row'[a].revision = row[a].revision + 1
      BY StepEffect DEF Effect
  <2>3. CASE row'[a] = row[a] /\ campaign'.identity = campaign.identity
      BY <2>1, <2>3, StepReserves DEF Bound
  <2>4. CASE row'[a] = row[a] /\ campaign'.identity # campaign.identity
    <3>1. a \notin Active
      <4>1. a \in Active => row'[a].revision = row[a].revision + 1
          BY <2>4, StepIdentity, IdentityChangeNeverFreezes
      <4> QED
          BY <2>1, <2>4, <4>1
    <3>2. row[a].status \notin Frozen /\ row[a].status # "preparing_comment"
        BY <3>1 DEF Active, IdentityTerminal, Frozen
    <3> QED
        BY <2>1, <2>4, <3>2, StepReserves DEF Frozen
  <2>5. CASE row'[a] # row[a]
    <3>1. row'[a].revision = row[a].revision + 1
        BY <2>2, <2>5
    <3>2. row'[a].status \in Frozen => Bound(a)'
        BY <2>1, <2>5, StepFreezes DEF EntersFrozen, Bound
    <3> QED
        BY <2>1, <3>1, <3>2, StepReserves
  <2> QED
      BY <2>3, <2>4, <2>5
<1> QED
    BY <1>1, <1>2, TypeCorrect, PTL DEF Spec
-------------------------------------------------------------------------------
(* Publishing accounts.  A comment uses an account while its receipt names it   *)
(* or while it may still be clicked with it: the accounts in use are those a    *)
(* freeze has to keep apart, and no other step gives an account to anybody.     *)
Uses(a, x) ==
  \/ receipt[a].status # "none" /\ receipt[a].account = x
  \/ a \in Active /\ Bound(a) /\ row[a].account = x

OneUser ==
  \A a, b \in Assignment : \A x \in Account \cup {NoAccount} : Uses(a, x) /\ Uses(b, x) => a = b

\* An uncertain click was made with the account its row was frozen with; an operator's
\* verdict may make the row active again, with that account.
UncertainIsOwn ==
  \A a \in Assignment :
    row[a].status = "published_unverified" => receipt[a].account = row[a].account

\* No row was observed in a generation still to come.
ObservedBefore == \A a \in Assignment : row[a].preflight <= campaign.identity

\* A row keeps its account, generation and observation, or forgets the observation.
KeepsIdentity(b) ==
  /\ row'[b].account = row[b].account /\ row'[b].identity = row[b].identity
  /\ row'[b].preflight \in {row[b].preflight, 0}

\* Only an uncertain comment becomes active again, and only a click that was interrupted,
\* or answered, writes the account of a receipt.
KeepsAccount(b) ==
  /\ KeepsIdentity(b)
  /\ b \in Active' => b \in Active \/ row[b].status = "published_unverified"
  /\ \/ /\ receipt'[b].account = receipt[b].account
        /\ receipt'[b].status # "none" => receipt[b].status # "none"
        /\ row'[b].status = "published_unverified" => row[b].status = "published_unverified"
     \/ /\ b \in Interrupted /\ row'[b].status \in Published
        /\ receipt'[b].account = row[b].account

LEMMA MovedKeeps ==
  ASSUME NEW r \in Row
  PROVE  /\ \A s : /\ Moved(r, s).account = r.account /\ Moved(r, s).identity = r.identity
                   /\ Moved(r, s).preflight = r.preflight /\ Moved(r, s).status = s
         /\ Bumped(r).account = r.account /\ Bumped(r).identity = r.identity
         /\ Bumped(r).preflight = r.preflight /\ Bumped(r).status = r.status
BY DEF Moved, Bumped, Row

LEMMA SameKeeps ==
  ASSUME TypeOK, NEW b \in Assignment, row'[b] = row[b], receipt'[b] = receipt[b]
  PROVE  KeepsAccount(b)
BY DEF KeepsAccount, KeepsIdentity, Active

\* A row that is moved, not to an uncertain publication and not back from a final status.
LEMMA MoveKeeps ==
  ASSUME TypeOK, NEW b \in Assignment, NEW t,
         row'[b] = Moved(row[b], t), receipt'[b] = receipt[b], t # "published_unverified",
         row[b].status \notin {"published_verified", "failed", "cancelled"}
  PROVE  KeepsAccount(b)
<1>1. /\ row'[b].account = row[b].account /\ row'[b].identity = row[b].identity
      /\ row'[b].preflight = row[b].preflight /\ row'[b].status = t
    BY MovedKeeps, FieldTypes
<1> QED
    BY <1>1 DEF KeepsAccount, KeepsIdentity, Active, IdentityTerminal

\* The moves of the transition table leave no final status.
LEMMA FinalStatus ==
  ASSUME NEW s \in AssignmentStatus, NEW t, AssignmentMove(s, t)
  PROVE  s \notin {"published_verified", "failed", "cancelled"}
BY DEF AssignmentMove, AssignmentTransitions, AssignmentStatus

LEMMA CascadeKeeps ==
  ASSUME TypeOK, NEW rows, NEW P, NEW b \in Assignment, rows[b] = row[b],
         row' = BranchPaused(rows, P), receipt'[b] = receipt[b]
  PROVE  KeepsAccount(b)
<1>1. \/ row'[b] = row[b]
      \/ row[b].status \in PausableStatus /\ row'[b] = Moved(row[b], "paused_dependency")
    BY BranchPausedRow
<1>2. row[b].status \in PausableStatus =>
        row[b].status \notin {"published_verified", "failed", "cancelled"}
    BY DEF PausableStatus, PreparingStatus
<1> QED
    BY <1>1, <1>2, SameKeeps, MoveKeeps

LEMMA UpdateKeeps ==
  ASSUME TypeOK, NEW a \in Assignment, NEW t, t # "published_unverified",
         UpdateAssignmentStatus(a, row[a].revision, t), NEW b \in Assignment
  PROVE  KeepsAccount(b)
<1>1. CASE b = a
  <2>1. row'[a] = Moved(row[a], t) /\ receipt'[a] = receipt[a]
      BY DEF UpdateAssignmentStatus, TypeOK
  <2>2. row[a].status \notin {"published_verified", "failed", "cancelled"}
      BY FinalStatus, FieldTypes DEF UpdateAssignmentStatus
  <2> QED
      BY <1>1, <2>1, <2>2, MoveKeeps
<1>2. CASE b # a
    BY <1>2, SameKeeps DEF UpdateAssignmentStatus, TypeOK
<1> QED
    BY <1>1, <1>2

LEMMA FailKeeps ==
  ASSUME TypeOK, NEW a \in Assignment, NEW t \in {"failed", "paused"},
         FailAssignmentAndPauseDescendants(a, row[a].revision, t), NEW b \in Assignment
  PROVE  KeepsAccount(b)
<1> DEFINE rows == [row EXCEPT ![a] = Moved(row[a], t)]
<1>1. row' = BranchPaused(rows, {a}) /\ receipt' = receipt
    BY DEF FailAssignmentAndPauseDescendants
<1>2. rows[a] = Moved(row[a], t) /\ (b # a => rows[b] = row[b])
    BY DEF TypeOK
<1> HIDE DEF rows
<1>3. CASE b = a
  <2>1. row'[a] = Moved(row[a], t)
      BY <1>1, <1>2, BranchPausedRow
  <2>2. row[a].status \notin {"published_verified", "failed", "cancelled"}
      BY FinalStatus, FieldTypes DEF FailAssignmentAndPauseDescendants
  <2> QED
      BY <1>1, <1>3, <2>1, <2>2, MoveKeeps
<1>4. CASE b # a
    BY <1>1, <1>2, <1>4, CascadeKeeps
<1> QED
    BY <1>3, <1>4

LEMMA SubmitKeeps ==
  ASSUME TypeOK, NEW a \in Assignment, Submit(a) \/ Disapprove(a) \/ ReserveInput(a),
         NEW b \in Assignment
  PROVE  KeepsAccount(b)
<1>1. /\ row[a].status \in {"awaiting_step_approval", "preparing_comment"}
      /\ receipt' = receipt
      /\ \E new \in {Moved(row[a], "submitting"), Bumped(row[a])} : row' = [row EXCEPT ![a] = new]
    BY DEF Submit, Disapprove, ReserveInput, BeginSubmitting, InvalidateSubmitApproval,
       BeginCommentInput
<1>2. CASE b = a
  <2>1. row'[a] \in {Moved(row[a], "submitting"), Bumped(row[a])}
      BY <1>1 DEF TypeOK
  <2>2. /\ KeepsIdentity(a) /\ row[a].status \notin IdentityTerminal
        /\ row'[a].status # "published_unverified"
      BY <1>1, <2>1, MovedKeeps, FieldTypes DEF KeepsIdentity, IdentityTerminal
  <2> QED
      BY <1>1, <1>2, <2>2 DEF KeepsAccount, Active
<1>3. CASE b # a
    BY <1>1, <1>3, SameKeeps DEF TypeOK
<1> QED
    BY <1>2, <1>3

LEMMA SaveKeeps ==
  ASSUME TypeOK, NEW a \in Assignment, SaveReceipt(a), NEW b \in Assignment
  PROVE  KeepsAccount(b)
<1>1. PICK t \in Published : SaveReceiptAndTransition(a, row[a].revision, t, row[a].account)
    BY DEF SaveReceipt, Published
<1> DEFINE rows == [row EXCEPT ![a] = Moved(row[a], t)]
           P    == IF t = "published_unverified" THEN {a} ELSE {}
<1>2. /\ row' = BranchPaused(rows, P)
      /\ receipt' = [receipt EXCEPT ![a] = [status |-> t, account |-> row[a].account]]
    BY <1>1 DEF SaveReceiptAndTransition
<1>3. rows[a] = Moved(row[a], t) /\ (b # a => rows[b] = row[b])
    BY DEF TypeOK
<1>4. P = {a} \/ P = {}
    OBVIOUS
<1> HIDE DEF rows, P
<1>5. CASE b = a
  <2>1. row'[a] = Moved(row[a], t)
      BY <1>2, <1>3, <1>4, BranchPausedRow
  <2>2. KeepsIdentity(a) /\ row'[a].status = t
      BY <2>1, MovedKeeps, FieldTypes DEF KeepsIdentity
  <2>3. receipt'[a].account = row[a].account
      BY <1>2 DEF TypeOK
  <2> QED
      BY <1>1, <1>5, <2>2, <2>3 DEF SaveReceipt, KeepsAccount, Active, IdentityTerminal, Published
<1>6. CASE b # a
  <2>1. receipt'[b] = receipt[b]
      BY <1>2, <1>6 DEF TypeOK
  <2> QED
      BY <1>2, <1>3, <1>6, <2>1, CascadeKeeps
<1> QED
    BY <1>5, <1>6

LEMMA ResolveKeeps ==
  ASSUME TypeOK, NEW a \in Assignment, Resolve(a), NEW b \in Assignment
  PROVE  KeepsAccount(b)
<1>1. PICK t \in {"published_verified", "waiting_dependency"},
           s \in {"published_verified", "published_unverified"} :
             /\ row' = [row EXCEPT ![a] = Moved(row[a], t)]
             /\ receipt' = [receipt EXCEPT ![a].status = s]
    BY DEF Resolve, ResolvePublished, ResolveNotPublished
<1>2. /\ receipt[a].status # "none"
      /\ row[a].status \notin {"published_verified", "failed", "cancelled"}
    BY FinalStatus, FieldTypes DEF Resolve, ResolvePublished, ResolveNotPublished
<1>3. CASE b = a
  <2>1. row'[a] = Moved(row[a], t)
      BY <1>1 DEF TypeOK
  <2>2. KeepsIdentity(a) /\ row'[a].status = t
      BY <2>1, MovedKeeps, FieldTypes DEF KeepsIdentity
  <2>3. receipt'[a].account = receipt[a].account
      BY <1>1 DEF TypeOK, Receipt
  <2> QED
      BY <1>2, <1>3, <2>2, <2>3 DEF KeepsAccount, Active, IdentityTerminal
<1>4. CASE b # a
    BY <1>1, <1>4, SameKeeps DEF TypeOK
<1> QED
    BY <1>3, <1>4

LEMMA ResumeKeeps ==
  ASSUME TypeOK, NEW p \in Assignment, ResumeVerifiedChildren(p), NEW b \in Assignment
  PROVE  KeepsAccount(b)
<1>1. CASE b \in ResumableChildren(p)
  <2>1. /\ row'[b] = Moved(row[b], "waiting_dependency") /\ receipt' = receipt
        /\ row[b].status = "paused_dependency"
      BY <1>1 DEF ResumeVerifiedChildren, ResumableChildren
  <2> QED
      BY <2>1, MoveKeeps
<1>2. CASE b \notin ResumableChildren(p)
    BY <1>2, SameKeeps DEF ResumeVerifiedChildren
<1> QED
    BY <1>1, <1>2

LEMMA ReconcileKeeps ==
  ASSUME TypeOK, ReconcileCampaignState, NEW b \in Assignment
  PROVE  KeepsAccount(b)
<1>1. receipt'[b] = IF b \in Interrupted
                    THEN [status |-> "published_unverified", account |-> row[b].account]
                    ELSE receipt[b]
    BY DEF ReconcileCampaignState
<1>2. CASE b \in Interrupted
  <2>1. row'[b] = Moved(row[b], "published_unverified")
      BY <1>2, ReconciledRow
  <2>2. KeepsIdentity(b) /\ row'[b].status = "published_unverified"
      BY <2>1, MovedKeeps, FieldTypes DEF KeepsIdentity
  <2> QED
      BY <1>1, <1>2, <2>2 DEF KeepsAccount, Active, IdentityTerminal, Published
<1>3. CASE b \notin Interrupted /\ row'[b] = row[b]
    BY <1>1, <1>3, SameKeeps
<1>4. CASE /\ b \notin Interrupted /\ row[b].status \in PausableStatus
           /\ row'[b] = Moved(row[b], "paused_dependency")
  <2>1. row[b].status \notin {"published_verified", "failed", "cancelled"}
      BY <1>4 DEF PausableStatus, PreparingStatus
  <2> QED
      BY <1>1, <1>4, <2>1, MoveKeeps
<1>5. CASE /\ b \notin Interrupted /\ row[b].status = "awaiting_step_approval"
           /\ row'[b] = [Moved(row[b], "waiting_dependency") EXCEPT !.preflight = 0]
  <2> DEFINE moved == Moved(row[b], "waiting_dependency")
  <2>1. /\ moved \in Row /\ moved.status = "waiting_dependency"
        /\ moved.account = row[b].account /\ moved.identity = row[b].identity
      BY MovedType, MovedKeeps, FieldTypes DEF AssignmentStatus
  <2> HIDE DEF moved
  <2>2. /\ row'[b].status = "waiting_dependency" /\ row'[b].preflight = 0
        /\ row'[b].account = row[b].account /\ row'[b].identity = row[b].identity
      BY <1>5, <2>1 DEF moved, Row
  <2> QED
      BY <1>1, <1>5, <2>2 DEF KeepsAccount, KeepsIdentity, Active, IdentityTerminal
<1> QED
    BY <1>2, <1>3, <1>4, <1>5, ReconciledRow

LEMMA StepKeeps ==
  ASSUME TypeOK, [Step]_vars, ~FreezeIdentities, ~InvalidateIdentity, NEW b \in Assignment
  PROVE  KeepsAccount(b)
<1>1. CASE row' = row /\ receipt' = receipt
    BY <1>1, SameKeeps
<1>2. ASSUME \/ ChangeCampaign \/ NextPrepareGeneration \/ UNCHANGED vars
             \/ \E g \in 1..campaign.prepare : MarkReconcilePrepareGeneration(g)
             \/ \E a \in Assignment : Approve(a)
      PROVE  row' = row /\ receipt' = receipt
    BY <1>2 DEF ChangeCampaign, TransitionCampaign, NextPrepareGeneration,
       MarkReconcilePrepareGeneration, vars, Approve, CreateSubmitApproval
<1>3. ASSUME NEW a \in Assignment,
             OpenProfile(a) \/ LocateVideo(a) \/ LocateParent(a) \/ PrepareComment(a)
             \/ AwaitStepApproval(a) \/ Verify(a)
      PROVE  KeepsAccount(b)
  <2>1. PICK t : /\ UpdateAssignmentStatus(a, row[a].revision, t)
                 /\ t # "published_unverified"
      BY <1>3 DEF OpenProfile, LocateVideo, LocateParent, PrepareComment, AwaitStepApproval, Verify
  <2> QED
      BY <2>1, UpdateKeeps
<1>4. ASSUME NEW a \in Assignment, FailPreparation(a) \/ Reject(a)
      PROVE  KeepsAccount(b)
    BY <1>4, FailKeeps DEF FailPreparation, Reject, RejectSubmitAndPauseDescendants
<1> QED
    BY <1>1, <1>2, <1>3, <1>4, ReconcileKeeps, SubmitKeeps, SaveKeeps, ResolveKeeps, ResumeKeeps
    DEF Step

\* A step that changes no generation gives no account to a comment that did not use it.
LEMMA NobodyGains ==
  ASSUME TypeOK, SubmitUsesFrozenIdentity, ReceiptMatchesStatus, UncertainIsOwn,
         NEW b \in Assignment, KeepsAccount(b), campaign'.identity = campaign.identity,
         NEW x, Uses(b, x)'
  PROVE  Uses(b, x)
<1>1. b \in Interrupted => b \in Active /\ Bound(b)
    BY DEF SubmitUsesFrozenIdentity, Interrupted, Active, IdentityTerminal
<1>2. CASE receipt'[b].status # "none" /\ receipt'[b].account = x
    BY <1>1, <1>2 DEF KeepsAccount, Uses
<1>3. CASE b \in Active' /\ Bound(b)' /\ row'[b].account = x
  <2>1. Bound(b) /\ row[b].account = x
      BY <1>3, FieldTypes DEF Bound, KeepsAccount, KeepsIdentity
  <2>2. CASE b \in Active
      BY <2>1, <2>2 DEF Uses
  <2>3. CASE row[b].status = "published_unverified"
      BY <2>1, <2>3 DEF Uses, ReceiptMatchesStatus, UncertainIsOwn
  <2> QED
      BY <1>3, <2>2, <2>3 DEF KeepsAccount
<1> QED
    BY <1>2, <1>3 DEF Uses

\* After a freeze every active comment uses the account observed for it, beside the
\* accounts of the receipts.
LEMMA FreezeDistributes ==
  ASSUME TypeOK, FreezeIdentities
  PROVE  OneUser'
<1>1. PICK obs \in [Active -> Account] :
             FreezeCampaignIdentities(campaign.revision, campaign.identity, obs)
    BY DEF FreezeIdentities
<1>2. \A a \in Assignment : \A x :
        Uses(a, x)' => \/ receipt[a].status # "none" /\ receipt[a].account = x
                       \/ a \in Active /\ obs[a] = x
  <2> SUFFICES ASSUME NEW a \in Assignment, NEW x, Uses(a, x)',
                      ~(receipt[a].status # "none" /\ receipt[a].account = x)
               PROVE  a \in Active /\ obs[a] = x
      OBVIOUS
  <2>1. a \in Active' /\ row'[a].account = x
      BY <1>1 DEF Uses, FreezeCampaignIdentities
  <2>2. a \notin Active => row'[a] = row[a]
      BY <1>1 DEF FreezeCampaignIdentities
  <2>3. a \in Active
      BY <2>1, <2>2 DEF Active
  <2>4. row'[a].account = obs[a]
      BY <1>1, <2>3 DEF FreezeCampaignIdentities
  <2> QED
      BY <2>1, <2>3, <2>4
<1>3. FreezeAccepts(obs)
    BY <1>1 DEF FreezeCampaignIdentities
<1> SUFFICES ASSUME NEW a \in Assignment, NEW b \in Assignment, NEW x,
                    Uses(a, x)', Uses(b, x)'
             PROVE  a = b
    BY DEF OneUser
<1>4. CASE a \in Active /\ obs[a] = x /\ b \in Active /\ obs[b] = x
    BY <1>3, <1>4 DEF FreezeAccepts
<1>5. \A c, d \in Assignment :
        ~(/\ c \in Active /\ obs[c] = x
          /\ receipt[d].status # "none" /\ receipt[d].account = x)
    BY <1>3 DEF FreezeAccepts, PublishedAccounts
<1>6. CASE /\ receipt[a].status # "none" /\ receipt[a].account = x
           /\ receipt[b].status # "none" /\ receipt[b].account = x
    BY <1>3, <1>6 DEF FreezeAccepts, ReceiptAccountsDistinct
<1> QED
    BY <1>2, <1>4, <1>5, <1>6

\* An invalidation takes the observation of every active comment out of its generation.
LEMMA InvalidationTakes ==
  ASSUME TypeOK, ObservedBefore, InvalidateIdentity, NEW b \in Assignment
  PROVE  /\ receipt' = receipt
         /\ row'[b].account = row[b].account
         /\ row'[b].preflight = row[b].preflight
         /\ row'[b].preflight <= campaign.identity
         /\ campaign'.identity = campaign.identity + 1
         /\ row'[b].status = "published_unverified" => row[b].status = "published_unverified"
<1>1. PICK affected : InvalidateCampaignIdentity(campaign.revision, campaign.identity, affected)
    BY DEF InvalidateIdentity
<1>2. receipt' = receipt /\ row[b].preflight <= campaign.identity
    BY <1>1 DEF InvalidateCampaignIdentity, ObservedBefore
<1>3. campaign'.identity = campaign.identity + 1
    BY <1>1 DEF InvalidateCampaignIdentity, Moved, Bumped, TypeOK, Campaign
<1>4. CASE b \notin Active
    BY <1>1, <1>2, <1>3, <1>4 DEF InvalidateCampaignIdentity
<1>5. CASE b \in Active
  <2> DEFINE t     == IF b \in affected THEN "paused" ELSE "paused_dependency"
             moved == Moved(row[b], t)
  <2>1. /\ moved \in Row /\ moved.account = row[b].account
        /\ moved.preflight = row[b].preflight /\ moved.status = t
      BY MovedType, MovedKeeps, FieldTypes DEF AssignmentStatus
  <2>2. row'[b] = [moved EXCEPT !.identity = campaign.identity + 1]
      BY <1>1, <1>5 DEF InvalidateCampaignIdentity
  <2>3. t # "published_unverified"
      OBVIOUS
  <2> HIDE DEF moved, t
  <2>4. row'[b].account = moved.account /\ row'[b].preflight = moved.preflight
        /\ row'[b].status = moved.status
      BY <2>1, <2>2 DEF Row
  <2> QED
      BY <1>2, <1>3, <2>1, <2>3, <2>4
<1> QED
    BY <1>4, <1>5

\* No two comments of a campaign are published by one account, however often the
\* identities change between their clicks.
THEOREM PublishersDiffer == Spec => []DistinctPublishers
<1> DEFINE Known == TypeOK /\ SubmitUsesFrozenIdentity /\ ReceiptMatchesStatus
           Inv   == OneUser /\ UncertainIsOwn /\ ObservedBefore
<1>1. Init => Inv
    BY DEF Init, OneUser, UncertainIsOwn, ObservedBefore, Uses, Bound, NoReceipt
<1>2. Known /\ Inv /\ [Step]_vars => Inv'
  <2> SUFFICES ASSUME Known, Inv, [Step]_vars PROVE Inv'
      OBVIOUS
  <2>1. CASE FreezeIdentities
    <3>1. PICK obs : FreezeCampaignIdentities(campaign.revision, campaign.identity, obs)
        BY <2>1 DEF FreezeIdentities
    <3>2. campaign'.identity = campaign.identity + 1 /\ receipt' = receipt
        BY <3>1 DEF FreezeCampaignIdentities, Bumped, TypeOK, Campaign
    <3>3. ASSUME NEW a \in Assignment
          PROVE  /\ row'[a].preflight <= campaign'.identity
                 /\ row'[a].status = "published_unverified" => row'[a] = row[a]
      <4>1. CASE a \in Active
          BY <3>1, <3>2, <4>1, FieldTypes DEF FreezeCampaignIdentities
      <4>2. CASE a \notin Active
          BY <3>1, <3>2, <4>2, FieldTypes DEF FreezeCampaignIdentities, ObservedBefore
      <4> QED
          BY <4>1, <4>2
    <3>4. UncertainIsOwn'
        BY <3>2, <3>3 DEF UncertainIsOwn
    <3>5. ObservedBefore'
        BY <3>3 DEF ObservedBefore
    <3> QED
        BY <2>1, <3>4, <3>5, FreezeDistributes
  <2>2. CASE InvalidateIdentity
    <3>1. \A b \in Assignment : ~Bound(b)'
        BY <2>2, InvalidationTakes, FieldTypes DEF Bound
    <3>2. \A b \in Assignment : \A x : Uses(b, x)' => Uses(b, x)
        BY <2>2, <3>1, InvalidationTakes DEF Uses
    <3>3. OneUser'
        BY <3>2 DEF OneUser
    <3>4. UncertainIsOwn'
        BY <2>2, InvalidationTakes DEF UncertainIsOwn
    <3>5. ObservedBefore'
        BY <2>2, InvalidationTakes, FieldTypes DEF ObservedBefore
    <3> QED
        BY <3>3, <3>4, <3>5
  <2>3. CASE ~FreezeIdentities /\ ~InvalidateIdentity
    <3>1. \A b \in Assignment : KeepsAccount(b)
        BY <2>3, StepKeeps
    <3>2. campaign'.identity = campaign.identity
        BY <2>3, StepIdentity
    <3>3. \A b \in Assignment : \A x : Uses(b, x)' => Uses(b, x)
        BY <3>1, <3>2, NobodyGains
    <3>4. OneUser'
        BY <3>3 DEF OneUser
    <3>5. UncertainIsOwn'
        BY <3>1 DEF UncertainIsOwn, KeepsAccount, KeepsIdentity
    <3>6. ObservedBefore'
        BY <3>1, <3>2, FieldTypes DEF ObservedBefore, KeepsAccount, KeepsIdentity
    <3> QED
        BY <3>4, <3>5, <3>6
  <2> QED
      BY <2>1, <2>2, <2>3
<1>3. TypeOK /\ OneUser => DistinctPublishers
    BY FieldTypes DEF OneUser, Uses, DistinctPublishers, ReceiptAccountsDistinct, Receipt
<1> QED
    BY <1>1, <1>2, <1>3, TypeCorrect, SubmissionsAreBound, ReceiptsAgree, PTL DEF Spec

-------------------------------------------------------------------------------
(* Pauses. *)

\* The replies below a comment, found from the leaf upwards or from the root down.
LEMMA BelowIsDescendant ==
  ASSUME NEW p \in Assignment, NEW d \in Assignment, Below(d, p)
  PROVE  d \in Descendants(p)
<1>1. d # p
    BY DEF Below
<1> SUFFICES ASSUME NEW S \in SUBSET Assignment, Children(p) \subseteq S,
                    \A x \in S : Children(x) \subseteq S, d \notin S
             PROVE  FALSE
    BY <1>1 DEF Descendants
<1> DEFINE T == (Assignment \ S) \ {p}
<1>2. d \in T /\ T \in SUBSET Assignment
    BY <1>1
<1>3. ASSUME NEW x \in T, Parent[x] \in Assignment
      PROVE  Parent[x] \in T
    BY <1>3 DEF Children
<1>4. p \in T
    BY <1>2, <1>3 DEF Below
<1> QED
    BY <1>4

\* No row below a paused comment is left in a status that can be paused.
LEMMA BranchIsPaused ==
  ASSUME NEW rows, NEW P, NEW p \in P, NEW d \in Descendants(p), rows[d] \in Row
  PROVE  BranchPaused(rows, P)[d].status \notin PausableStatus
<1>1. d \in Assignment
    BY DEF Descendants
<1>2. CASE rows[d].status \in PausableStatus
  <2>1. BranchPaused(rows, P)[d] = Moved(rows[d], "paused_dependency")
      BY <1>1, <1>2 DEF BranchPaused
  <2> QED
      BY <2>1, MovedFields DEF PausableStatus, PreparingStatus
<1>3. CASE rows[d].status \notin PausableStatus
    BY <1>1, <1>3 DEF BranchPaused
<1> QED
    BY <1>2, <1>3

Stopped == {"failed", "published_unverified", "paused"}

\* A comment that this step stops takes the branch below it along.
StopsBranch(p) ==
  row'[p].status # row[p].status /\ row'[p].status \in Stopped =>
    \A d \in Descendants(p) : row'[d].status \notin PausableStatus

\* A row that is moved, but not to a stopped status, stops nothing.
LEMMA MoveStopsNothing ==
  ASSUME TypeOK, NEW p \in Assignment,
         \/ row'[p] = row[p] \/ row'[p] = Bumped(row[p])
         \/ \E t : t \notin Stopped /\ row'[p] = Moved(row[p], t)
  PROVE  StopsBranch(p)
BY MovedFields, FieldTypes DEF StopsBranch

\* The cascade from `a`, after the move of `a` itself.
LEMMA CascadeStops ==
  ASSUME TypeOK, NEW a \in Assignment, NEW s \in AssignmentStatus, NEW P, NEW p \in Assignment,
         P = {a} \/ (P = {} /\ s \notin Stopped),
         row' = BranchPaused([row EXCEPT ![a] = Moved(row[a], s)], P)
  PROVE  StopsBranch(p)
<1> DEFINE rows == [row EXCEPT ![a] = Moved(row[a], s)]
<1>1. /\ rows \in [Assignment -> Row]
      /\ rows[a] = Moved(row[a], s) /\ (p # a => rows[p] = row[p])
    BY MovedType, FieldTypes DEF TypeOK
<1>2. row' = BranchPaused(rows, P)
    OBVIOUS
<1> HIDE DEF rows
<1>3. CASE p # a
  <2>1. row'[p] = row[p] \/ row'[p] = Moved(row[p], "paused_dependency")
      BY <1>1, <1>2, <1>3, BranchPausedRow
  <2> QED
      BY <2>1, MoveStopsNothing DEF Stopped
<1>4. CASE p = a /\ P = {a}
  <2>1. \A d \in Descendants(p) : row'[d].status \notin PausableStatus
    <3> SUFFICES ASSUME NEW d \in Descendants(p) PROVE row'[d].status \notin PausableStatus
        OBVIOUS
    <3>1. rows[d] \in Row
        BY <1>1 DEF Descendants
    <3> QED
        BY <1>2, <1>4, <3>1, BranchIsPaused
  <2> QED
      BY <2>1 DEF StopsBranch
<1>5. CASE p = a /\ P = {} /\ s \notin Stopped
  <2>1. row'[p] = Moved(row[p], s)
      BY <1>1, <1>2, <1>5, BranchPausedRow
  <2> QED
      BY <1>5, <2>1, MoveStopsNothing
<1> QED
    BY <1>3, <1>4, <1>5

LEMMA InvalidateStops ==
  ASSUME TypeOK, InvalidateIdentity, NEW p \in Assignment
  PROVE  StopsBranch(p)
<1>1. PICK affected : InvalidateCampaignIdentity(campaign.revision, campaign.identity, affected)
    BY DEF InvalidateIdentity
<1> SUFFICES ASSUME NEW d \in Assignment PROVE row'[d].status \notin PausableStatus
    BY DEF StopsBranch, Descendants
<1>2. CASE d \in Active
    BY <1>1, <1>2, InvalidatedRow DEF PausableStatus, PreparingStatus
<1>3. CASE d \notin Active
  <2>1. row'[d] = row[d]
      BY <1>1, <1>3 DEF InvalidateCampaignIdentity
  <2> QED
      BY <1>3, <2>1 DEF Active, IdentityTerminal, PausableStatus, PreparingStatus
<1> QED
    BY <1>2, <1>3

LEMMA ReconcileStops ==
  ASSUME TypeOK, ReconcileCampaignState, NEW p \in Assignment
  PROVE  StopsBranch(p)
<1> DEFINE first == [a \in Assignment |->
                       IF a \in Interrupted THEN Moved(row[a], "published_unverified") ELSE row[a]]
<1>1. first \in [Assignment -> Row]
    BY MovedType, FieldTypes DEF AssignmentStatus
<1>2. Closed = BranchPaused(first, Interrupted)
    BY DEF Closed
<1> HIDE DEF first
<1>3. CASE p \in Interrupted
  <2> SUFFICES ASSUME NEW d \in Descendants(p) PROVE row'[d].status \notin PausableStatus
      BY DEF StopsBranch
  <2>1. d \in Assignment /\ first[d] \in Row
      BY <1>1 DEF Descendants
  <2>2. Closed[d].status \notin PausableStatus
      BY <1>2, <1>3, <2>1, BranchIsPaused
  <2>3. row'[d] = Closed[d]
      BY <2>1, <2>2 DEF ReconcileCampaignState, Recovered, SpentApprovals, PausableStatus
  <2> QED
      BY <2>2, <2>3
<1>4. CASE p \notin Interrupted
  <2>1. CASE row'[p] = row[p] \/ row'[p] = Moved(row[p], "paused_dependency")
      BY <2>1, MoveStopsNothing DEF Stopped
  <2>2. CASE row'[p] = [Moved(row[p], "waiting_dependency") EXCEPT !.preflight = 0]
    <3> DEFINE moved == Moved(row[p], "waiting_dependency")
    <3>1. moved \in Row /\ moved.status = "waiting_dependency"
        BY MovedType, MovedFields, FieldTypes DEF AssignmentStatus
    <3> HIDE DEF moved
    <3>2. row'[p].status = moved.status
        BY <2>2, <3>1 DEF moved, Row
    <3> QED
        BY <3>1, <3>2 DEF StopsBranch, Stopped
  <2> QED
      BY <1>4, <2>1, <2>2, ReconciledRow
<1> QED
    BY <1>3, <1>4

LEMMA StepStops ==
  ASSUME TypeOK, [Step]_vars, NEW p \in Assignment
  PROVE  StopsBranch(p)
<1>1. CASE row' = row
    BY <1>1, MoveStopsNothing
<1>2. ASSUME \/ ChangeCampaign \/ NextPrepareGeneration \/ UNCHANGED vars
             \/ \E g \in 1..campaign.prepare : MarkReconcilePrepareGeneration(g)
             \/ \E a \in Assignment : Approve(a)
      PROVE  row' = row
    BY <1>2 DEF ChangeCampaign, TransitionCampaign, NextPrepareGeneration,
       MarkReconcilePrepareGeneration, vars, Approve, CreateSubmitApproval
<1>3. CASE FreezeIdentities
    BY <1>3 DEF FreezeIdentities, FreezeCampaignIdentities, StopsBranch, Stopped
<1>4. ASSUME NEW a \in Assignment,
             OpenProfile(a) \/ LocateVideo(a) \/ LocateParent(a) \/ PrepareComment(a)
             \/ AwaitStepApproval(a) \/ Verify(a)
      PROVE  StopsBranch(p)
  <2>1. PICK t \in {"opening_profile", "locating_video", "locating_parent", "preparing_comment",
                    "awaiting_step_approval", "verifying_receipt"} :
               row' = [row EXCEPT ![a] = Moved(row[a], t)]
      BY <1>4 DEF OpenProfile, LocateVideo, LocateParent, PrepareComment, AwaitStepApproval,
         Verify, UpdateAssignmentStatus
  <2>2. row'[p] = row[p] \/ row'[p] = Moved(row[p], t)
      BY <2>1 DEF TypeOK
  <2> QED
      BY <2>2, MoveStopsNothing DEF Stopped
<1>5. ASSUME NEW a \in Assignment, Submit(a) \/ Disapprove(a) \/ ReserveInput(a)
      PROVE  StopsBranch(p)
  <2>1. PICK new \in {Moved(row[a], "submitting"), Bumped(row[a])} : row' = [row EXCEPT ![a] = new]
      BY <1>5 DEF Submit, Disapprove, ReserveInput, BeginSubmitting, InvalidateSubmitApproval,
         BeginCommentInput
  <2>2. row'[p] \in {row[p], Moved(row[p], "submitting"), Bumped(row[p])}
      BY <2>1 DEF TypeOK
  <2> QED
      BY <2>2, MoveStopsNothing DEF Stopped
<1>6. ASSUME NEW a \in Assignment, Resolve(a) \/ ResumeVerifiedChildren(a)
      PROVE  StopsBranch(p)
  <2>1. row'[p] = row[p] \/ \E t \in {"published_verified", "waiting_dependency"} :
                              row'[p] = Moved(row[p], t)
      BY <1>6 DEF Resolve, ResolvePublished, ResolveNotPublished, ResumeVerifiedChildren, TypeOK
  <2> QED
      BY <2>1, MoveStopsNothing DEF Stopped
<1>7. ASSUME NEW a \in Assignment, FailPreparation(a) \/ Reject(a)
      PROVE  StopsBranch(p)
  <2>1. PICK t \in {"failed", "paused"} :
               FailAssignmentAndPauseDescendants(a, row[a].revision, t)
      BY <1>7 DEF FailPreparation, Reject, RejectSubmitAndPauseDescendants
  <2> QED
      BY <2>1, CascadeStops DEF FailAssignmentAndPauseDescendants, AssignmentStatus
<1>8. ASSUME NEW a \in Assignment, SaveReceipt(a)
      PROVE  StopsBranch(p)
  <2>1. PICK t \in Published : SaveReceiptAndTransition(a, row[a].revision, t, row[a].account)
      BY <1>8 DEF SaveReceipt, Published
  <2> DEFINE P == IF t = "published_unverified" THEN {a} ELSE {}
  <2>2. row' = BranchPaused([row EXCEPT ![a] = Moved(row[a], t)], P)
      BY <2>1 DEF SaveReceiptAndTransition
  <2>3. P = {a} \/ (P = {} /\ t \notin Stopped)
      BY DEF Published, Stopped
  <2>4. t \in AssignmentStatus
      BY DEF Published, AssignmentStatus
  <2> HIDE DEF P
  <2> QED
      BY <2>2, <2>3, <2>4, CascadeStops
<1> QED
    BY <1>1, <1>2, <1>3, <1>4, <1>5, <1>6, <1>7, <1>8, InvalidateStops, ReconcileStops DEF Step

\* A pause reaches the whole branch below a stopped comment in the step that stops it,
\* however deep the reply tree is, and a change of identities spares what is published or
\* uncertain.
THEOREM PausesReachTheBranch == Spec => PausesAreExact
<1>1. TypeOK /\ [Step]_vars =>
        \A p, d \in Assignment :
          /\ Below(d, p)
          /\ row'[p].status # row[p].status
          /\ row'[p].status \in {"failed", "published_unverified", "paused"}
          => row'[d].status \notin PausableStatus
    BY StepStops, BelowIsDescendant DEF StopsBranch, Stopped
<1>2. TypeOK /\ [Step]_vars =>
        (campaign'.identity # campaign.identity =>
           \A a \in Assignment :
             row[a].status = "published_unverified" =>
               row'[a] = row[a] /\ receipt'[a] = receipt[a])
  <2> SUFFICES ASSUME TypeOK, [Step]_vars, campaign'.identity # campaign.identity,
                      NEW a \in Assignment, row[a].status = "published_unverified"
               PROVE  row'[a] = row[a] /\ receipt'[a] = receipt[a]
      OBVIOUS
  <2>1. a \notin Active
      BY DEF Active, IdentityTerminal
  <2> QED
      BY <2>1, StepIdentity DEF FreezeIdentities, FreezeCampaignIdentities, InvalidateIdentity,
         InvalidateCampaignIdentity
<1> QED
    BY <1>1, <1>2, TypeCorrect, PTL DEF Spec, PausesAreExact, BranchStopsWithItsRoot,
       UncertainSurvivesIdentityChange

-------------------------------------------------------------------------------
(* The plan before it is locked (CampaignPlanning). *)

\* The ancestors of the parent of a step are ancestors of the step, and the step is none of
\* them: the set of those below it would else have all its parents inside.
LEMMA ThreadGrows ==
  ASSUME NEW t, NEW s \in t.steps, t.parent[s] \in t.steps,
         \A n \in t.steps : t.parent[n] \in t.steps \cup {None},
         None \notin t.steps,
         \A c \in (SUBSET t.steps) \ {{}} : \E n \in c : t.parent[n] \notin c
  PROVE  /\ Thread(t, t.parent[s]) \subseteq Thread(t, s)
         /\ s \in Thread(t, s) /\ s \notin Thread(t, t.parent[s])
<1> DEFINE Upward(c) == \A m \in c : t.parent[m] # None => t.parent[m] \in c
           Over(n) == {m \in t.steps : \A c \in SUBSET t.steps : n \in c /\ Upward(c) => m \in c}
<1>1. \A n \in t.steps : Thread(t, n) = Over(n)
  BY DEF Thread
<1>2. Over(t.parent[s]) \subseteq Over(s) /\ s \in Over(s)
  OBVIOUS
<1>3. s \notin Over(t.parent[s])
  <2> SUFFICES ASSUME s \in Over(t.parent[s])
               PROVE  FALSE
    OBVIOUS
  <2> DEFINE Under == {n \in t.steps : s \in Over(n)}
  <2>1. t.parent[s] \in Under
    OBVIOUS
  <2>2. ASSUME NEW n \in Under
        PROVE  t.parent[n] \in Under
    <3>1. CASE n = s
      BY <2>1, <3>1
    <3>2. CASE n # s
      <4>1. ASSUME t.parent[n] = None
            PROVE  FALSE
        <5>1. {n} \in SUBSET t.steps /\ n \in {n} /\ Upward({n})
          BY <4>1
        <5>2. s \in {n}
          BY <5>1, <2>2
        <5> QED
          BY <5>2, <3>2
      <4>2. t.parent[n] \in t.steps
        BY <4>1, <2>2
      <4>3. ASSUME NEW c \in SUBSET t.steps, t.parent[n] \in c, Upward(c)
            PROVE  s \in c
        <5>1. c \cup {n} \in SUBSET t.steps /\ n \in c \cup {n}
          BY <2>2
        <5>2. Upward(c \cup {n})
          BY <4>3
        <5>3. s \in c \cup {n}
          BY <5>1, <5>2, <2>2
        <5> QED
          BY <5>3, <3>2
      <4> QED
        BY <4>2, <4>3
    <3> QED
      BY <3>1, <3>2
  <2>3. Under \in (SUBSET t.steps) \ {{}}
    BY <2>1
  <2> HIDE DEF Under
  <2> QED
    BY <2>2, <2>3
<1> HIDE DEF Over
<1> QED
  BY <1>1, <1>2, <1>3

\* A subset that lacks a member is smaller.
LEMMA Smaller ==
  ASSUME NEW S, IsFiniteSet(S), NEW T \in SUBSET S, NEW x \in S, x \notin T
  PROVE  /\ Cardinality(T) \in Nat /\ Cardinality(S) \in Nat
         /\ Cardinality(T) < Cardinality(S)
<1>1. /\ IsFiniteSet(T) /\ Cardinality(T) <= Cardinality(S)
      /\ Cardinality(S) = Cardinality(T) => S = T
  BY FS_Subset
<1>2. Cardinality(T) \in Nat /\ Cardinality(S) \in Nat
  BY <1>1, FS_CardinalityType
<1>3. S # T
  OBVIOUS
<1> QED
  BY <1>1, <1>2, <1>3

\* A reply is placed after the comment it answers.
LEMMA ParentComesFirst ==
  ASSUME NEW t \in Tree, NEW mode, ValidTree(mode, t), NEW s \in t.steps, t.parent[s] # None
  PROVE  /\ t.parent[s] \in t.steps
         /\ Position(t, t.parent[s]) < Position(t, s)
<1> DEFINE p == t.parent[s]
           Before(n) == {m \in t.steps : \/ Depth(t, m) < Depth(t, n)
                                         \/ Depth(t, m) = Depth(t, n) /\ m <= n}
<1>1. IsFiniteSet(t.steps) /\ t.steps \subseteq Nat \ {0}
  BY TreeAssumption
<1>2. p \in t.steps
  BY DEF ValidTree
<1>3. \A c \in (SUBSET t.steps) \ {{}} : \E n \in c : t.parent[n] \notin c
  BY DEF ValidTree
<1>4. \A n \in t.steps : t.parent[n] \in t.steps \cup {None}
  BY DEF ValidTree
<1>5. /\ Thread(t, p) \subseteq Thread(t, s)
      /\ s \in Thread(t, s) /\ s \notin Thread(t, p)
  BY <1>1, <1>2, <1>3, <1>4, ThreadGrows DEF None
<1>6. \A n \in t.steps : IsFiniteSet(Thread(t, n)) /\ Depth(t, n) \in Nat
  <2> TAKE n \in t.steps
  <2>1. Thread(t, n) \in SUBSET t.steps
    BY DEF Thread
  <2> QED
    BY <1>1, <2>1, FS_Subset, FS_CardinalityType DEF Depth
<1>7. Depth(t, p) < Depth(t, s)
  BY <1>2, <1>5, <1>6, Smaller DEF Depth
<1>8. Before(p) \in SUBSET Before(s) /\ s \in Before(s) /\ s \notin Before(p)
  BY <1>1, <1>2, <1>6, <1>7
<1>9. IsFiniteSet(Before(s))
  BY <1>1, FS_Subset
<1>10. Cardinality(Before(p)) < Cardinality(Before(s))
  BY <1>8, <1>9, Smaller
<1> QED
  BY <1>2, <1>10 DEF Position

\* What a request works on is a revision of the tree, the texts there were and its profiles.
Lives     == UNION {[refs -> Metadata] : refs \in SUBSET Profile}
FrozenSet == [tree : Tree, stock : SUBSET Text, live : Lives]
PlanRow   == [profile : Profile, text : Text, parent : Nat, position : Nat,
              revision : Nat \ {0}, locked : BOOLEAN]
Sheets    == UNION {[steps -> PlanRow] : steps \in SUBSET Nat}

PlanStatus == {"none", "draft", "planned", "awaiting_campaign_approval", "deleted"}
PlanMode   == {"independent", "threaded"}
Sealing    == "awaiting_campaign_approval"

PlanSet == [status : PlanStatus, mode : PlanMode, revision : Nat, pinned : Nat,
            refs : SUBSET Profile, locked : BOOLEAN, frozen : FrozenSet \cup {NoPlan},
            assignments : Sheets \cup {<<>>}]

CreateSet   == [pc : {"create"}, mode : PlanMode, pinned : Nat, refs : SUBSET Profile]
BeginSet    == [pc : {"plan"}, revision : Nat]
ReplaceSet  == [pc : {"check", "replace"}, revision : Nat, frozen : FrozenSet, assignments : Sheets]
OverrideSet == [pc : {"override"}, step : Nat, profile : Profile, revision : Nat, was : Nat]
LockSet     == [pc : {"lock"}, revision : Nat, seen : Sheets \cup {<<>>}]

Requests == {Unasked} \cup CreateSet \cup BeginSet \cup ReplaceSet \cup OverrideSet \cup LockSet

\* The campaign's tree: a mode and a revision that supports it.
Pins(mode, v) == v \in DOMAIN template.revisions /\ mode \in template.revisions[v].modes

\* What the assignment of step s must be, by what was frozen with it.
RowFits(refs, f, of, s) ==
  /\ of[s].profile \in refs
  /\ of[s].parent = f.tree.parent[s] /\ of[s].position = Position(f.tree, s)
  /\ of[s].text \in Texts(f.tree, f.stock)[s]
  /\ of[s].revision = 1 => Suits(f.tree.needs[s], f.live[of[s].profile])

\* A plan, on record or about to be, of a campaign with that tree and those profiles.
Sound(tree, refs, f, of, sealed) ==
  /\ f \in FrozenSet /\ of \in Sheets
  /\ f.tree = tree /\ DOMAIN f.live = refs /\ DOMAIN of = tree.steps
  /\ \A s, n \in DOMAIN of : s # n => of[s].profile # of[n].profile /\ of[s].text # of[n].text
  /\ \A s \in DOMAIN of : RowFits(refs, f, of, s) /\ of[s].locked = sealed

Pinned == template.revisions[plan.pinned]

TemplateFits ==
  /\ template \in [status : {"none", "enabled", "disabled", "deleted"}, revisions : Seq(Tree)]
  /\ template.status # "none" => template.revisions # <<>>
  /\ \A v \in DOMAIN template.revisions : ValidTemplate(template.revisions[v])

ProfileFits == DOMAIN profile \subseteq Profile /\ profile \in [DOMAIN profile -> Metadata]

PlanFits ==
  /\ plan \in PlanSet
  /\ plan.status = "none" => plan = NoCampaign
  /\ plan.status # "none" => Pins(plan.mode, plan.pinned) /\ plan.refs \subseteq DOMAIN profile
  /\ plan.locked <=> plan.status = Sealing
  /\ plan.status \in {"planned", Sealing} => 
       Sound(Pinned, plan.refs, plan.frozen, plan.assignments, plan.locked)

\* What a request that is not under way any more has read may be old, and then is not used.
AskedFits(r) == LET q == planner[r] IN
  /\ q \in Requests
  /\ q.pc = "create" => Pins(q.mode, q.pinned) /\ q.refs \subseteq DOMAIN profile
  /\ q.pc \notin {"idle", "create"} => plan.status # "none" /\ q.revision <= plan.revision
  /\ q.pc \in {"check", "replace"} => 
       Sound(Pinned, plan.refs, q.frozen, q.assignments, FALSE)
  /\ q.pc = "replace" /\ q.revision = plan.revision => plan.status # Sealing
  /\ q.pc = "override" /\ q.revision = plan.revision =>
       /\ plan.status = "planned" /\ q.step \in DOMAIN plan.assignments
       /\ q.profile \in plan.refs
       /\ \A n \in DOMAIN plan.assignments \ {q.step} : plan.assignments[n].profile # q.profile
  /\ q.pc = "lock" /\ q.revision = plan.revision =>
       plan.status = "planned" /\ q.seen = plan.assignments

PlanInv ==
  /\ TemplateFits /\ ProfileFits /\ PlanFits
  /\ moves \in Nat
  /\ DOMAIN planner = Planner /\ \A r \in Planner : AskedFits(r)

\* What no step takes back: revisions of the template, profiles, what the campaign was created
\* from; and a campaign that stays at its revision stays as it is, unless a draft is deleted.
Deleted == [plan EXCEPT !.status = "deleted"]

Grows ==
  /\ \A v \in DOMAIN template.revisions :
       v \in DOMAIN template'.revisions /\ template'.revisions[v] = template.revisions[v]
  /\ DOMAIN profile \subseteq DOMAIN profile'
  /\ plan.status # "none" =>
       /\ plan'.status # "none" /\ plan'.mode = plan.mode
       /\ plan'.pinned = plan.pinned /\ plan'.refs = plan.refs
  /\ plan'.revision \in Nat /\ plan'.revision >= plan.revision
  /\ plan'.revision = plan.revision =>
       plan' = plan \/ (plan.status = "draft" /\ plan' = Deleted)

LEMMA PlanTypes ==
  ASSUME PlanFits
  PROVE  /\ plan.status \in PlanStatus /\ plan.mode \in PlanMode /\ plan.revision \in Nat
         /\ plan.pinned \in Nat /\ plan.refs \in SUBSET Profile /\ plan.locked \in BOOLEAN
         /\ plan.frozen \in FrozenSet \cup {NoPlan} /\ plan.assignments \in Sheets \cup {<<>>}
BY DEF PlanFits, PlanSet

LEMMA DeletedPlan ==
  ASSUME PlanFits
  PROVE  /\ Deleted \in PlanSet
         /\ Deleted.status = "deleted" /\ Deleted.mode = plan.mode
         /\ Deleted.revision = plan.revision /\ Deleted.pinned = plan.pinned
         /\ Deleted.refs = plan.refs /\ Deleted.locked = plan.locked
         /\ Deleted.frozen = plan.frozen /\ Deleted.assignments = plan.assignments
<1>1. plan \in PlanSet /\ "deleted" \in PlanStatus
  BY DEF PlanFits, PlanStatus
<1> QED
  BY <1>1 DEF Deleted, PlanSet

\* Fields of what a request reads.
LEMMA RequestTypes ==
  ASSUME NEW q \in Requests
  PROVE  /\ q.pc \in {"idle", "create", "plan", "check", "replace", "override", "lock"}
         /\ q.pc = "create" => q \in CreateSet
         /\ q.pc = "plan" => q \in BeginSet
         /\ q.pc \in {"check", "replace"} => q \in ReplaceSet
         /\ q.pc = "override" => q \in OverrideSet
         /\ q.pc = "lock" => q \in LockSet
         /\ q.pc \notin {"idle", "create"} => q.revision \in Nat
BY DEF Requests, Unasked, CreateSet, BeginSet, ReplaceSet, OverrideSet, LockSet

LEMMA PinsStay ==
  ASSUME Grows, NEW mode, NEW v, Pins(mode, v)
  PROVE  Pins(mode, v)'
BY DEF Grows, Pins

\* The tree of a campaign is that of its revision for good.
LEMMA PinnedStays ==
  ASSUME PlanFits, Grows, plan.status # "none"
  PROVE  Pinned' = Pinned /\ plan'.refs = plan.refs
BY DEF PlanFits, Grows, Pins, Pinned

LEMMA PlanStays ==
  ASSUME PlanFits, Grows, plan' = plan
  PROVE  PlanFits'
<1>1. CASE plan.status = "none"
  BY <1>1 DEF PlanFits, Sealing
<1>2. CASE plan.status # "none"
  <2>1. Pins(plan.mode, plan.pinned)' /\ plan'.refs \subseteq DOMAIN profile'
    BY <1>2 DEF PlanFits, Grows, Pins
  <2>2. Pinned' = Pinned
    BY <1>2, PinnedStays
  <2> QED
    BY <1>2, <2>1, <2>2 DEF PlanFits
<1> QED
  BY <1>1, <1>2

\* A request that does nothing is where it was: what it relies on has stayed, or its revision
\* is gone.
LEMMA AskedStays ==
  ASSUME PlanInv, Grows, NEW r \in Planner, planner'[r] = planner[r]
  PROVE  AskedFits(r)'
<1> DEFINE q == planner[r]
<1>0. AskedFits(r) /\ PlanFits
  BY DEF PlanInv
<1>1. q \in Requests /\ planner'[r] = q
  BY <1>0 DEF AskedFits
<1>2. q.pc = "create" => Pins(q.mode, q.pinned)' /\ q.refs \subseteq DOMAIN profile'
  <2> SUFFICES ASSUME q.pc = "create"
               PROVE  Pins(q.mode, q.pinned)' /\ q.refs \subseteq DOMAIN profile'
    OBVIOUS
  <2>1. Pins(q.mode, q.pinned) /\ q.refs \subseteq DOMAIN profile
    BY <1>0 DEF AskedFits
  <2>2. planner'[r].mode = q.mode /\ planner'[r].pinned = q.pinned
    BY <1>1
  <2> QED
    BY <2>1, <2>2 DEF Pins, Grows
<1>3. ASSUME q.pc \notin {"idle", "create"}
      PROVE  /\ plan.status # "none" /\ plan'.status # "none"
             /\ q.revision \in Nat /\ plan.revision \in Nat /\ plan'.revision \in Nat
             /\ q.revision <= plan.revision /\ plan.revision <= plan'.revision
  BY <1>0, <1>1, <1>3, RequestTypes, PlanTypes DEF AskedFits, Grows
<1>4. q.pc \in {"check", "replace"} =>
        Sound(Pinned', plan'.refs, q.frozen, q.assignments, FALSE)
  BY <1>0, <1>3, PinnedStays DEF AskedFits
<1>5. ASSUME q.pc \in {"replace", "override", "lock"}, q.revision = plan'.revision
      PROVE  /\ q.revision = plan.revision
             /\ plan'.assignments = plan.assignments /\ plan'.refs = plan.refs
             /\ plan.status = "planned" => plan' = plan
             /\ plan.status # Sealing => plan'.status # Sealing
  <2>1. q.revision = plan.revision /\ plan'.revision = plan.revision
    BY <1>3, <1>5
  <2>2. plan' = plan \/ (plan.status = "draft" /\ plan' = Deleted)
    BY <2>1 DEF Grows
  <2> QED
    BY <1>0, <2>1, <2>2, DeletedPlan DEF Sealing
<1>6. q.pc = "replace" /\ q.revision = plan'.revision => plan'.status # Sealing
  BY <1>0, <1>5 DEF AskedFits
<1>7. q.pc = "override" /\ q.revision = plan'.revision =>
        /\ plan'.status = "planned" /\ q.step \in DOMAIN plan'.assignments
        /\ q.profile \in plan'.refs
        /\ \A n \in DOMAIN plan'.assignments \ {q.step} : plan'.assignments[n].profile # q.profile
  BY <1>0, <1>5 DEF AskedFits
<1>8. q.pc = "lock" /\ q.revision = plan'.revision =>
        plan'.status = "planned" /\ q.seen = plan'.assignments
  BY <1>0, <1>5 DEF AskedFits
<1>9. q.pc \notin {"idle", "create"} => plan'.status # "none" /\ q.revision <= plan'.revision
  BY <1>3
<1>10. planner'[r].pc = "create" => Pins(planner[r].mode, planner[r].pinned)'
  BY <1>1, <1>2
<1> QED
  BY <1>1, <1>2, <1>4, <1>6, <1>7, <1>8, <1>9, <1>10 DEF AskedFits


\* Templates and profiles.
LEMMA TemplateSteps ==
  ASSUME PlanInv,
         CreateTemplate \/ UpdateTemplate \/ DisableTemplate \/ EnableTemplate \/ DeleteTemplate
  PROVE  TemplateFits' /\ Grows /\ UNCHANGED <<profile, plan, planner, moves>>
<1> DEFINE old == template.revisions
<1>0. TemplateFits /\ PlanFits
  BY DEF PlanInv
<1>1. /\ old \in Seq(Tree) /\ Len(old) \in Nat /\ DOMAIN old = 1..Len(old)
      /\ \A v \in DOMAIN old : old[v] \in Tree /\ ValidTemplate(old[v])
  BY <1>0 DEF TemplateFits
<1>2. template.status # "none" => Latest \in Tree /\ ValidTemplate(Latest)
  <2> SUFFICES ASSUME template.status # "none"
               PROVE  Latest \in Tree /\ ValidTemplate(Latest)
    OBVIOUS
  <2>1. old # <<>>
    BY <1>0 DEF TemplateFits
  <2>2. Len(old) \in DOMAIN old
    BY <1>1, <2>1, EmptySeq
  <2> QED
    BY <1>1, <2>2 DEF Latest
<1>3. PICK status \in {"enabled", "disabled", "deleted"}, t \in Tree :
            ValidTemplate(t) /\ Revised(status, t)
  BY <1>2 DEF CreateTemplate, UpdateTemplate, DisableTemplate, EnableTemplate, DeleteTemplate
<1> DEFINE new == Append(old, t)
<1>4. /\ new \in Seq(Tree) /\ DOMAIN new = 1..Len(old) + 1
      /\ \A v \in 1..Len(old) : new[v] = old[v]
      /\ new[Len(old) + 1] = t
  BY <1>1, AppendProperties
<1>5. /\ template'.status = status /\ template'.revisions = new
      /\ template' \in [status : {"none", "enabled", "disabled", "deleted"}, revisions : Seq(Tree)]
      /\ UNCHANGED <<profile, plan, planner, moves>>
  BY <1>3, <1>4 DEF Revised
<1>6. new # <<>> /\ \A v \in DOMAIN new : ValidTemplate(new[v])
  <2>1. new # <<>>
    BY <1>1, AppendProperties
  <2>2. ASSUME NEW v \in 1..Len(old) + 1
        PROVE  ValidTemplate(new[v])
    <3>1. CASE v = Len(old) + 1
      BY <1>3, <1>4, <3>1
    <3>2. CASE v \in 1..Len(old)
      BY <1>1, <1>4, <3>2
    <3> QED
      BY <1>1, <3>1, <3>2
  <2> QED
    BY <1>4, <2>1, <2>2
<1>7. \A v \in DOMAIN old : v \in DOMAIN new /\ new[v] = old[v]
  BY <1>1, <1>4
<1> HIDE DEF new
<1>8. TemplateFits'
  BY <1>5, <1>6 DEF TemplateFits
<1>9. plan.revision \in Nat
  BY <1>0, PlanTypes
<1> QED
  BY <1>5, <1>7, <1>8, <1>9 DEF Grows

LEMMA ProfileSteps ==
  ASSUME PlanInv, NEW p \in Profile, SyncProfile(p) \/ SetProfile(p)
  PROVE  /\ ProfileFits' /\ Grows /\ moves' \in Nat
         /\ UNCHANGED <<template, plan, planner>>
<1>0. ProfileFits /\ PlanFits /\ moves \in Nat
  BY DEF PlanInv
<1>1. ProfileFits' /\ DOMAIN profile \subseteq DOMAIN profile'
  <2>1. CASE SyncProfile(p)
    <3>1. Default \in Metadata
      BY DEF Default, Metadata
    <3> QED
      BY <1>0, <2>1, <3>1 DEF SyncProfile, ProfileFits
  <2>2. CASE SetProfile(p)
    BY <1>0, <2>2 DEF SetProfile, ProfileFits
  <2> QED
    BY <2>1, <2>2
<1>2. moves' \in Nat /\ UNCHANGED <<template, plan, planner>>
  BY <1>0 DEF SyncProfile, SetProfile
<1>3. plan.revision \in Nat
  BY <1>0, PlanTypes
<1> QED
  BY <1>1, <1>2, <1>3 DEF Grows

-------------------------------------------------------------------------------
(* The campaign: what the steps of a request leave behind. *)

LEMMA Answering ==
  ASSUME PlanInv, NEW r \in Planner, Closes(r)
  PROVE  AskedFits(r)'
<1>1. planner'[r] = Unasked
  BY DEF Closes, Proceeds, PlanInv
<1>2. Unasked \in Requests /\ Unasked.pc = "idle"
  BY DEF Requests, Unasked
<1> QED
  BY <1>1, <1>2 DEF AskedFits

LEMMA SamePlan ==
  ASSUME PlanInv, NEW r \in Planner, NEW to, Proceeds(r, to), UNCHANGED plan
  PROVE  Grows /\ PlanFits'
<1>1. plan.revision \in Nat /\ PlanFits
  BY PlanTypes DEF PlanInv
<1>2. Grows
  BY <1>1 DEF Grows, Proceeds
<1> QED
  BY <1>1, <1>2, PlanStays

LEMMA Proceeding ==
  ASSUME PlanInv, NEW r \in Planner, NEW to, Proceeds(r, to), Grows, PlanFits', AskedFits(r)'
  PROVE  PlanInv'
<1>1. \A q \in Planner \ {r} : planner'[q] = planner[q]
  BY DEF PlanInv, Proceeds
<1>2. DOMAIN planner' = Planner
  BY DEF PlanInv, Proceeds
<1>3. \A q \in Planner : AskedFits(q)'
  BY <1>1, AskedStays
<1>4. TemplateFits' /\ ProfileFits' /\ moves' \in Nat
  BY DEF PlanInv, Proceeds, TemplateFits, ProfileFits
<1> QED
  BY <1>2, <1>3, <1>4 DEF PlanInv

LEMMA SheetType ==
  ASSUME NEW of \in Sheets
  PROVE  /\ DOMAIN of \subseteq Nat /\ of \in [DOMAIN of -> PlanRow]
         /\ \A s \in DOMAIN of : of[s] \in PlanRow
BY DEF Sheets

LEMMA GivenType ==
  ASSUME NEW a \in PlanRow, NEW p \in Profile
  PROVE  /\ Given(a, p) \in PlanRow
         /\ Given(a, p).profile = p /\ Given(a, p).revision = a.revision + 1
         /\ Given(a, p).text = a.text /\ Given(a, p).parent = a.parent
         /\ Given(a, p).position = a.position /\ Given(a, p).locked = a.locked
<1>1. a.revision \in Nat \ {0} /\ a.revision + 1 \in Nat \ {0}
  BY DEF PlanRow
<1> QED
  BY <1>1 DEF Given, PlanRow

LEMMA SealedType ==
  ASSUME NEW a \in PlanRow
  PROVE  /\ Sealed(a) \in PlanRow
         /\ Sealed(a).profile = a.profile /\ Sealed(a).revision = a.revision + 1
         /\ Sealed(a).text = a.text /\ Sealed(a).parent = a.parent
         /\ Sealed(a).position = a.position /\ Sealed(a).locked = TRUE
<1>1. a.revision \in Nat \ {0} /\ a.revision + 1 \in Nat \ {0}
  BY DEF PlanRow
<1> QED
  BY <1>1 DEF Sealed, PlanRow

\* A step given to somebody who has no other leaves the plan sound.
LEMMA GivenIsSound ==
  ASSUME NEW tree, NEW refs, NEW f, NEW of, Sound(tree, refs, f, of, FALSE),
         NEW s \in DOMAIN of, NEW p \in Profile, p \in refs,
         \A n \in DOMAIN of \ {s} : of[n].profile # p
  PROVE  Sound(tree, refs, f, [of EXCEPT ![s] = Given(of[s], p)], FALSE)
<1> DEFINE new == [of EXCEPT ![s] = Given(of[s], p)]
<1>1. /\ of \in Sheets /\ DOMAIN of \subseteq Nat
      /\ \A n \in DOMAIN of : of[n] \in PlanRow
  BY SheetType DEF Sound
<1>2. /\ DOMAIN new = DOMAIN of /\ new[s] = Given(of[s], p)
      /\ \A n \in DOMAIN of \ {s} : new[n] = of[n]
  OBVIOUS
<1>3. /\ new[s] \in PlanRow /\ new[s].profile = p
      /\ new[s].revision = of[s].revision + 1 /\ new[s].text = of[s].text
      /\ new[s].parent = of[s].parent /\ new[s].position = of[s].position
      /\ new[s].locked = of[s].locked
  BY <1>1, <1>2, GivenType
<1>4. new \in Sheets
  <2>1. new \in [DOMAIN of -> PlanRow]
    BY <1>1, <1>3
  <2> QED
    BY <1>1, <2>1 DEF Sheets
<1> HIDE DEF new
<1>5. \A n \in DOMAIN of : RowFits(refs, f, of, n) /\ of[n].locked = FALSE
  BY DEF Sound
<1>6. new[s].revision # 1
  BY <1>1, <1>3 DEF PlanRow
<1>7. \A n \in DOMAIN new : RowFits(refs, f, new, n) /\ new[n].locked = FALSE
  BY <1>2, <1>3, <1>5, <1>6 DEF RowFits
<1>8. \A m, n \in DOMAIN new : m # n => new[m].profile # new[n].profile /\ new[m].text # new[n].text
  BY <1>2, <1>3 DEF Sound
<1>9. Sound(tree, refs, f, new, FALSE)
  BY <1>2, <1>4, <1>7, <1>8 DEF Sound
<1> QED
  BY <1>9 DEF new

\* Nor does a lock change what is sound.
LEMMA SealedIsSound ==
  ASSUME NEW tree, NEW refs, NEW f, NEW of, Sound(tree, refs, f, of, FALSE)
  PROVE  Sound(tree, refs, f, [s \in DOMAIN of |-> Sealed(of[s])], TRUE)
<1> DEFINE new == [s \in DOMAIN of |-> Sealed(of[s])]
<1>1. /\ of \in Sheets /\ DOMAIN of \subseteq Nat
      /\ \A n \in DOMAIN of : of[n] \in PlanRow
  BY SheetType DEF Sound
<1>2. DOMAIN new = DOMAIN of /\ \A n \in DOMAIN of : new[n] = Sealed(of[n])
  OBVIOUS
<1>3. \A n \in DOMAIN of :
        /\ new[n] \in PlanRow /\ new[n].profile = of[n].profile
        /\ new[n].revision = of[n].revision + 1 /\ new[n].text = of[n].text
        /\ new[n].parent = of[n].parent /\ new[n].position = of[n].position
        /\ new[n].locked = TRUE
  BY <1>1, <1>2, SealedType
<1>4. new \in Sheets
  <2>1. new \in [DOMAIN of -> PlanRow]
    BY <1>3
  <2> QED
    BY <1>1, <2>1 DEF Sheets
<1> HIDE DEF new
<1>5. \A n \in DOMAIN of : RowFits(refs, f, of, n)
  BY DEF Sound
<1>6. \A n \in DOMAIN of : new[n].revision # 1
  BY <1>1, <1>3 DEF PlanRow
<1>7. \A n \in DOMAIN new : RowFits(refs, f, new, n) /\ new[n].locked = TRUE
  BY <1>2, <1>3, <1>5, <1>6 DEF RowFits
<1>8. \A m, n \in DOMAIN new : m # n => new[m].profile # new[n].profile /\ new[m].text # new[n].text
  BY <1>2, <1>3 DEF Sound
<1>9. Sound(tree, refs, f, new, TRUE)
  BY <1>2, <1>4, <1>7, <1>8 DEF Sound
<1> QED
  BY <1>9 DEF new

\* What a request computes is sound.
LEMMA ChoiceIsSound ==
  ASSUME NEW t \in Tree, NEW mode, ValidTree(mode, t), ProfileFits,
         NEW refs \in SUBSET DOMAIN profile, NEW stock \in SUBSET Text,
         NEW who \in Matchings(Suited(t, Restrict(profile, refs))),
         NEW what \in Matchings(Texts(t, stock))
  PROVE  Sound(t, refs, [tree |-> t, stock |-> stock, live |-> Restrict(profile, refs)],
               Assignments(t, who, what), FALSE)
<1> DEFINE live == Restrict(profile, refs)
           f == [tree |-> t, stock |-> stock, live |-> live]
           of == Assignments(t, who, what)
<1>1. /\ DOMAIN live = refs /\ refs \in SUBSET Profile /\ live \in [refs -> Metadata]
      /\ \A p \in refs : live[p] = profile[p]
  BY DEF ProfileFits, Restrict
<1>2. f \in FrozenSet /\ f.tree = t /\ f.stock = stock /\ f.live = live
  <2>1. live \in Lives
    BY <1>1 DEF Lives
  <2> HIDE DEF live
  <2> QED
    BY <2>1 DEF FrozenSet
<1>3. IsFiniteSet(t.steps) /\ t.steps \subseteq Nat \ {0}
      /\ \A s \in t.steps : t.says[s] \in Text \cup {Library}
  BY TreeAssumption
<1>4. \A s \in t.steps : t.parent[s] \in Nat
  BY <1>3 DEF ValidTree, None
<1>5. \A s \in t.steps : Position(t, s) \in Nat
  <2> TAKE s \in t.steps
  <2> DEFINE B == {n \in t.steps : \/ Depth(t, n) < Depth(t, s)
                                   \/ Depth(t, n) = Depth(t, s) /\ n <= s}
  <2>1. B \in SUBSET t.steps
    OBVIOUS
  <2>2. Cardinality(B) \in Nat
    BY <1>3, <2>1, FS_Subset, FS_CardinalityType
  <2> QED
    BY <2>2 DEF Position
<1>6. /\ \A s \in t.steps : who[s] \in refs /\ Suits(t.needs[s], live[who[s]])
      /\ \A s, n \in t.steps : s # n => who[s] # who[n]
  <2> DEFINE e == Suited(t, live)
  <2>1. DOMAIN e = t.steps /\ \A s \in t.steps : e[s] = {p \in refs : Suits(t.needs[s], live[p])}
    BY <1>1 DEF Suited
  <2>2. who \in Matchings(e)
    OBVIOUS
  <2> HIDE DEF e, live
  <2>3. DOMAIN who = t.steps /\ IsInjective(who) /\ \A s \in t.steps : who[s] \in e[s]
    BY <2>1, <2>2 DEF Matchings
  <2> QED
    BY <2>1, <2>3 DEF IsInjective
<1>7. /\ \A s \in t.steps : what[s] \in Texts(t, stock)[s]
      /\ \A s, n \in t.steps : s # n => what[s] # what[n]
  <2>1. DOMAIN Texts(t, stock) = t.steps
    BY DEF Texts
  <2>2. DOMAIN what = t.steps /\ IsInjective(what) /\ \A s \in t.steps : what[s] \in Texts(t, stock)[s]
    BY <2>1 DEF Matchings
  <2> QED
    BY <2>2 DEF IsInjective
<1>8. \A s \in t.steps : what[s] \in Text
  BY <1>3, <1>7 DEF Texts
<1> HIDE DEF live
<1>9. DOMAIN of = t.steps
  BY DEF Assignments
<1>10. ASSUME NEW s \in t.steps
       PROVE  /\ of[s] \in PlanRow /\ of[s].profile = who[s] /\ of[s].text = what[s]
              /\ of[s].parent = t.parent[s] /\ of[s].position = Position(t, s)
              /\ of[s].locked = FALSE
  <2>1. of[s] = [profile |-> who[s], text |-> what[s], parent |-> t.parent[s],
                 position |-> Position(t, s), revision |-> 1, locked |-> FALSE]
    BY DEF Assignments
  <2>2. who[s] \in Profile
    BY <1>1, <1>6
  <2> HIDE DEF of
  <2> QED
    BY <1>4, <1>5, <1>8, <2>1, <2>2 DEF PlanRow
<1> HIDE DEF of, f
<1>11. of \in Sheets
  <2>1. of \in [t.steps -> PlanRow]
    <3>1. of = [s \in t.steps |-> of[s]]
      BY DEF of, Assignments
    <3> QED
      BY <1>10, <3>1
  <2> QED
    BY <1>3, <2>1 DEF Sheets
<1>12. ASSUME NEW s \in DOMAIN of
       PROVE  RowFits(refs, f, of, s) /\ of[s].locked = FALSE
  <2>1. s \in t.steps
    BY <1>9
  <2>2. /\ of[s].profile = who[s] /\ of[s].text = what[s] /\ of[s].locked = FALSE
        /\ of[s].parent = t.parent[s] /\ of[s].position = Position(t, s)
    BY <1>10, <2>1
  <2>3. /\ who[s] \in refs /\ Suits(t.needs[s], live[who[s]])
        /\ what[s] \in Texts(t, stock)[s]
    BY <1>6, <1>7, <2>1
  <2> QED
    BY <1>2, <2>2, <2>3 DEF RowFits
<1>13. ASSUME NEW s \in DOMAIN of, NEW n \in DOMAIN of, s # n
       PROVE  of[s].profile # of[n].profile /\ of[s].text # of[n].text
  <2>1. s \in t.steps /\ n \in t.steps
    BY <1>9
  <2>2. /\ of[s].profile = who[s] /\ of[s].text = what[s]
        /\ of[n].profile = who[n] /\ of[n].text = what[n]
    BY <1>10, <2>1
  <2>3. who[s] # who[n] /\ what[s] # what[n]
    BY <1>6, <1>7, <1>13, <2>1
  <2> QED
    BY <2>2, <2>3
<1>14. Sound(t, refs, f, of, FALSE)
  BY <1>1, <1>2, <1>9, <1>11, <1>12, <1>13 DEF Sound
<1> QED
  BY <1>14 DEF f, of, live


-------------------------------------------------------------------------------
(* Each step of the campaign and of the requests. *)

LEMMA Planned ==
  ASSUME PlanInv, plan.status # "none"
  PROVE  /\ Pinned \in Tree /\ ValidTree(plan.mode, Pinned)
         /\ plan.pinned \in DOMAIN template.revisions /\ plan.refs \subseteq DOMAIN profile
<1>1. Pins(plan.mode, plan.pinned) /\ plan.refs \subseteq DOMAIN profile
  BY DEF PlanInv, PlanFits
<1>2. Pinned \in Tree /\ ValidTemplate(Pinned)
  BY <1>1 DEF PlanInv, TemplateFits, Pins, Pinned
<1> QED
  BY <1>1, <1>2 DEF Pins, Pinned, ValidTemplate

LEMMA CreateSteps ==
  ASSUME PlanInv, NEW r \in Planner, CreateCampaign(r)
  PROVE  PlanInv' /\ Grows /\ plan.status # Sealing /\ ~plan'.locked
<1> DEFINE q == planner[r]
<1>1. /\ q \in CreateSet /\ Pins(q.mode, q.pinned) /\ q.refs \subseteq DOMAIN profile
      /\ q.mode \in PlanMode /\ q.pinned \in Nat /\ q.refs \in SUBSET Profile
  <2>1. AskedFits(r) /\ q.pc = "create"
    BY DEF PlanInv, CreateCampaign
  <2>2. q \in CreateSet
    BY <2>1, RequestTypes DEF AskedFits
  <2> QED
    BY <2>1, <2>2 DEF AskedFits, CreateSet
<1>2. plan.status = "none" /\ plan.revision = 0
  BY DEF PlanInv, PlanFits, CreateCampaign, NoCampaign
<1>3. Proceeds(r, Unasked) /\ template' = template /\ profile' = profile
  BY DEF CreateCampaign, Closes, Proceeds
<1> HIDE DEF q
<1>4. plan' = [NoCampaign EXCEPT !.status = "draft", !.revision = 1, !.mode = q.mode,
                                 !.pinned = q.pinned, !.refs = q.refs]
  BY DEF CreateCampaign, q
<1>5. /\ plan'.status = "draft" /\ plan'.revision = 1 /\ plan'.mode = q.mode
      /\ plan'.pinned = q.pinned /\ plan'.refs = q.refs /\ plan'.locked = FALSE
      /\ plan' \in PlanSet
  BY <1>1, <1>4 DEF NoCampaign, PlanSet, PlanStatus
<1>6. PlanFits'
  BY <1>1, <1>3, <1>5 DEF PlanFits, Pins, Sealing
<1>7. Grows
  BY <1>2, <1>3, <1>5 DEF Grows
<1>8. AskedFits(r)'
  BY Answering DEF CreateCampaign
<1> QED
  BY <1>2, <1>3, <1>5, <1>6, <1>7, <1>8, Proceeding DEF Sealing

LEMMA DeleteSteps ==
  ASSUME PlanInv, DeleteCampaign
  PROVE  PlanInv' /\ Grows /\ plan.status # Sealing /\ ~plan'.locked
<1>0. PlanFits /\ plan.status = "draft" /\ plan' = Deleted
      /\ UNCHANGED <<template, profile, planner, moves>>
  BY DEF PlanInv, DeleteCampaign, Deleted
<1>1. plan.revision \in Nat /\ plan.locked = FALSE
  BY <1>0, PlanTypes DEF PlanFits, Sealing
<1>2. Grows
  BY <1>0, <1>1, DeletedPlan DEF Grows
<1>3. PlanFits'
  BY <1>0, <1>1, DeletedPlan DEF PlanFits, Pins, Sealing
<1>4. \A r \in Planner : AskedFits(r)'
  BY <1>0, <1>2, AskedStays
<1>5. TemplateFits' /\ ProfileFits' /\ moves' \in Nat /\ DOMAIN planner' = Planner
  BY <1>0 DEF PlanInv, TemplateFits, ProfileFits
<1>6. ~plan'.locked
  BY <1>0, <1>1, DeletedPlan
<1> QED
  BY <1>0, <1>2, <1>3, <1>4, <1>5, <1>6 DEF PlanInv, Sealing

\* A step of the campaign that takes it to its next revision, from a plan that is not sealed.
LEMMA PlanAdvances ==
  ASSUME PlanInv, NEW r \in Planner, Closes(r),
         plan.status # "none", plan.status # "deleted",
         NEW f, NEW of, NEW sealed \in BOOLEAN, Sound(Pinned, plan.refs, f, of, sealed),
         NEW status \in {"planned", Sealing}, sealed <=> status = Sealing,
         plan' = [plan EXCEPT !.status = status, !.locked = sealed, !.revision = @ + 1,
                              !.frozen = f, !.assignments = of]
  PROVE  PlanInv' /\ Grows /\ plan'.locked = sealed
<1>1. PlanFits /\ plan \in PlanSet /\ plan.revision \in Nat
      /\ Proceeds(r, Unasked) /\ template' = template /\ profile' = profile
  BY PlanTypes DEF PlanInv, PlanFits, Closes, Proceeds
<1>2. f \in FrozenSet /\ of \in Sheets
  BY DEF Sound
<1>3. status \in PlanStatus
  BY DEF PlanStatus, Sealing
<1> DEFINE new == [plan EXCEPT !.status = status, !.locked = sealed, !.revision = @ + 1,
                               !.frozen = f, !.assignments = of]
<1>9. f \in FrozenSet \cup {NoPlan} /\ of \in Sheets \cup {<<>>} /\ plan.revision + 1 \in Nat
  BY <1>1, <1>2
<1>10. /\ new \in PlanSet
       /\ new.status = status /\ new.locked = sealed /\ new.revision = plan.revision + 1
       /\ new.frozen = f /\ new.assignments = of /\ new.mode = plan.mode
       /\ new.pinned = plan.pinned /\ new.refs = plan.refs
  BY <1>1, <1>3, <1>9 DEF PlanSet
<1> HIDE DEF new
<1>4. /\ plan' \in PlanSet
      /\ plan'.status = status /\ plan'.locked = sealed /\ plan'.revision = plan.revision + 1
      /\ plan'.frozen = f /\ plan'.assignments = of /\ plan'.mode = plan.mode
      /\ plan'.pinned = plan.pinned /\ plan'.refs = plan.refs
  BY <1>10 DEF new
<1>5. Grows
  BY <1>1, <1>4 DEF Grows, Sealing
<1>6. PlanFits'
  <2>1. Pinned' = Pinned
    BY <1>1, <1>4 DEF Pinned
  <2>2. Pins(plan.mode, plan.pinned)' /\ plan'.refs \subseteq DOMAIN profile'
    BY <1>1, <1>4 DEF PlanFits, Pins
  <2>3. plan'.status # "none"
    BY <1>4 DEF Sealing
  <2> QED
    BY <1>4, <2>1, <2>2, <2>3 DEF PlanFits, Pins
<1>7. AskedFits(r)'
  BY Answering
<1> QED
  BY <1>1, <1>4, <1>5, <1>6, <1>7, Proceeding

LEMMA ReplaceSteps ==
  ASSUME PlanInv, NEW r \in Planner, ReplacePlan(r)
  PROVE  PlanInv' /\ Grows /\ plan.status # Sealing /\ ~plan'.locked
<1> DEFINE q == planner[r]
<1>1. AskedFits(r) /\ q.pc = "replace" /\ q \in Requests /\ Closes(r)
      /\ plan.revision = q.revision /\ plan.status # "deleted"
  BY DEF PlanInv, ReplacePlan, ReplaceMatches, AskedFits
<1>2. plan.status # "none" /\ plan.status # Sealing
      /\ Sound(Pinned, plan.refs, q.frozen, q.assignments, FALSE)
  BY <1>1 DEF AskedFits
<1>3. plan \in PlanSet /\ plan.locked = FALSE
  BY <1>2, PlanTypes DEF PlanInv, PlanFits
<1> HIDE DEF q
<1>4. plan' = [plan EXCEPT !.status = "planned", !.revision = @ + 1,
                           !.frozen = q.frozen, !.assignments = q.assignments]
  BY DEF ReplacePlan, q
<1>5. plan' = [plan EXCEPT !.status = "planned", !.locked = FALSE, !.revision = @ + 1,
                           !.frozen = q.frozen, !.assignments = q.assignments]
  BY <1>3, <1>4 DEF PlanSet
<1>6. PlanInv' /\ Grows /\ plan'.locked = FALSE
  BY <1>1, <1>2, <1>5, PlanAdvances DEF Sealing
<1> QED
  BY <1>2, <1>6

LEMMA OverrideSteps ==
  ASSUME PlanInv, NEW r \in Planner, OverrideProfile(r)
  PROVE  PlanInv' /\ Grows /\ plan.status # Sealing /\ ~plan'.locked
<1> DEFINE q == planner[r]
           of == plan.assignments
           new == [of EXCEPT ![q.step] = Given(of[q.step], q.profile)]
<1>1. AskedFits(r) /\ q.pc = "override" /\ q \in Requests /\ Closes(r)
      /\ plan.status = "planned" /\ q.revision = plan.revision
  BY DEF PlanInv, OverrideProfile, OverrideMatches, AskedFits
<1>2. /\ q.step \in DOMAIN of /\ q.profile \in plan.refs
      /\ \A n \in DOMAIN of \ {q.step} : of[n].profile # q.profile
  BY <1>1 DEF AskedFits
<1>3. plan \in PlanSet /\ plan.locked = FALSE
      /\ Sound(Pinned, plan.refs, plan.frozen, of, FALSE) /\ q.profile \in Profile
  <2>1. q \in OverrideSet
    BY <1>1, RequestTypes
  <2>2. PlanFits /\ plan.locked \in BOOLEAN
    BY PlanTypes DEF PlanInv
  <2>3. plan.locked = FALSE
    BY <1>1, <2>2 DEF PlanFits, Sealing
  <2> QED
    BY <1>1, <2>1, <2>2, <2>3 DEF PlanFits, OverrideSet
<1>4. Sound(Pinned, plan.refs, plan.frozen, new, FALSE)
  BY <1>2, <1>3, GivenIsSound
<1>5. plan' = [plan EXCEPT !.revision = @ + 1, !.assignments = new]
  BY DEF OverrideProfile
<1> HIDE DEF q, new
<1>6. plan' = [plan EXCEPT !.status = "planned", !.locked = FALSE, !.revision = @ + 1,
                           !.frozen = plan.frozen, !.assignments = new]
  BY <1>1, <1>3, <1>5 DEF PlanSet
<1>7. PlanInv' /\ Grows /\ plan'.locked = FALSE
  BY <1>1, <1>4, <1>6, PlanAdvances DEF Sealing
<1> QED
  BY <1>1, <1>7 DEF Sealing

LEMMA LockSteps ==
  ASSUME PlanInv, NEW r \in Planner, LockPlan(r)
  PROVE  /\ PlanInv' /\ Grows /\ plan.status # Sealing
         /\ planner[r].pc = "lock" /\ planner'[r].pc = "idle"
         /\ plan.assignments = planner[r].seen
<1> DEFINE q == planner[r]
           of == plan.assignments
           new == [s \in DOMAIN of |-> Sealed(of[s])]
<1>1. AskedFits(r) /\ q.pc = "lock" /\ q \in Requests /\ Closes(r)
      /\ q.revision = plan.revision
  BY DEF PlanInv, LockPlan, LockMatches, AskedFits
<1>2. plan.status = "planned" /\ q.seen = of
  BY <1>1 DEF AskedFits
<1>3. plan \in PlanSet /\ Sound(Pinned, plan.refs, plan.frozen, of, FALSE)
  <2>1. PlanFits /\ plan.locked \in BOOLEAN
    BY PlanTypes DEF PlanInv
  <2>2. plan.locked = FALSE
    BY <1>2, <2>1 DEF PlanFits, Sealing
  <2> QED
    BY <1>2, <2>1, <2>2 DEF PlanFits
<1>4. Sound(Pinned, plan.refs, plan.frozen, new, TRUE)
  BY <1>3, SealedIsSound
<1>5. plan' = [plan EXCEPT !.status = Sealing, !.locked = TRUE, !.revision = @ + 1,
                           !.assignments = new]
  BY DEF LockPlan, Sealing
<1>6. planner'[r].pc = "idle"
  BY <1>1 DEF Closes, Proceeds, PlanInv, Unasked
<1> HIDE DEF q, new
<1>7. plan' = [plan EXCEPT !.status = Sealing, !.locked = TRUE, !.revision = @ + 1,
                           !.frozen = plan.frozen, !.assignments = new]
  BY <1>3, <1>5 DEF PlanSet
<1>8. PlanInv' /\ Grows
  BY <1>1, <1>2, <1>4, <1>7, PlanAdvances
<1> QED
  BY <1>1, <1>2, <1>6, <1>8 DEF Sealing, q

LEMMA CreateAsked ==
  ASSUME PlanInv, NEW r \in Planner, CheckCreate(r)
  PROVE  PlanInv' /\ UNCHANGED plan /\ Grows
<1>1. PICK v \in DOMAIN template.revisions, refs \in (SUBSET DOMAIN profile) \ {{}} :
        \E m \in template.revisions[v].modes :
          Reads(r, [pc |-> "create", mode |-> m, pinned |-> v, refs |-> refs])
  BY DEF CheckCreate
<1>2. PICK m \in template.revisions[v].modes :
        Reads(r, [pc |-> "create", mode |-> m, pinned |-> v, refs |-> refs])
  BY <1>1
<1> DEFINE to == [pc |-> "create", mode |-> m, pinned |-> v, refs |-> refs]
<1>3. Proceeds(r, to) /\ UNCHANGED plan /\ UNCHANGED <<template, profile>> /\ planner'[r] = to
  BY <1>2 DEF Reads, Proceeds, PlanInv
<1>4. to \in CreateSet
  <2>1. v \in Nat /\ template.revisions[v] \in Tree
    BY DEF PlanInv, TemplateFits
  <2>2. m \in PlanMode
    BY <2>1, TreeAssumption DEF PlanMode
  <2>3. refs \in SUBSET Profile
    BY DEF PlanInv, ProfileFits
  <2> QED
    BY <2>1, <2>2, <2>3 DEF CreateSet
<1>5. to \in Requests /\ to.pc = "create" /\ to.mode = m /\ to.pinned = v /\ to.refs = refs
  BY <1>4 DEF Requests
<1> HIDE DEF to
<1>6. Pins(m, v)' /\ refs \subseteq DOMAIN profile'
  BY <1>3 DEF Pins
<1>7. AskedFits(r)'
  BY <1>3, <1>5, <1>6 DEF AskedFits
<1> QED
  BY <1>3, <1>7, SamePlan, Proceeding

LEMMA PlanAsked ==
  ASSUME PlanInv, NEW r \in Planner, BeginPlan(r)
  PROVE  PlanInv' /\ UNCHANGED plan /\ Grows
<1> DEFINE to == [pc |-> "plan", revision |-> plan.revision]
<1>1. Proceeds(r, to) /\ UNCHANGED plan /\ planner'[r] = to /\ plan.status # "none"
  BY DEF BeginPlan, Plannable, Reads, Proceeds, PlanInv
<1>2. plan.revision \in Nat
  BY PlanTypes DEF PlanInv
<1>3. to \in Requests /\ to.pc = "plan" /\ to.revision = plan.revision
  BY <1>2 DEF Requests, BeginSet
<1> HIDE DEF to
<1>4. AskedFits(r)'
  BY <1>1, <1>2, <1>3 DEF AskedFits
<1> QED
  BY <1>1, <1>4, SamePlan, Proceeding

LEMMA Allocated ==
  ASSUME PlanInv, NEW r \in Planner, Allocate(r)
  PROVE  PlanInv' /\ UNCHANGED plan /\ Grows
<1> DEFINE q == planner[r]
           live == Restrict(profile, plan.refs)
           Chosen(stock, who, what) ==
             [pc |-> "check", revision |-> q.revision,
              frozen |-> [tree |-> Pinned, stock |-> stock, live |-> live],
              assignments |-> Assignments(Pinned, who, what)]
<1>1. PICK stock \in (SUBSET Text) \ {{}} :
        \E who \in Matchings(Suited(Pinned, live)), what \in Matchings(Texts(Pinned, stock)) :
          Proceeds(r, Chosen(stock, who, what))
  BY DEF Allocate, Pinned
<1>2. PICK who \in Matchings(Suited(Pinned, live)), what \in Matchings(Texts(Pinned, stock)) :
        Proceeds(r, Chosen(stock, who, what))
  BY <1>1
<1>3. AskedFits(r) /\ q.pc = "plan" /\ q \in Requests /\ UNCHANGED plan
  BY DEF PlanInv, Allocate, AskedFits
<1>4. plan.status # "none" /\ q.revision \in Nat /\ q.revision <= plan.revision
  BY <1>3, RequestTypes DEF AskedFits
<1> DEFINE f == [tree |-> Pinned, stock |-> stock, live |-> live]
           of == Assignments(Pinned, who, what)
           to == Chosen(stock, who, what)
<1>5. Sound(Pinned, plan.refs, f, of, FALSE)
  BY <1>4, Planned, ChoiceIsSound DEF PlanInv
<1>6. f \in FrozenSet /\ of \in Sheets
  BY <1>5 DEF Sound
<1> HIDE DEF f, of
<1>7. to = [pc |-> "check", revision |-> q.revision, frozen |-> f, assignments |-> of]
  BY DEF f, of
<1>8. Proceeds(r, to)
  BY <1>2
<1> HIDE DEF to
<1>9. planner'[r] = to /\ UNCHANGED <<template, plan>>
  BY <1>3, <1>8 DEF Proceeds, PlanInv
<1> HIDE DEF q
<1>10. /\ to \in ReplaceSet /\ to.pc = "check" /\ to.revision = q.revision
       /\ to.frozen = f /\ to.assignments = of
  BY <1>4, <1>6, <1>7 DEF ReplaceSet
<1>11. to \in Requests
  BY <1>10 DEF Requests
<1>12. Pinned' = Pinned
  BY <1>9 DEF Pinned
<1>13. AskedFits(r)'
  BY <1>4, <1>5, <1>9, <1>10, <1>11, <1>12 DEF AskedFits
<1> QED
  BY <1>8, <1>9, <1>13, SamePlan, Proceeding

LEMMA ReplaceAsked ==
  ASSUME PlanInv, NEW r \in Planner, CheckReplace(r)
  PROVE  PlanInv' /\ UNCHANGED plan /\ Grows
<1> DEFINE q == planner[r]
           to == [q EXCEPT !.pc = "replace"]
<1>1. AskedFits(r) /\ q.pc = "check" /\ q \in Requests /\ UNCHANGED plan
      /\ plan.status \in {"draft", "planned"} /\ Proceeds(r, to)
  BY DEF PlanInv, CheckReplace, AskedFits, Plannable
<1>2. q \in ReplaceSet /\ q.revision <= plan.revision
      /\ Sound(Pinned, plan.refs, q.frozen, q.assignments, FALSE)
  BY <1>1, RequestTypes DEF AskedFits
<1>3. planner'[r] = to /\ UNCHANGED <<template, plan>>
  BY <1>1 DEF Proceeds, PlanInv
<1> HIDE DEF q
<1>4. /\ to \in ReplaceSet /\ to.pc = "replace" /\ to.revision = q.revision
      /\ to.frozen = q.frozen /\ to.assignments = q.assignments
  BY <1>2 DEF ReplaceSet
<1> HIDE DEF to
<1>5. to \in Requests
  BY <1>4 DEF Requests
<1>6. Pinned' = Pinned
  BY <1>3 DEF Pinned
<1>7. AskedFits(r)'
  BY <1>1, <1>2, <1>3, <1>4, <1>5, <1>6 DEF AskedFits, Sealing
<1> QED
  BY <1>1, <1>7, SamePlan, Proceeding

LEMMA OverrideAsked ==
  ASSUME PlanInv, NEW r \in Planner, CheckOverride(r)
  PROVE  PlanInv' /\ UNCHANGED plan /\ Grows
<1> DEFINE of == plan.assignments
           Asked(s, p) == [pc |-> "override", step |-> s, profile |-> p,
                           revision |-> plan.revision, was |-> of[s].revision]
<1>1. plan.status = "planned"
  BY DEF CheckOverride
<1>2. PICK s \in DOMAIN of, p \in plan.refs :
        /\ \A o \in DOMAIN of \ {s} : of[o].profile # p
        /\ Reads(r, Asked(s, p))
  BY DEF CheckOverride
<1> DEFINE to == Asked(s, p)
<1>3. Proceeds(r, to) /\ UNCHANGED plan /\ planner'[r] = to
  BY <1>2 DEF Reads, Proceeds, PlanInv
<1>4. of \in Sheets /\ plan.revision \in Nat /\ p \in Profile
  <2>1. Sound(Pinned, plan.refs, plan.frozen, of, plan.locked)
    BY <1>1 DEF PlanInv, PlanFits
  <2>2. plan.revision \in Nat /\ plan.refs \in SUBSET Profile
    BY PlanTypes DEF PlanInv
  <2> QED
    BY <2>1, <2>2 DEF Sound
<1>5. s \in Nat /\ of[s].revision \in Nat
  <2>1. DOMAIN of \subseteq Nat /\ of[s] \in PlanRow
    BY <1>4, SheetType
  <2> QED
    BY <2>1 DEF PlanRow
<1> HIDE DEF of
<1>6. /\ to \in OverrideSet /\ to.pc = "override" /\ to.step = s /\ to.profile = p
      /\ to.revision = plan.revision
  BY <1>4, <1>5 DEF OverrideSet
<1> HIDE DEF to
<1>7. to \in Requests
  BY <1>6 DEF Requests
<1>8. AskedFits(r)'
  BY <1>1, <1>2, <1>3, <1>4, <1>6, <1>7 DEF AskedFits, of
<1> QED
  BY <1>3, <1>8, SamePlan, Proceeding

LEMMA LockAsked ==
  ASSUME PlanInv, NEW r \in Planner, CheckLock(r)
  PROVE  PlanInv' /\ UNCHANGED plan /\ Grows
<1> DEFINE to == [pc |-> "lock", revision |-> plan.revision, seen |-> plan.assignments]
<1>1. plan.status = "planned" /\ Proceeds(r, to) /\ UNCHANGED plan /\ planner'[r] = to
  BY DEF CheckLock, Reads, Proceeds, PlanInv
<1>2. plan.revision \in Nat /\ plan.assignments \in Sheets \cup {<<>>}
  BY PlanTypes DEF PlanInv
<1>3. /\ to \in LockSet /\ to.pc = "lock" /\ to.revision = plan.revision
      /\ to.seen = plan.assignments
  BY <1>2 DEF LockSet
<1> HIDE DEF to
<1>4. to \in Requests
  BY <1>3 DEF Requests
<1>5. AskedFits(r)'
  BY <1>1, <1>2, <1>3, <1>4 DEF AskedFits
<1> QED
  BY <1>1, <1>5, SamePlan, Proceeding

LEMMA RefusedSteps ==
  ASSUME PlanInv, NEW r \in Planner, Refused(r)
  PROVE  PlanInv' /\ UNCHANGED plan /\ Grows
<1>1. Closes(r) /\ UNCHANGED plan
  BY DEF Refused
<1>2. Proceeds(r, Unasked)
  BY <1>1 DEF Closes
<1> QED
  BY <1>1, <1>2, Answering, SamePlan, Proceeding

\* What a step does to a plan: nothing, or it keeps it unsealed, or it is the lock of a request
\* that read the assignments as they are.
LEMMA PlanSteps ==
  ASSUME PlanInv, PlanNext
  PROVE  /\ PlanInv' /\ Grows
         /\ \/ plan' = plan
            \/ plan.status # Sealing /\ ~plan'.locked
            \/ plan.status # Sealing /\ \E r \in Planner :
                 /\ planner[r].pc = "lock" /\ planner'[r].pc = "idle"
                 /\ plan.assignments = planner[r].seen
<1>1. CASE CreateTemplate \/ UpdateTemplate \/ DisableTemplate \/ EnableTemplate \/ DeleteTemplate
  <2>1. TemplateFits' /\ Grows /\ UNCHANGED <<profile, plan, planner, moves>>
    BY <1>1, TemplateSteps
  <2>2. PlanFits' /\ ProfileFits' /\ moves' \in Nat /\ DOMAIN planner' = Planner
    BY <2>1, PlanStays DEF PlanInv, ProfileFits
  <2>3. \A r \in Planner : AskedFits(r)'
    BY <2>1, AskedStays
  <2> QED
    BY <2>1, <2>2, <2>3 DEF PlanInv
<1>2. CASE \E p \in Profile : SyncProfile(p) \/ SetProfile(p)
  <2>1. ProfileFits' /\ Grows /\ moves' \in Nat /\ UNCHANGED <<template, plan, planner>>
    BY <1>2, ProfileSteps
  <2>2. PlanFits' /\ TemplateFits' /\ DOMAIN planner' = Planner
    BY <2>1, PlanStays DEF PlanInv, TemplateFits
  <2>3. \A r \in Planner : AskedFits(r)'
    BY <2>1, AskedStays
  <2> QED
    BY <2>1, <2>2, <2>3 DEF PlanInv
<1>3. CASE DeleteCampaign
  BY <1>3, DeleteSteps
<1>4. ASSUME NEW r \in Planner, CreateCampaign(r) \/ ReplacePlan(r) \/ OverrideProfile(r)
      PROVE  PlanInv' /\ Grows /\ plan.status # Sealing /\ ~plan'.locked
  BY <1>4, CreateSteps, ReplaceSteps, OverrideSteps
<1>5. ASSUME NEW r \in Planner, LockPlan(r)
      PROVE  /\ PlanInv' /\ Grows /\ plan.status # Sealing
             /\ planner[r].pc = "lock" /\ planner'[r].pc = "idle"
             /\ plan.assignments = planner[r].seen
  BY <1>5, LockSteps
<1>6. ASSUME NEW r \in Planner,
             \/ CheckCreate(r) \/ BeginPlan(r) \/ Allocate(r) \/ CheckReplace(r)
             \/ CheckOverride(r) \/ CheckLock(r) \/ Refused(r)
      PROVE  PlanInv' /\ UNCHANGED plan /\ Grows
  BY <1>6, CreateAsked, PlanAsked, Allocated, ReplaceAsked, OverrideAsked, LockAsked, RefusedSteps
<1> QED
  BY <1>1, <1>2, <1>3, <1>4, <1>5, <1>6 DEF PlanNext

LEMMA PlanInvariant == PlanSpec => []PlanInv
<1>1. PlanInit => PlanInv
  <2> SUFFICES ASSUME PlanInit
               PROVE  PlanInv
    OBVIOUS
  <2>1. TemplateFits
    <3>1. template.revisions = <<>> /\ template.status = "none"
      BY DEF PlanInit
    <3>2. <<>> \in Seq(Tree) /\ DOMAIN <<>> = {}
      BY EmptySeq
    <3> QED
      BY <3>1, <3>2 DEF PlanInit, TemplateFits
  <2>2. ProfileFits
    BY DEF PlanInit, ProfileFits
  <2>3. PlanFits
    <3>1. NoCampaign \in PlanSet /\ NoCampaign.status = "none" /\ NoCampaign.locked = FALSE
      BY DEF NoCampaign, PlanSet, PlanStatus, PlanMode
    <3> QED
      BY <3>1 DEF PlanInit, PlanFits, Sealing
  <2>4. \A r \in Planner : AskedFits(r)
    BY DEF PlanInit, AskedFits, Requests, Unasked
  <2> QED
    BY <2>1, <2>2, <2>3, <2>4 DEF PlanInv, PlanInit
<1>2. PlanInv /\ [PlanNext]_planVars => PlanInv'
  <2>1. CASE PlanNext
    BY <2>1, PlanSteps
  <2>2. CASE UNCHANGED planVars
    BY <2>2 DEF planVars, PlanInv, TemplateFits, ProfileFits, PlanFits, AskedFits, Pins, Pinned
  <2> QED
    BY <2>1, <2>2
<1> QED
  BY <1>1, <1>2, PTL DEF PlanSpec

\* A plan on record passes the validation of a lock, however it was made, replaced and corrected
\* by hand while other requests did the same: for any trees, profiles, tags and requests.
THEOREM PlansHold == PlanSpec => []PlanningSafe
<1>1. PlanInv => PlanTypeOK
  <2> SUFFICES ASSUME PlanInv
               PROVE  PlanTypeOK
    OBVIOUS
  <2>1. plan.status # "none" => plan.pinned \in DOMAIN template.revisions
                                 /\ plan.refs \subseteq DOMAIN profile
    BY Planned
  <2>2. plan.status = "none" => plan.pinned = 0 /\ plan.refs = {}
    BY DEF PlanInv, PlanFits, NoCampaign
  <2>3. plan.status \in PlanStatus
    BY PlanTypes DEF PlanInv
  <2> QED
    BY <2>1, <2>2, <2>3 DEF PlanInv, TemplateFits, ProfileFits, PlanTypeOK, PlanStatus
<1>2. PlanInv => PlanHolds
  <2> DEFINE of == plan.assignments
             f == plan.frozen
             t == f.tree
  <2> SUFFICES ASSUME PlanInv, plan.status \in {"planned", Sealing}
               PROVE  /\ t = template.revisions[plan.pinned] /\ ValidTree(plan.mode, t)
                      /\ ShapeHolds
                      /\ IsInjective([s \in DOMAIN of |-> of[s].text])
                      /\ \A s \in DOMAIN of :
                           /\ of[s].profile \in plan.refs
                           /\ of[s].parent # None => of[of[s].parent].position < of[s].position
                           /\ of[s].locked <=> plan.locked
                           /\ of[s].revision = 1 => Suits(t.needs[s], f.live[of[s].profile])
    BY DEF PlanHolds, Sealing
  <2>1. Sound(Pinned, plan.refs, f, of, plan.locked) /\ plan.locked \in BOOLEAN
    BY PlanTypes DEF PlanInv, PlanFits
  <2>2. t = Pinned /\ t \in Tree /\ ValidTree(plan.mode, t)
    BY <2>1, Planned DEF Sound, Sealing
  <2>3. /\ DOMAIN f.live = plan.refs /\ DOMAIN of = t.steps
        /\ \A s, n \in DOMAIN of : s # n => of[s].profile # of[n].profile /\ of[s].text # of[n].text
        /\ \A s \in DOMAIN of : RowFits(plan.refs, f, of, s) /\ of[s].locked = plan.locked
    BY <2>1, <2>2 DEF Sound
  <2> HIDE DEF of, f
  <2>4. ShapeHolds
    BY <2>3 DEF ShapeHolds, RowFits, IsInjective, of, f
  <2>5. IsInjective([s \in DOMAIN of |-> of[s].text])
    BY <2>3 DEF IsInjective
  <2>6. ASSUME NEW s \in DOMAIN of, of[s].parent # None
        PROVE  of[of[s].parent].position < of[s].position
    <3>1. s \in t.steps /\ of[s].parent = t.parent[s] /\ of[s].position = Position(t, s)
      BY <2>3 DEF RowFits
    <3>2. t.parent[s] \in t.steps /\ Position(t, t.parent[s]) < Position(t, s)
      BY <2>2, <2>6, <3>1, ParentComesFirst
    <3>3. of[t.parent[s]].position = Position(t, t.parent[s])
      BY <2>3, <3>2 DEF RowFits
    <3> QED
      BY <3>1, <3>2, <3>3
  <2>7. \A s \in DOMAIN of :
          /\ of[s].profile \in plan.refs /\ (of[s].locked <=> plan.locked)
          /\ of[s].revision = 1 => Suits(t.needs[s], f.live[of[s].profile])
    BY <2>1, <2>3 DEF RowFits
  <2> QED
    BY <2>2, <2>4, <2>5, <2>6, <2>7 DEF Pinned
<1> QED
  BY <1>1, <1>2, PlanInvariant, PTL DEF PlanningSafe

\* What an operator approves is what was validated: a plan that changes has a new revision, a
\* lock seals what it looked at, and no request that began before it changes a locked plan.
THEOREM SealedPlansStand == PlanSpec => SealedPlanStands
<1> DEFINE Stands ==
      /\ plan.locked => Plan' = Plan /\ plan'.locked
      /\ Plan' # Plan => plan'.revision > plan.revision
      /\ plan'.locked /\ ~plan.locked =>
           \E r \in Planner : /\ planner[r].pc = "lock" /\ planner'[r].pc = "idle"
                              /\ plan.assignments = planner[r].seen
<1>1. ASSUME PlanInv, [PlanNext]_planVars
      PROVE  Stands
  <2>1. CASE PlanNext
    <3>1. /\ Grows
          /\ \/ plan' = plan
             \/ plan.status # Sealing /\ ~plan'.locked
             \/ plan.status # Sealing /\ \E r \in Planner :
                  /\ planner[r].pc = "lock" /\ planner'[r].pc = "idle"
                  /\ plan.assignments = planner[r].seen
      BY <1>1, <2>1, PlanSteps
    <3>2. /\ plan.locked <=> plan.status = Sealing
          /\ plan.revision \in Nat /\ plan'.revision \in Nat
      BY <1>1, <3>1, PlanTypes DEF PlanInv, PlanFits, Grows
    <3>3. plan' = plan => Plan' = Plan
      BY DEF Plan
    <3>4. plan' = Deleted => Plan' = Plan
      BY <1>1, DeletedPlan DEF Plan, PlanInv
    <3>5. Plan' # Plan => plan'.revision > plan.revision
      BY <3>1, <3>2, <3>3, <3>4 DEF Grows
    <3> QED
      BY <3>1, <3>2, <3>3, <3>5
  <2>2. CASE UNCHANGED planVars
    BY <2>2 DEF planVars, Plan
  <2> QED
    BY <1>1, <2>1, <2>2
<1>2. PlanInv /\ [PlanNext]_planVars => [Stands]_planVars
  BY <1>1
<1> QED
  BY <1>2, PlanInvariant, PTL DEF PlanSpec, SealedPlanStands

===============================================================================
