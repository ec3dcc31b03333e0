---------------------------- MODULE CampaignDomain ----------------------------
(***************************************************************************)
(* The two status machines every Comment Campaign component shares         *)
(* (comment_campaign/domain.py).  A status is the string the database      *)
(* column holds; "planned", "paused", "failed" and "cancelled" belong to   *)
(* both machines.                                                          *)
(***************************************************************************)

CampaignStatus ==
  {"draft", "planned", "awaiting_campaign_approval", "queued", "running",
   "paused", "failed", "completed", "cancelled"}

AssignmentStatus ==
  {"planned", "waiting_dependency", "opening_profile", "locating_video",
   "locating_parent", "preparing_comment", "awaiting_step_approval",
   "submitting", "verifying_receipt", "published_verified",
   "published_unverified", "paused", "paused_dependency", "failed", "cancelled"}

\* domain.py CAMPAIGN_TRANSITIONS: the statuses a campaign may move to.
CampaignTransitions == [s \in CampaignStatus |->
  CASE s = "draft"    -> {"planned", "cancelled"}
    [] s = "planned"  -> {"awaiting_campaign_approval", "draft", "cancelled"}
    [] s = "awaiting_campaign_approval" -> {"queued", "draft", "cancelled"}
    [] s = "queued"   -> {"running", "paused", "cancelled"}
    [] s = "running"  -> {"paused", "failed", "completed", "cancelled"}
    [] s = "paused"   -> {"queued", "cancelled"}
    [] OTHER          -> {}]

\* domain.py ASSIGNMENT_TRANSITIONS: the statuses one planned comment may move to.
AssignmentTransitions == [s \in AssignmentStatus |->
  CASE s = "planned"           -> {"waiting_dependency", "opening_profile",
                                   "paused_dependency", "cancelled"}
    [] s = "waiting_dependency" -> {"opening_profile", "paused_dependency", "cancelled"}
    [] s = "opening_profile"   -> {"locating_video", "failed", "paused", "paused_dependency"}
    [] s = "locating_video"    -> {"locating_parent", "preparing_comment", "failed",
                                   "paused", "paused_dependency"}
    [] s = "locating_parent"   -> {"preparing_comment", "failed", "paused_dependency"}
    [] s = "preparing_comment" -> {"awaiting_step_approval", "failed", "paused",
                                   "paused_dependency"}
    [] s = "awaiting_step_approval" -> {"submitting", "paused", "paused_dependency", "cancelled"}
    [] s = "submitting"        -> {"verifying_receipt", "published_unverified"}
    [] s = "verifying_receipt" -> {"published_verified", "published_unverified"}
    [] s = "published_unverified" -> {"published_verified", "paused"}
    [] s = "paused"            -> {"opening_profile", "waiting_dependency", "cancelled"}
    [] s = "paused_dependency" -> {"waiting_dependency", "cancelled"}
    [] OTHER                   -> {}]

\* domain.py _transition, for each machine.
CampaignMove(s, t)   == t \in CampaignTransitions[s]
AssignmentMove(s, t) == t \in AssignmentTransitions[s]
===============================================================================
