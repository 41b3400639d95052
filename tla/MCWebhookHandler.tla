--------------------------- MODULE MCWebhookHandler ---------------------------
(***************************************************************************)
(* Instances of WebhookHandler.  One unit of time is 150 s; the retention  *)
(* window is shortened to the least the argument needs (Tolerance + Skew), *)
(* so that claims do expire within MaxTime.                                *)
(***************************************************************************)
EXTENDS WebhookHandler

CONSTANTS succeeded, dispute   \* events, by what they announce
=============================================================================
