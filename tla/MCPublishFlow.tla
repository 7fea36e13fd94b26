----------------------------- MODULE MCPublishFlow -----------------------------
(* Models of PublishFlow for TLC; the configurations give the constants. *)
EXTENDS PublishFlow
===============================================================================
