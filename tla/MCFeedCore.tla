----------------------------- MODULE MCFeedCore -----------------------------
(* Instance of FeedCore for TLC: one client c1.                             *)
EXTENDS FeedCore, TLC

CONSTANT c1
=============================================================================
