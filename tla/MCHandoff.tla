----------------------------- MODULE MCHandoff -----------------------------
(* Two sessions of one order, in the worktree the second one reuses.        *)
EXTENDS Handoff

CONSTANT w1
=============================================================================
