---- MODULE MCClaimWindow ----
EXTENDS MCClaimCycle, ClaimWindow
====
