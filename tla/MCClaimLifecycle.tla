---- MODULE MCClaimLifecycle ----
EXTENDS ClaimLifecycle, TLC

CONSTANTS w1, w2, r1

SrcBoundary == {{<<"src">>}}
SrcDeclared == <<{<<"src">>}>>

\* The supervised loop and a reconcile run of one root.
OneHome == [w \in Sweeper |-> r1]
====
