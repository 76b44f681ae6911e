---- MODULE MCClaimCycle ----
EXTENDS ClaimCycle, TLC

\* Boundaries: docs is apart, src contains src/a and src/b, which are disjoint.
Docs == {<<"docs">>}
Src == {<<"src">>}
SrcA == {<<"src", "a">>}
SrcB == {<<"src", "b">>}

MCBoundary == {Docs, Src, SrcA, SrcB}
OneBoundary == {SrcA}

One == <<SrcA>>
Four == <<SrcA, SrcB, Docs, Docs>>
Five == <<Docs, Docs, Src, Docs, SrcA>>

\* 1 depends on 2, 3 and 4, and 5 on 2: one component of five.  When 2 has landed
\* 5 stands apart, and writes inside what 3 declares.
Wave == {<<1, 2>>, <<1, 3>>, <<1, 4>>, <<5, 2>>}

\* 4 joins the chain of 1 and 2 to 3.
Bridge == {<<1, 2>>, <<4, 1>>, <<4, 3>>}

\* Authors leave the last two states to the lane.
Rewrites == {b \in Body : b.state \in {"ready", "blocked", "malformed"}}

\* A corner of Spec: every schedule session proposes one order, and a lane once
\* started goes on to its landing.
Progress ==
    \/ \E e \in Root : PromoteOrders(e)
    \/ \E e \in Root, s \in Subject :
        \/ StartSession(e, s) \/ PushCommit(e, s)
        \/ OpenPullRequest(e, s) \/ ExecuteHandoff(e, s)
    \/ \E s \in Subject : LandPullRequest(s)

SingleOrders ==
    \/ Progress /\ UNCHANGED cycleVars
    \/ \E e \in Root : Cycle(e) \/ \E s \in Subject : Begin(e, {s})

SingleOrdersSpec == Init /\ [][SingleOrders]_vars

RootSymmetry == Permutations(Root)
====
