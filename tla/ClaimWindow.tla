---------------------------- MODULE ClaimWindow ----------------------------
(***************************************************************************)
(* The window of a claim: schedule_publish reads the pull requests that    *)
(* name a candidate, and creates its branch some calls later.  People open *)
(* and close pull requests in between, and the provider refuses none of    *)
(* it.  A history variable keeps what had been open all along, and so says *)
(* what the read does and does not keep apart.                             *)
(***************************************************************************)
EXTENDS ClaimCycle

VARIABLE
    standing  \* standing[e]: the candidate of e, when a foreign pull request of it
              \* has been open ever since the cycle took it up (history)

windowVars == <<vars, standing>>

\* From the moment the loop takes a candidate up until it leaves.
Judging == {"freshRefs", "freshIssues", "contract", "pullRequests", "adopt", "head",
            "claim", "bind"}

StillOpen(e, s) == pr'[s] = "foreign" /\ (pc[e] = "next" \/ s \in standing[e])

Remember ==
    standing' = [e \in Root |->
        {s \in Subject : pc'[e] \in Judging /\ Candidate(e, s)' /\ StillOpen(e, s)}]

WindowInit == Init /\ standing = [e \in Root |-> {}]

WindowSpec == WindowInit /\ [][Next /\ Remember]_windowVars

AnsweredWindowSpec == WindowInit /\ [][Answered /\ Remember]_windowVars
-----------------------------------------------------------------------------
\* I4 and its window: no subject is claimed afresh, adopted or taken for published
\* over a pull request of another branch that was open when the cycle took the
\* subject up and has been since.  One that opened after the pull requests were
\* read, or was closed and opened again, is not seen: that is what remains.
StandingPullRequestBlocks ==
    [][\A e \in Root :
          ((created'[e] \cup won'[e]) \ (created[e] \cup won[e]))
              \cap standing[e] = {}]_windowVars

\* Its strengthening: what passed the read has no standing pull request.
PassedHasNone ==
    \A e \in Root : pc[e] \in {"adopt", "head", "claim", "bind"} => standing[e] = {}
=============================================================================
