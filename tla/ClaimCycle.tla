----------------------------- MODULE ClaimCycle -----------------------------
(***************************************************************************)
(* noodles.schedule_publish: the claim cycle an executor root runs over    *)
(* the orders its schedule session proposed.  A snapshot is two steps, the *)
(* branch refs and then the issues, and from there on every provider call  *)
(* is one (the reads that class one orphan are one step too), so cycles of *)
(* several roots, the lanes already running and the authors of the issues  *)
(* interleave between any two of them.                                     *)
(***************************************************************************)
EXTENDS Provider

VARIABLES
    pc,       \* pc[e]: the step the cycle of root e is at
    outcome,  \* outcome[e][s]: claim status of the receipt, "pending" while the
              \* order of s waits its turn, "none" when s was not proposed
    seen,     \* seen[e]: claims the last matching-refs read returned
    winners,  \* winners[e]: initial_winners, decided once per cycle
    orphans,  \* orphans[e][s]: identity of an adoptable claim, or NoOrphan
    reserved, \* reserved[e]: reserved_boundaries
    contract, \* contract[e]: body of the current candidate as last read
    base,     \* base[e]: head the claim of the current candidate will carry
    won,      \* won[e]: claimed_orders
    created   \* created[e]: execute branches this cycle created (history)

cycleVars == <<pc, outcome, seen, winners, orphans, reserved, contract, base, won, created>>
vars == <<githubVars, rootVars, cycleVars>>

NoOrphan == [body |-> Malformed, head |-> None]
Identity == [body : Body, head : Commit \cup {None}]

Step == {"idle", "refs", "issues", "orphans", "next", "freshRefs", "freshIssues",
         "contract", "pullRequests", "adopt", "head", "claim", "bind", "validate", "publish"}
Status == {"none", "pending", "claimed", "claimed_elsewhere", "dependency_changed",
           "frontier_changed", "not_in_winners", "boundary_conflict",
           "boundary_undeclared", "executor_refused", "open_pr_exists"}

TypeOK ==
    /\ ProviderTypeOK
    /\ pc \in [Root -> Step]
    /\ outcome \in [Root -> [Subject -> Status]]
    /\ seen \in [Root -> SUBSET Subject]
    /\ winners \in [Root -> SUBSET Subject]
    /\ orphans \in [Root -> [Subject -> Identity]]
    /\ reserved \in [Root -> SUBSET [subject : Subject, boundary : Boundary \cup {Undeclared}]]
    /\ contract \in [Root -> Body]
    /\ base \in [Root -> Commit \cup {None}]
    /\ won \in [Root -> SUBSET Subject]
    /\ created \in [Root -> SUBSET Subject]

Init ==
    /\ ProviderInit
    /\ pc = [e \in Root |-> "idle"]
    /\ outcome = [e \in Root |-> [s \in Subject |-> "none"]]
    /\ seen = [e \in Root |-> {}]
    /\ winners = [e \in Root |-> {}]
    /\ orphans = [e \in Root |-> [s \in Subject |-> NoOrphan]]
    /\ reserved = [e \in Root |-> {}]
    /\ contract = [e \in Root |-> Malformed]
    /\ base = [e \in Root |-> None]
    /\ won = [e \in Root |-> {}]
    /\ created = [e \in Root |-> {}]
-----------------------------------------------------------------------------
\* What schedule_snapshot makes of the issues now and of the refs read before.

OpenReadable == {s \in Subject : open[s] /\ Readable(s)}
LiveClaims(e) == {s \in seen[e] : open[s]}
MalformedClaim(e) == \E s \in LiveClaims(e) : ~Readable(s)
Eligible == {s \in P0 : Schedulable(s)}
SnapshotWinners(e) ==
    Winners(OpenReadable, Depends, LiveClaims(e), Eligible, MalformedClaim(e))

\* The orders still to judge are taken by issue number.
Candidate(e, s) ==
    /\ outcome[e][s] = "pending"
    /\ \A t \in Subject : outcome[e][t] = "pending" => s <= t

IsOrphan(e, s) == orphans[e][s] # NoOrphan

\* A cycle ends, published or failed: its working state is dropped.
EndCycle(e) ==
    /\ pc' = [pc EXCEPT ![e] = "idle"]
    /\ outcome' = [outcome EXCEPT ![e] = [s \in Subject |-> "none"]]
    /\ seen' = [seen EXCEPT ![e] = {}]
    /\ winners' = [winners EXCEPT ![e] = {}]
    /\ orphans' = [orphans EXCEPT ![e] = [s \in Subject |-> NoOrphan]]
    /\ reserved' = [reserved EXCEPT ![e] = {}]
    /\ contract' = [contract EXCEPT ![e] = Malformed]
    /\ base' = [base EXCEPT ![e] = None]
    /\ won' = [won EXCEPT ![e] = {}]
    /\ created' = [created EXCEPT ![e] = {}]

\* The candidate leaves with its receipt status and the loop goes on; what was
\* read for it is not used again.
Leave(e, s, status) ==
    /\ outcome' = [outcome EXCEPT ![e][s] = status]
    /\ pc' = [pc EXCEPT ![e] = "next"]
    /\ seen' = [seen EXCEPT ![e] = {}]
    /\ contract' = [contract EXCEPT ![e] = Malformed]
    /\ base' = [base EXCEPT ![e] = None]

Go(e, step) ==
    /\ pc' = [pc EXCEPT ![e] = step]
    /\ UNCHANGED outcome

Reads == <<seen, contract, base>>
Decided == <<winners, orphans, reserved>>
Claimed == <<won, created>>
-----------------------------------------------------------------------------
\* The schedule session proposes orders; an active order may not be among them.
Begin(e, proposal) ==
    /\ pc[e] = "idle" /\ proposal \cap active[e] = {}
    /\ pc' = [pc EXCEPT ![e] = "refs"]
    /\ outcome' = [outcome EXCEPT ![e] =
                      [s \in Subject |-> IF s \in proposal THEN "pending" ELSE "none"]]
    /\ UNCHANGED <<githubVars, rootVars, Reads, Decided, Claimed>>

SnapshotRefs(e) ==
    /\ pc[e] = "refs"
    /\ seen' = [seen EXCEPT ![e] = Claims]
    /\ Go(e, "issues")
    /\ UNCHANGED <<githubVars, rootVars, contract, base, Decided, Claimed>>

SnapshotIssues(e) ==
    /\ pc[e] = "issues"
    /\ winners' = [winners EXCEPT ![e] = SnapshotWinners(e)]
    /\ reserved' = [reserved EXCEPT ![e] =
                       {Reservation(s, body[s].boundary) : s \in LiveClaims(e)}]
    /\ seen' = [seen EXCEPT ![e] = {}]
    /\ Go(e, "orphans")
    /\ UNCHANGED <<githubVars, rootVars, contract, base, orphans, Claimed>>

\* The orphans among the claims of the snapshot join the winners.
SnapshotOrphans(e) ==
    /\ pc[e] = "orphans"
    /\ LET found == {s \in Subject : PrePrOrphan(e, s)
                        /\ \E r \in reserved[e] : r.subject = s}
       IN  /\ orphans' = [orphans EXCEPT ![e] =
                  [s \in Subject |-> IF s \in found
                                     THEN [body |-> body[s], head |-> ref[s]]
                                     ELSE NoOrphan]]
           /\ winners' = [winners EXCEPT ![e] = @ \cup found]
    /\ Go(e, "next")
    /\ UNCHANGED <<githubVars, rootVars, Reads, reserved, Claimed>>

TakeCandidate(e, s) ==
    /\ pc[e] = "next" /\ Candidate(e, s)
    /\ \/ s \in winners[e] /\ Go(e, "freshRefs") /\ UNCHANGED Reads
       \/ s \notin winners[e] /\ Leave(e, s, "not_in_winners")
    /\ UNCHANGED <<githubVars, rootVars, Decided, Claimed>>

FreshRefs(e) ==
    /\ pc[e] = "freshRefs"
    /\ seen' = [seen EXCEPT ![e] = Claims]
    /\ Go(e, "freshIssues")
    /\ UNCHANGED <<githubVars, rootVars, contract, base, Decided, Claimed>>

\* Mutant of StillAdmitted: an orphan, claimed already, must win afresh too.
StillWinner(e, s) == s \in SnapshotWinners(e)

StillAdmitted(e, s) == s \in SnapshotWinners(e) \/ IsOrphan(e, s)

FreshIssues(e, s) ==
    /\ pc[e] = "freshIssues" /\ Candidate(e, s)
    /\ \/ /\ StillAdmitted(e, s)
          /\ seen' = [seen EXCEPT ![e] = {}]
          /\ Go(e, "contract")
          /\ UNCHANGED <<contract, base>>
       \/ /\ ~StillAdmitted(e, s)
          /\ Leave(e, s, "frontier_changed")
    /\ UNCHANGED <<githubVars, rootVars, Decided, Claimed>>

\* Mutant of ReservedAgainst: what this cycle claimed itself is forgotten.
SnapshotReserved(e, s) == {r \in reserved[e] : r.subject \notin won[e]}

\* The lanes the candidate must not collide with: an orphan's own reservation
\* is not held against it.
ReservedAgainst(e, s) == {r \in reserved[e] : ~(IsOrphan(e, s) /\ r.subject = s)}

\* The status that refuses the contract as read, or "admitted".
ContractVerdict(e, s) ==
    IF ~Schedulable(s) THEN "dependency_changed"
    ELSE IF s \notin Admitted THEN "executor_refused"
    ELSE IF body[s].boundary = Undeclared THEN "boundary_undeclared"
    ELSE IF AdmissionConflict(body[s].boundary, ReservedAgainst(e, s)) THEN "boundary_conflict"
    ELSE "admitted"

\* issue_contract_readback; an unreadable body raises and the cycle is over.
ReadContract(e, s) ==
    /\ pc[e] = "contract" /\ Candidate(e, s) /\ Readable(s)
    /\ \/ /\ ContractVerdict(e, s) = "admitted"
          /\ contract' = [contract EXCEPT ![e] = body[s]]
          /\ Go(e, "pullRequests")
          /\ UNCHANGED <<seen, base>>
       \/ /\ ContractVerdict(e, s) # "admitted"
          /\ Leave(e, s, ContractVerdict(e, s))
    /\ UNCHANGED <<githubVars, rootVars, Decided, Claimed>>

ContractRaises(e, s) ==
    /\ pc[e] = "contract" /\ Candidate(e, s) /\ ~Readable(s)
    /\ EndCycle(e)
    /\ UNCHANGED <<githubVars, rootVars>>

\* An orphan is adopted, any other candidate claimed.
AdmittedStep(e, s) == IF IsOrphan(e, s) THEN "adopt" ELSE "head"

ReadPullRequests(e, s) ==
    /\ pc[e] = "pullRequests" /\ Candidate(e, s)
    /\ \/ MatchingOpenPullRequest(s) /\ Leave(e, s, "open_pr_exists")
       \/ /\ ~MatchingOpenPullRequest(s)
          /\ Go(e, AdmittedStep(e, s))
          /\ UNCHANGED Reads
    /\ UNCHANGED <<githubVars, rootVars, Decided, Claimed>>
-----------------------------------------------------------------------------
\* Adoption re-reads the whole identity; one still unpromoted is kept as it is.

SameIdentity(e, s) ==
    /\ PrePrOrphan(e, s)
    /\ orphans[e][s] = [body |-> body[s], head |-> ref[s]]
    /\ contract[e] = body[s]

AdoptHeld(e, s) ==
    /\ pc[e] = "adopt" /\ Candidate(e, s) /\ ~SameIdentity(e, s)
    /\ Leave(e, s, "claimed_elsewhere")
    /\ UNCHANGED <<githubVars, rootVars, Decided, Claimed>>

AdoptPublished(e, s) ==
    /\ pc[e] = "adopt" /\ Candidate(e, s) /\ SameIdentity(e, s)
    /\ s \in ordersNext[e]
    /\ won' = [won EXCEPT ![e] = @ \cup {s}]
    /\ Leave(e, s, "claimed_elsewhere")
    /\ UNCHANGED <<githubVars, rootVars, Decided, created>>

AdoptOrphan(e, s) ==
    /\ pc[e] = "adopt" /\ Candidate(e, s) /\ SameIdentity(e, s)
    /\ s \notin ordersNext[e]
    /\ base' = [base EXCEPT ![e] = orphans[e][s].head]
    /\ Go(e, "bind")
    /\ UNCHANGED <<githubVars, rootVars, seen, contract, Decided, Claimed>>
-----------------------------------------------------------------------------
ReadDefaultHead(e) ==
    /\ pc[e] = "head"
    /\ base' = [base EXCEPT ![e] = default]
    /\ Go(e, "claim")
    /\ UNCHANGED <<githubVars, rootVars, seen, contract, Decided, Claimed>>

\* Mutant of CreateRef: the ref is put, not created.
OverwriteRef(e, s) ==
    /\ pc[e] = "claim" /\ Candidate(e, s)
    /\ ref' = [ref EXCEPT ![s] = base[e]]
    /\ created' = [created EXCEPT ![e] = @ \cup {s}]
    /\ UNCHANGED <<open, body, pr, default, commits, edits, rootVars, Decided, won>>

\* claim_execute_branch: creating the ref is atomic at the provider.  When the
\* call fails the ref is looked up, so a created ref whose answer was lost is
\* reported like somebody else's.
CreateRef(e, s) ==
    /\ pc[e] = "claim" /\ Candidate(e, s) /\ ref[s] = None
    /\ ref' = [ref EXCEPT ![s] = base[e]]
    /\ created' = [created EXCEPT ![e] = @ \cup {s}]
    /\ UNCHANGED <<open, body, pr, default, commits, edits, rootVars, Decided, won>>

ClaimCreated(e, s) ==
    /\ CreateRef(e, s)
    /\ Go(e, "bind")
    /\ UNCHANGED Reads

ClaimAnswerLost(e, s) ==
    /\ CreateRef(e, s)
    /\ Leave(e, s, "claimed_elsewhere")

ClaimTaken(e, s) ==
    /\ pc[e] = "claim" /\ Candidate(e, s) /\ ref[s] # None
    /\ Leave(e, s, "claimed_elsewhere")
    /\ UNCHANGED <<githubVars, rootVars, Decided, Claimed>>

\* The local handoff task is emitted, then the outcome, the order and (for a
\* new claim) the reservation are recorded.
BindOrder(e, s) ==
    /\ pc[e] = "bind" /\ Candidate(e, s)
    /\ won' = [won EXCEPT ![e] = @ \cup {s}]
    /\ reserved' = [reserved EXCEPT ![e] =
                       IF IsOrphan(e, s) THEN @
                       ELSE @ \cup {Reservation(s, contract[e].boundary)}]
    /\ Leave(e, s, "claimed")
    /\ UNCHANGED <<githubVars, rootVars, winners, orphans, created>>
-----------------------------------------------------------------------------
FinishCandidates(e) ==
    /\ pc[e] = "next" /\ \A s \in Subject : outcome[e][s] # "pending"
    /\ Go(e, "validate")
    /\ UNCHANGED <<githubVars, rootVars, Reads, Decided, Claimed>>

\* publish_schedule_output validates against orders.json once more ...
ValidateOutput(e) ==
    /\ pc[e] = "validate" /\ won[e] \cap active[e] = {}
    /\ Go(e, "publish")
    /\ UNCHANGED <<githubVars, rootVars, Reads, Decided, Claimed>>

OutputRejected(e) ==
    /\ pc[e] = "validate" /\ won[e] \cap active[e] # {}
    /\ EndCycle(e)
    /\ UNCHANGED <<githubVars, rootVars>>

\* ... and replaces orders-next.json, whatever it still held.
PublishOutput(e) ==
    /\ pc[e] = "publish"
    /\ ordersNext' = [ordersNext EXCEPT ![e] = won[e]]
    /\ EndCycle(e)
    /\ UNCHANGED <<githubVars, active, worktree, live>>

\* Any other provider error, or a crash, ends the cycle where it is.
CycleFails(e) ==
    /\ pc[e] # "idle"
    /\ EndCycle(e)
    /\ UNCHANGED <<githubVars, rootVars>>

Cycle(e) ==
    \/ SnapshotRefs(e) \/ SnapshotIssues(e) \/ SnapshotOrphans(e)
    \/ FreshRefs(e) \/ ReadDefaultHead(e)
    \/ FinishCandidates(e) \/ ValidateOutput(e) \/ OutputRejected(e) \/ PublishOutput(e)
    \/ \E s \in Subject :
        \/ TakeCandidate(e, s) \/ FreshIssues(e, s)
        \/ ReadContract(e, s) \/ ContractRaises(e, s) \/ ReadPullRequests(e, s)
        \/ AdoptHeld(e, s) \/ AdoptPublished(e, s) \/ AdoptOrphan(e, s)
        \/ ClaimCreated(e, s) \/ ClaimTaken(e, s) \/ BindOrder(e, s)

Run(e) ==
    \/ \E proposal \in SUBSET Subject : Begin(e, proposal)
    \/ Cycle(e)
    \/ CycleFails(e)

Environment == (Lane \/ Author) /\ UNCHANGED cycleVars

Answered == Environment \/ \E e \in Root : Run(e)

Next == Answered \/ \E e \in Root, s \in Subject : ClaimAnswerLost(e, s)

Spec == Init /\ [][Next]_vars

\* The provider answers every call that took effect.
AnsweredSpec == Init /\ [][Answered]_vars

\* Cycles that do not fail: every schedule session proposes all that is not running,
\* and the loop keeps starting sessions.  Answers are still lost.
SteadySpec ==
    /\ Init
    /\ [][Environment
          \/ \E e \in Root :
              \/ Begin(e, Subject \ active[e]) \/ Cycle(e)
              \/ \E s \in Subject : ClaimAnswerLost(e, s)]_vars
    /\ \A e \in Root : WF_vars(Cycle(e)) /\ WF_vars(Begin(e, Subject \ active[e]))
-----------------------------------------------------------------------------
(***************************************************************************)
(* Properties                                                              *)
(***************************************************************************)

\* What root e holds of the repository's lanes: claims its running cycle made or
\* adopted, orders it published, orders its daemon runs, and worktrees.
Holding(e) ==
    created[e] \cup won[e] \cup ordersNext[e] \cup active[e]
        \cup {s \in Subject : worktree[e][s] # None}

\* No two executor roots ever hold the same subject: the created ref decides
\* every race of two cycles (claim_execute_branch), and an unowned claim is
\* adopted only by the root that owns its one worktree (pre_pr_claim_record).
OneHolder ==
    \A e, f \in Root : e # f => Holding(e) \cap Holding(f) = {}

\* Whatever a root holds is claimed at the provider: no order is published, no
\* daemon runs and no worktree exists for a subject without its execute branch.
HeldIsClaimed ==
    \A e \in Root : \A s \in Holding(e) : ref[s] # None

\* Only a root with the worktree of a subject has an orphan or a session of it.
LocalHasWorktree ==
    \A e \in Root, s \in Subject : IsOrphan(e, s) \/ live[e][s] => worktree[e][s] # None

\* A claim about to be bound was created by this cycle or is this root's orphan.
BoundIsOwned ==
    \A e \in Root, s \in Subject :
        pc[e] = "bind" /\ Candidate(e, s) => s \in created[e] \/ IsOrphan(e, s)

\* No ref is created before the head it carries was read.
ClaimHasHead == \A e \in Root : pc[e] = "claim" => base[e] # None

\* The strengthening that makes OneHolder and HeldIsClaimed inductive.
Ownership ==
    OneHolder /\ HeldIsClaimed /\ LocalHasWorktree /\ BoundIsOwned /\ ClaimHasHead

\* Claiming implements the lock of LaneOwnership: no cycle, however its calls
\* interleave or fail, makes a holder except by creating the branch, and adoption
\* never revives a lane its root had given up.
Holders == [s \in Subject |-> {e \in Root : s \in Holding(e)}]

Lanes == INSTANCE LaneOwnership WITH claimed <- Claims, holders <- Holders

OwnsLanes == Lanes!Spec

\* I3: the declared write surfaces of the open claimed lanes are disjoint, from
\* the first cycle to the last, across failed cycles, adoptions and landings.
LanesDisjoint ==
    \A s, t \in Claims :
        s # t /\ open[s] /\ open[t] => ~Blocks(body[s].boundary, Reservation(t, body[t].boundary))

\* Its strengthening, for cycles that do not overlap: what the cycle has reserved
\* covers every open claim but one just created, and what it is about to claim
\* was read to collide with nothing reserved.
CyclesApart == \A e, f \in Root : pc[e] # "idle" /\ pc[f] # "idle" => e = f

SnapshotComplete(e) == pc[e] = "issues" => \A t \in Claims : open[t] => t \in seen[e]

ClaimsReserved(e) ==
    pc[e] \notin {"idle", "refs", "issues"} =>
        \A t \in Claims :
            open[t] /\ ~(pc[e] = "bind" /\ Candidate(e, t) /\ ~IsOrphan(e, t))
                => Reservation(t, body[t].boundary) \in reserved[e]

AdmittedApart(e) ==
    pc[e] \in {"pullRequests", "head", "claim", "bind"} =>
        \A s \in Subject : Candidate(e, s) /\ ~IsOrphan(e, s) =>
            /\ contract[e].boundary = body[s].boundary /\ body[s].boundary # Undeclared
            /\ pc[e] # "bind" => ~AdmissionConflict(body[s].boundary, reserved[e])

SurfaceInv ==
    /\ LanesDisjoint
    /\ \A e \in Root : SnapshotComplete(e) /\ ClaimsReserved(e) /\ AdmittedApart(e)

\* CLAIM_SCOPE: one dependency component never has two open claimed lanes.  A
\* snapshot reads the refs before the issues, so several roots keep this only as
\* long as LanesOutlastReads holds.
OneClaimPerComponent ==
    \A s, t \in Claims :
        s # t /\ open[s] /\ open[t] => t \notin Component(s, OpenReadable, Depends)

\* What the order of those two reads relies on: an issue whose claim the refs of a
\* fresh snapshot missed is not handed off before the issues are read.
LanesOutlastReads ==
    [][\A e \in Root, s \in Subject :
          pc[e] = "freshIssues" /\ ref[s] # None /\ s \notin seen[e] => body'[s] = body[s]]_vars

\* A landing takes the lane's pull request away with the issue.
LanePullRequestsOpen == \A s \in Subject : pr[s] = "lane" => open[s]

\* The strengthening of OneClaimPerComponent.  Nobody but its lane moves an issue
\* on; a cycle past its frontier check holds what still is the first unclaimed
\* subject of its component; and so did a claim the refs it read do not show.

BodiesFollowLanes ==
    \A s \in Subject :
        /\ body[s].state \in {"ready", "awaiting_land", "landed"}
        /\ ref[s] = None => open[s] /\ body[s].state = "ready"

Committed(e, s) ==
    /\ pc[e] \in {"contract", "pullRequests", "head", "claim"}
    /\ Candidate(e, s) /\ ~IsOrphan(e, s)

Connected(s) == Component(s, OpenReadable, Depends)

FirstOfComponent(s) == s \in Eligible /\ \A t \in Connected(s) \cap Eligible : s <= t

CommittedWins ==
    \A e \in Root, s \in Subject :
        Committed(e, s) /\ ref[s] = None
            => FirstOfComponent(s) /\ \A t \in Connected(s) : ref[t] = None

MissedClaimsWon ==
    \A e \in Root, s \in Subject :
        pc[e] = "freshIssues" /\ ref[s] # None /\ s \notin seen[e] /\ open[s]
            => FirstOfComponent(s)

OrphansAreAdopted ==
    \A e \in Root, s \in Subject :
        pc[e] \in {"head", "claim"} /\ Candidate(e, s) => ~IsOrphan(e, s)

ComponentInv ==
    /\ LanePullRequestsOpen /\ BodiesFollowLanes /\ OrphansAreAdopted
    /\ CommittedWins /\ MissedClaimsWon /\ OneClaimPerComponent

\* A lane starts only when every issue it depends on is landed and closed, and
\* no landing or edit the cycle raced with can leave it claimed before that.
ClaimedDependenciesLanded ==
    \A s \in Claims : DependenciesLanded(s)

\* Its strengthening: nor can any take back what the contract was read to say.
DependencyInv ==
    /\ LanePullRequestsOpen /\ ClaimedDependenciesLanded
    /\ \A e \in Root, s \in Subject :
          pc[e] \in {"pullRequests", "head", "claim"} /\ Candidate(e, s)
              => DependenciesLanded(s)

\* An unowned claim does not stay unowned: its order is published again, or its
\* pull request, its landing or its author takes it out of the cycle's hands.
OrphanReturns ==
    \A e \in Root, s \in Subject :
        PrePrOrphan(e, s) ~>
            \/ s \in ordersNext[e] \cup active[e]
            \/ ~PrePrOrphan(e, s) \/ ~Schedulable(s) \/ body[s].boundary = Undeclared
=============================================================================
