# A verification development for noodles

`noodles` is a correctness and evidence layer around three programs it does not
own: the *Noodle* daemon (which promotes orders, creates worktrees and runs the
agent sessions), Git, and GitHub.  An issue becomes a landed change along one
path: the schedule session proposes orders, the claim cycle claims an execute
branch at the provider, a cook works in a worktree and opens a pull request, a
required workflow verifies it, a train lands it, and reconciliation frees what
the lane held.

The modules here model that path from the code in `src/`.  Every definition is
translated from the source lines named in `PROJECT.json` ("map"); code outside
the repository (the daemon, the cook, people, GitHub) is modelled from how the
repository uses it and marked external there.

## 1. Inventory

| component | code | state it keeps | operations |
|---|---|---|---|
| claim cycle | `noodles.schedule_publish`, `schedule_snapshot`, `claim_execute_branch` | local: snapshot, winners, reservations, outcomes; written: execute branches, `.noodle/orders-next.json`, the cycle receipt | snapshot, judge each candidate, adopt or claim, bind, publish |
| schedule decision | `schedule_domain.schedule_decision` | none (pure) | components, frontier, winners |
| write boundaries | `issue_contract.parse_write_boundary`, `boundary_conflict`, `noodles.claimed_boundary_widening` | none (pure) | parse, conflict, widening |
| issue contract | `issue_contract`, `noodles.parse_issue_contract`, `issue_set_state` | the markers of the issue body | parse, derive schedulability, set state |
| claim lifecycle | `claim_contract` | execute and salvage branches, release receipts | classify claims, adopt, release, sweep |
| repair | `repair_contract` | repair receipts, attempts of a session | repair a review, sweep pending reviews |
| handoff | `noodles.execute_handoff`, `runtime_contract` handoff functions | handoff receipt, rerun intent, issue state | provenance admission, rerun, receipt |
| verification | `noodles.verify_pull_request`, `feature_contract`, `structural_contract`, `scip_validation` | the verify receipt | checks on one candidate tree |
| landing | `noodles.land_pull_request`, `landing_train`, `train_rebase`, `verified_batch` | pull requests, default branch, batch branch, failback comments | rebase, nudge, batch of three, merge, close |
| reconciliation | `noodles.provider_landed`, `reconcile_once` | Noodle reviews | merge a review whose pull request landed |
| disposition | `disposition_contract` | issue closures | sweep, reopen a bare closure |
| daemon lease | `daemon_lease`, `runtime_contract` | `.noodle/noodle.lock`, status file, port 3210 | admit, reject, terminate own child |
| supervision | `noodles.start_unattended`, `supervise`, `run_supervised_generation`, `heal_control_checkout` | generations, the control checkout | start, watch, rotate, heal |
| backlog | `noodles.sync_backlog` and below, `.noodle/adapters` | the cycle record with its backoff | derive, resume, hold |
| provider modes and struggle | `schedule_domain.struggle_verdict`, `provider_mode_transition` | none (pure, folded over readings) | transition, admit verb, verdict |
| provider carrier | `.agents/bin/gh`, `noodles.gh_api`, `paced_gh`, `provider_contract` | pacing and budget files, ETag cache | pace, spend, retry, cache |
| protection audit | `github_protection` | none (reads the provider) | readbacks of protection and workflow runs |
| ceremonies | `noodles.ceremony_*` | worktree and issue bodies | commit, rebase, plant, rerun, edit-body |
| evidence ledger | `evidence_ledger` | one append-only SQLite table | append, read |
| agent isolation | `codex_isolation`, `.agents/bin/codex`, `trusted_preview` | files of one session | set up, run, export |
| retrieval | `retrieval_contract` | none | validate retrieval records |
| workflows | `.github/workflows` | GitHub's | triggers of verify, land and the canary |

How they interact.  The claim cycle, the sweep of the claim lifecycle, the
repair pass, the train and the reconciler never call each other: they meet in
the provider (issues, refs, pull requests) and in one root's `.noodle`
directory, each reading a snapshot and acting on it some calls later.  Several
executor roots share only the provider.  Every process may stop between any two
provider calls, and any call may fail after it took effect.  Around them stands
the runner: it heals the control checkout, starts a wrapper per generation, and
knows of that generation only its exit and what it prints.  In front of them
stands the backlog, which decides what the schedule session gets to see, and
between a pull request and the train stands the verify run, which reads the
trusted tree, the issue and the open tasks one after the other while others land.

## 2. Modules

    ScheduleDomain              operators: boundaries, components, frontier, winners
      ScheduleDecision          the union-find schedule_decision runs, step by step
      CandidateGate             verify runs, edits, handoffs and landings around one policy
        CandidateGateProofs
      Provider                  the shared state: provider and executor roots; daemon, cook, people
        ClaimCycle              schedule_publish, one provider call a step   (refines LaneOwnership)
          ClaimWindow           ClaimCycle with the history of what was open all along
            ClaimCycleProofs    also of ScheduleDecision, with which it shares the facts about components
        ClaimLifecycle          sweep_dead_claims and repair_review, one provider call a step
          ClaimLifecycleProofs
    LaneOwnership               abstract: what claiming promises, as a lock
    LandingTrain                land jobs, trains, owners and the reconciler
      LandingTrainProofs
    Handoff                     execute_handoff, one call a step, resumed after any death
      HandoffProofs
    Supervision                 the runner's heal, the starts, the daemons, lease, status and port
      SupervisionProofs
    Generation                  one generation: child, pipe, deadlines, drain, status
      GenerationProofs
    Backlog                     sync cycles with their record, intake, closure sweep, adapter add
      BacklogProofs
    MC<module>                  values of the constants for TLC

### Provider

One GitHub repository as the code reads it back: `open`, `body` (the markers that
decide something: state and write boundary), `ref` (execute branches), `pr`, and
the default branch; for each executor root `ordersNext` and `active`
(`.noodle/orders-next.json`, the active orders of `orders.json`), `worktree` and
`live` (a session in the ledger or among the processes).  A commit is a number.
The daemon (`PromoteOrders`, `StartSession`, ...), the cook (`PushCommit`,
`OpenPullRequest`), authors (`EditBody`, `ForeignPullRequest`) are external;
`ExecuteHandoff` and `LandPullRequest` are the whole of `execute_handoff` and
`land_pull_request` in one step (`Handoff` and `LandingTrain` have their steps).
Authors do not edit the markers of an issue that is `awaiting_land` or landed:
the handoff and the lander write those.  `Rewritten` is the bodies authors may write;
with none they only open and close pull requests.  A subject has one open pull request
at a time, from its lane or from elsewhere.

### ClaimCycle

`pc[e]` is where root `e`'s `schedule_publish` stands.  `SnapshotRefs` and
`SnapshotIssues` are the two halves of `schedule_snapshot`, `SnapshotOrphans` the
class `pre_pr_orphan` of `claim_contract` for its claims.  Each candidate then
goes, in the order of issue numbers, through `TakeCandidate` (still a winner?),
`FreshRefs` and `FreshIssues` (the whole decision again), `ReadContract`,
`ReadPullRequests`, and either `AdoptOrphan` or `ReadDefaultHead` and
`ClaimCreated`/`ClaimTaken`/`ClaimAnswerLost`, and `BindOrder`; the cycle ends in
`ValidateOutput` and `PublishOutput`, or anywhere in `CycleFails`.  `outcome` is
the status the receipt gives each candidate.  `created` is history: the branches
the running cycle created itself.

`ClaimWindow` adds one more history variable.  The cycle reads the pull requests of a
candidate (`noodles.py:5249`) some calls before it creates the branch, and nothing stops
people from opening one in between.  `standing[e]` is the candidate when a pull request
from elsewhere has been open ever since the cycle took it up; `StandingPullRequestBlocks`
says that such a one is never claimed, adopted or taken for published, and so names
what the read leaves open: a pull request that came or came back after it.

`LaneOwnership` is what all that amounts to: a claimed name with at most one
holder, acquired only while it is free, abandoned by its holder, never revived by
another root.  `OwnsLanes` is the refinement, with `holders` mapped to the roots
that hold anything of the subject (`Holding`).

### ScheduleDecision

The loop of `schedule_decision`: `parent` of each subject, the edges left, and
inside `find` the node being halved.  The code links edges in the order it lists
them; the model takes them in any order.  `Decides` says that when the loop is
done the frontier and the winners are those of `ScheduleDomain`, which defines
them over connected components and is what `ClaimCycle` uses.

### ClaimLifecycle

`sweep[w]` is the call the sweeper `w` is at: the refs of all claims, one issue,
the class (its own root's ledger and the pull requests), the adoption
(`repair_review`), or the calls of `release_dead_claim` in their order: failed
run, salvage branch, `issue_set_state` as read, write and read back, deletion,
receipt.  `SweepFails` is a provider error, which `sweep_dead_claims` records as
held, or the end of the process.  The lanes move as in `Provider`, with verdicts
of the required workflow (`failed`, `passed`) and a ledger that is recent or not.
A lane is claimed in one step here (`ClaimLane`); `ClaimCycle` has the steps.

### LandingTrain

A subject and its pull request share a number.  A head is a record: owner pushes
so far, pushes altogether, the main it contains (`base`), the first heads it is
stacked on.  `job[p]` is the land job of pull request `p`: `land_pull_request` is
`Admit`, `Merge`, `ReadBranch`, `MarkLanded`, `CloseIssue`, `landing_train` is
`ListPulls`, `Batch` with `MarkMember`, `CloseMemberPull` and `CloseMemberIssue`
for each member, `ReadDependents` and `Nudge`, `Select`; `train_rebase` is
`Fetch` and `PushRebased` or `FailBack`.  The `concurrency` groups of `land.yml`
are one per verify run, so jobs of different heads run at once; a verify run of a
head is cancelled by the next push (`verify.yml`).

### Handoff

One candidate, the sessions that were spawned for its order, and Git's registry
of worktrees.  `proc[s]` is the call `execute_handoff` of session `s` is at, with
what it read; what survives a death is `log[s]` (`events.ndjson`: the rerun intent,
the blocking message, other messages), the issue's state and the verify runs.
`Begin` is the provenance admission and the match of head and pull request,
`SetState` the flip to `awaiting_land`, `ReadMessage` and `ReadIntent` the two
readbacks of the log, `ChooseRun` the failed run of the head, `EmitIntent`,
`ReadSource` (rerun it, adopt it, or it has drifted), `PostRerun` (whose answer may
be lost), `EmitMessage`.  `Dies` is a raise or the end of the process at any step.
Pushes, reruns, removed worktrees and second sessions are everybody else's.

### Supervision

One control checkout.  `role` is the process table, in which a number is free,
a daemon, a zombie its wrapper has not reaped, or some other process that took the
number over; `lease`, `loop` and `port` are the three things a daemon is recognised
by.  Git history is a set of commits.  `heal` is `heal_control_checkout` with a
step for each command that changes something or that somebody can come in before
(fetch, salvage push, `update-ref` with the old value, `reset --hard`, fast forward,
lease, unlink, status ghost); `wrap[w]` is one `start_unattended`: the gate, the
lease, the spawn, the polls of the admission in two halves, the timeout, the
termination of its own child.  An admitted wrapper that is told to stop
passes the signal to its daemon and waits for it (`WrapperStopped`); the runner kills it after the
grace (`WrapperKilled`), and the daemon outlives it.  `Supervisor` is the runner's wrapper, any other
starter an operator's.  Daemons take the lock in two steps, serve, commit to main,
exit, or are killed.

### Generation

`run` holds the locals of `run_supervised_generation`; `pipe` is the whole lines the kernel
holds and `buf` those `readline` fetched beyond the line it returned, which `select`
does not see; `piece` is the beginning of a line whose end was not printed yet, for
which `select` wakes the runner and `readline` blocks it (`ReadBlocks`, step `reading`)
until somebody ends the line or the last writer has ended (`ReadResumes`).  Time passes
meanwhile (up to `MaxNow`), and `late` is the longest that a line took.  Time counts the polls of the runner since the generation began, and
is compared with the deadlines as the code does.  The child repairs, declares a
struggle when `struggle_verdict` says so, prints lines of four kinds and beginnings of lines,
ignores a signal, closes its output, or ends and leaves a daemon that holds the pipe.
`Drain`, `CycleStatus` and `Sleep` are the end of a generation: the non-blocking
read, the status with its cooldown, the wait.

### CandidateGate

A tree is files with what they import and the text of one owned definition, and a
policy (components, owners, mandates).  A candidate is a change made on a tree.
`run[p]` is a verify run: `CheckoutTrusted`, `ReadIssue` (the component gates, which
depend on that reading and the two trees alone), `ReadActive` (the open hosted
tasks, the boundary, the origin line).  `event` is what a re-run reads again.
`LandPullRequest` is the merge with what `land_pull_request` and the protection
look at once more.

### Backlog

`record[r]` is the backlog cycle file of a root, `sync[r]` its `sync_backlog`:
`Derive` (the snapshot, persisted as finalists), then for each finalist `Plan`,
`VerifyLive` in a resumed cycle, `Patch` and `PostIntake` of `intake_normalize`,
`Surface` for an issue that quotes an older one's defect, and `Complete` with the
backoff.  A body is what the parser and `derive_schedulability` tell apart.  `sweep`
is `sweep_closure_dispositions`, `adding` an `adapter add` between its two writes.

## 3. Runs

| run | instance | shows |
|---|---|---|
| `ClaimRace` | two roots, one issue, one commit, one edit | one holder, what is held is claimed, the inductive invariant of the proofs, the refinement, adoption of orphans |
| `ClaimSerial` | one root, a component of five issues, nested boundaries, a foreign pull request on one of them, one more opened on any or that one closed at any time, two commits | disjoint surfaces (I3), one claim per component, landed dependencies over successive cycles; a subject is never claimed over a pull request from elsewhere that was open all along (I4 and its window) |
| `ReadWindow` | two roots, four issues, two commits; **violated** | the second claim in one component (known divergences) |
| `Sweep` | two sweepers of one root, two commits, two verdicts, two failures | nothing flipped before it is preserved, no commit lost, a freed subject is claimable, residue is finished |
| `Decision` | every graph over four issues with up to four of its edges, every claimed and malformed set | the union-find against connected components, and that it ends |
| `Train` | a wave of three with a dependency, one owner push | markers, bounded pushes, kept commits, in every interleaving of land jobs |
| `TrainDrains` | a wave, a pair or branches apart, one opened late, one failure | the queue empties by itself |
| `Handoff` | two sessions, one worktree, two heads, one rerun by others, two deaths, one other message | one rerun and one message per session, parked behind the rerun, and that a resumed handoff ends |
| `Gate` | two pull requests, four paths, four contracts, four changes, one push, one edit | what lands is admitted by what it lands on; hosted candidates apart and in bounds |
| `Supervised` | the runner and an operator, two process ids, two commits | no commit is lost by a heal, whatever main gains while it runs; the lease stays with its daemon, the runner goes on |
| `Generation` | threshold 2 of 3 attempts, a tail of 2 lines, 2 lines or beginnings of lines, wedge 3, rotation 4, waits of 4, a clock up to 5 | no outlived rotation but in a blocked `readline`, no wedge kill of a generation that was heard or that still waits, the struggle on the receipt, the quota wait and its bound, the next generation |
| `Backlog` | one root, two issues (a dependency and an `adapter add`, or two filings of one defect), one edit, one failure, ceiling 2 | the hold, no old edit overwritten, ready issues surface, twins are named, bare closures reopen |

Why these bounds.  A claim race is decided by who creates one ref, so a third
root adds no new outcome to two.  In `ClaimSerial` a first issue waits for three others, of
which one is claimed, one lands and one meets a foreign pull request; the fifth parts
from them when what it waits for lands, so that it may run beside them, and
collides with them on the write surface only; all stay in one component until then.  A release is lost, repeated or finished with one subject; a second
commit is what there is to lose, a second failure is a crash of the resumed
release.  The batch of the code is exactly three (`MEMBER_COUNT`), which is also
the least that has a landed head, a dependent and a bystander.  A handoff dies once
before its intent is recorded and once after; a second head is what makes an
intent stale, a second session what makes provenance fail.  Two process ids
are a dead holder and a live one.  Of two commits one makes main diverge, so that a heal
decides to move it, and the other may come before the heal does, which is what the comparison
of `update-ref` is for, or after it, which is what the reset must not give up.  The second is made
while no start of an operator is under way (`InBounds` in `MCSupervision`); what an earlier start
left running commits as well.  The wedge deadline lies below the
rotation and a declared wait above it, so that each can come first; two lines
fill the tail, and a declaration on top of them scrolls one out; a clock of 5 is
one past the rotation, when a blocked runner is already late.  Of two
candidates one lands under the other's run.  The twin hold needs two issues, and
the doubling interval reaches a ceiling of 2 with two empty cycles and stays
there with the third.

Deadlock is checked in the runs of the claim path.  The others do stop:
the function returns (`Decision`), the queue is empty (`Train`, `TrainDrains`), every
candidate has landed or every edit is spent (`Gate`), the candidate landed or is
refused (`Handoff`), the runner is dead, wedged or blocked for good (`Generation`,
`Supervised`), every issue is closed (`Backlog`).

Fairness.

* `ClaimRace` uses `SteadySpec`: the loop of the schedule session starts cycle after
  cycle and each goes on (weak fairness of its steps), every proposal names all
  that does not run, and no call fails; nothing is assumed of lanes, daemon or
  authors.  Answers are still lost.  `ReadWindow` checks a corner of `Spec` without
  fairness (`SingleOrdersSpec`: one order at a time, lanes that go on).  `ClaimSerial` uses `AnsweredWindowSpec`, which is `AnsweredSpec` with the history: any proposal, cycles that fail
  anywhere, no lost answers, no fairness.
* `Sweep` uses `QuietSpec`: the supervised loop (`start_unattended` sweeps on every
  poll) reads each claim again and again, also when a repair pass keeps coming
  first (strong fairness of `ReadRefs`), each sweep goes on, and silence passes the
  liveness window.  Its next-state relation lets only sweepers touch a claim while
  one is at work on it, which the release relies on without checking (section 5).
* `Decision`: the loop runs.  `Train` and `TrainDrains`: GitHub concludes verify runs,
  jobs go on, the reconciler's loop runs; nothing is assumed of owners, handoffs or
  failures.  `QueueDrains` speaks of an undisturbed queue: no push of an owner, no
  head that is red for reasons of its own, no conflict, no failed job, and at most
  one job at a time past its merge.  The last clause is needed: when a second job
  merges between the first one's merge and its readback of the branch,
  `land_pull_request` raises, and the merged pull request keeps an open issue that
  nothing closes.
* `Handoff`: the cook runs a handoff that failed again, and a verify run ends.
* `Supervised`: the loop of `supervise` and every wrapper go on; git and the provider,
  asked again and again, answer (strong fairness of the fetch, the salvage push and
  the two checks of the runner's start); a daemon locks, serves or refuses, and ends when told to;
  a generation is ended by its deadlines, that is, leaves no line without its end (see `Generation`).
  `InBounds` restricts only steps that nobody is owed.  Nothing is owed by whoever sits on a
  number or leaves files behind, and `Wedged` names what stops the runner for good.
* `Generation`: the runner is one thread that goes on, and time passes; nothing is
  assumed of the child, and `GenerationsGoOn` therefore excepts a `readline` whose line
  nobody ever ends.
* `Backlog`: the daemon calls the adapter and the reconciler calls the sweep again and
  again, and time passes; failures are finitely many.

## 4. Proofs

For every number of roots, subjects, sweepers, sessions, processes and starters, for every
dependency graph, boundary, policy, deadline and bound (assumptions: the `ASSUME`s of the
modules, which say of what type the constants are, and where it matters that a threshold is
at least two, a timeout not zero, the candidates finitely many and the starts not empty):

* `ClaimCycleProofs`: `TypeCorrect`; `LanesStayOwned`, and from it `NeverTwoHolders` and
  `HoldingIsClaimed`; `ImplementsLaneOwnership`.  The invariant is `Ownership`.  One holder alone is
  not inductive: a cycle at `bind` is about to become a holder, so it must be one
  already or own the orphan (`BoundIsOwned`), which is one only with the worktree
  (`LocalHasWorktree`), and the ref a claim creates must carry a head that was read
  (`ClaimHasHead`), or creating it would leave the name free.
  `DependenciesLandFirst` needs nothing but the specification (`DependencyInv`): a
  landed and closed issue stays so, under landings, edits and edits of its own body,
  and a lane's pull request is open only with its issue; so what a candidate's contract
  was read to say still holds when its ref is created.
  `StandingPullRequestNeverPassed` assumes nothing either: bodies are edited and pull requests
  open and close at any step.  Its invariant is `PassedHasNone`: a candidate that passed the read
  has no pull request that stood all along, since the read would have found it.
  `ComponentsStaySingle` assumes that authors leave the bodies alone (`Rewritten = {}`; pull
  requests may still come and go) and `LanesOutlastReads`.  Its invariant
  (`ComponentInv`): a cycle past its frontier check holds what still is the first
  unclaimed subject of its component, in which nothing is claimed (`CommittedWins`), and
  so did every claim its re-read of the refs missed (`MissedClaimsWon`), so that two
  cycles that decide at once for one component decide for the same subject and the
  creation of its ref decides between them.  The graph side of it is stated as lemmas
  about `Component`, a landing only ever parts components (`ComponentShrinks`), and it
  parts none whose claim it does not end (`LandGraph`).  `LanesOutlastReads` cannot be
  dropped: run `ReadWindow` is its counterexample.
  `SurfacesStayDisjoint` assumes answered calls, bodies left alone and cycles that do
  not overlap (`CyclesApart`; a single root's never do).  Its invariant (`SurfaceInv`):
  from the snapshot on a cycle has reserved every open claim but the one it just
  created, and what it is about to claim was read to collide with none of them, itself
  declared; `BoundaryConflict` is symmetric, so an admitted lane excludes in both directions.
  `DecisionTypeCorrect`, `DecisionIsCorrect` are about `ScheduleDecision`.  The invariant
  (`DecisionInv`) says
  that following `parent` ends (a depth that decreases), that nodes with one root are
  connected by linked edges, and that the ends of a linked edge have one root; halving
  keeps roots because it replaces a parent by a grandparent.  Reachability is not
  unfolded by induction over paths: components are closed sets, and a set closed
  under the edges contains every class it meets.
* `ClaimLifecycleProofs`: `TypeCorrect`; `NothingFlippedUnpreserved`, whose invariant
  is `PreservedBeforeFlip` itself with the types: salvage branches are never deleted.
  `NamesFreedSafely` is about `QuietSpec`, the specification its run uses, as the release relies on
  a quiet claim without checking for one.  A sweeper acts at the deletion on what it read
  several calls before, and others may sweep the same claim in between.  `HeldClaim` says
  what lasts of each reading: the head that was listed is the one there is, or the name is
  already gone; the issue is open from its reading on, no pull request from elsewhere exists from
  the classification on, and the state that was read back is `ready`.  `LanesInOrder` gives
  the rest: nothing begins before its dependencies have landed, and what landed stays so.
* `LandingTrainProofs`: `TypeCorrect`; `ReadingsStayGood`; `MarkersTruthful`,
  `PushesAreBounded`, `OwnersKeepTheirWork`.  None of the last three is inductive: a job
  marks and pushes heads it listed many steps before.  `ReadingsHold` says what stays
  true of them: a listed head is never ahead of its branch and, at the version of the
  branch, has its owner's work (so the lease protects the owner); its version is within
  the bound of its own base (so a push under the lease, which moves the base forward,
  stays within it); the heads of an admitted batch are in the main it was admitted on.
  The default branch only grows and versions only rise (`StepGrows`), so readings stay
  good under everybody else's steps (`ReadingsStay`).
* `SupervisionProofs`: `TypeCorrect`; `AdmittedAlone`, `LeaseIsSafe`, `HealLosesNothing`.
  That an admitted child holds the lease is not inductive by itself: no two
  wrappers may have one child (`ChildrenApart`), whoever serves the port must be the
  daemon the lease names, and the number a heal is about to unlink must not be a
  daemon's, which holds because a spawn does not get the number the lease still
  names (`LeaseOfServing`).  For the heal the invariant is about its
  readings (`ReadingsHold`): what it read of main and will give up is kept from the
  salvage on, and between the move of the ref and the reset main has nothing beside
  the goal but the commits that came late.
* `HandoffProofs`: `TypeCorrect`; `OncePerSession`, `ParkedBehindRerun`.  The invariant
  is `Handed`: what the log of a session says of its intent, message and reruns
  (`Recorded`), and at each step of a handoff under way what it read that is still
  so (`Underway`): attempts only grow, the log only grows and by this session alone,
  and a rerun that was asked for has moved the attempt past the recorded baseline.
* `GenerationProofs`: `TypeCorrect`; `DeadlinesHold`, `StruggleReported`, `QuotaWaited`.
  `Timed` relates the runner's clock to what it has heard: with an empty pipe the last line
  was heard no earlier than it was said, and what was said before this poll was heard
  since, or was said as the last poll ended; a line that had no end for a while is dated by
  the clock from before `readline` blocked, so all this is up to `late`, and `DeadlinesHold` says
  that only such a line takes the clock past the rotation.  `Kept` does the same for what lines say: what the runner
  lacks of the child's last wait (`Owed`) or of its struggle (`Told`) is in a line that
  is still in the buffer or the pipe, in whatever bursts it was printed.  The drain and the
  receipt settle that debt (`Reported`) unless what was left exceeds the tail.  `Counted` says that
  `struggle_verdict`, which compares the end of a history, is true as soon as the history
  contains a repetition anywhere, since attempts stop with the declaration.
* `CandidateGateProofs`: `TypeCorrect`; `LandingsAdmitted`, `LandingsConfined`, `HostedStayApart`,
  `VerifiedAfterHandoff`.  A run reads the trusted tree, the issue and the open tasks one
  after the other, and others land, push, edit and hand off meanwhile.  `HeadStands`: a head
  that is up to date stands on the default branch itself, for which landings are counted in
  the invariant (`merges` is the number of merged candidates), so a landing leaves every other
  open head behind.  `RunJudges`: while its head is up to date, what a run judged it by is that default
  branch; the protection's rule then makes it the one at the merge.  `ReadingBinds`: a
  body that is still the issue's has the contract that was read in it.  `EventAged`: the
  origin line in an event from before the handoff is older than any body read since.
  `HostedDisjoint` is inductive with these.
* `BacklogProofs`: `TypeCorrect`; `HoldIsHistory`, `ReopenedIsNamed`, `OldEditsAreKept`,
  `OneRootKeepsEdits`.  A cycle works on finalists somebody listed long before, and the type
  invariant (`Typed`) needs that what it has in hand is one of its record's (`Working`), whatever
  listing the record holds.  For the closure sweep (`ClosureRead`) a thread only grows between
  its reading and the reopening, so a diagnostic that was read or posted is still there.
  `OldEditsKept` is about texts that may come back: from a record, from the bodies the
  sweep listed, from a cycle that writes them.  `TextsKnown` says that nothing else brings one
  back, that is, every text in one of those places was written already, and that the sweep holds
  bodies of retired issues only, which a listing of open ones leaves out.  `WrittenSince` is what a
  cycle relies on when it writes: once it has read an issue (in its own listing, or compared in
  `VerifyLive`) and the finalist is not what was there at the beginning, the text of the
  beginning is neither on the issue nor among what the sweep may write.  Authors cannot bring it
  back, but the cycle of another root can, which listed it earlier; `OldEditsAreKept` therefore
  assumes `PatchesApart`, that no root writes to an issue while another is past its listing.
  Without it the property fails with two roots: one puts an old text back and the other
  replaces that.  One root meets it by itself (`OneRootKeepsEdits`), which is the instance the
  run checks.  That a set of numbers has a least one and that `2 ^ k` is a number, which the
  backoff needs, come from the library's theorems about well-founded orders and
  the number of subsets of a finite set.

The type invariants of all the component modules are proved; those of `ClaimCycle`,
`ClaimLifecycle`, `ScheduleDecision`, `LandingTrain`, `Handoff`, `Supervision` and
`Generation` are not repeated in the runs, those of `CandidateGate` and `Backlog` are.

Only model-checked: liveness, which is out of the prover's reach (`OrphanReturns`,
`ResidueFreed`, `Terminates`, `QueueDrains`, `KeepsSpawning`, `GenerationsGoOn`,
`HandoffSettles`, `ReadySurfaced`, `TwinsNamed`, `BareReopens`).  Every safety property the
passing runs check is the statement of a theorem.

## 5. What the abstraction leaves out

* One repository; `Depends` does not change; an open issue's title and executor
  are constants (`P0`, `Admitted`).
* The open issues of a snapshot are one read, their dependency readbacks included
  (`noodles.py:1190-1195`), the reads that class one orphan one step, and so are the reads of `repair_review` with its event, and the ledger and
  the pull request of a sweep's classification.
* A session is tied to a subject by its worktree.  In `ClaimLifecycle` `live` is only the
  process; what the code looks at is `recent`.
* GitHub closes the pull request of a deleted branch.
* A verdict in `LandingTrain` depends on the content of the head alone: it passes only
  if the changes of its dependencies are in it.  A new land job of a pull request
  waits for the older one of the same pull request.  Loops of reads (`carried`,
  `dependents`, `train_select`) are one step, and so are the comparison of a carried head and the
  read of the tip it is held against (`noodles.py:3162-3165`); the tree identity of a batch follows
  from its nesting and is folded; a rebased carried head is an ordinary head; drafts,
  forks, other bases and receipt anchors are left out.
* GitHub may by itself mark a pull request merged when its head reaches the default
  branch.  `carried` and its tests work on pull requests that are still open then, and the
  model follows them.
* In `Handoff` the admissions that are functions of files (binary lock, acceptance
  evidence) count as a handoff that is refused; one failed job of a run stands for the run.
* In `Supervision` a lease file with other text than a number is not written by
  anybody; ignored files and branches other than main are left out; a raise of a
  heal is the return to its first step.  What `verify_repository` and `runtime_check` say at a start
  is not modelled: a start they refuse is one that does not happen.  `Wedged` also covers a live
  lease of somebody else's daemon, for which the runner waits.  In `Generation` the declarations of
  a child are whole lines, as it prints each with one flush.  One subject stands for all: the
  code keeps attempts, verdicts and declarations per subject.
* In `CandidateGate` the tests, structural and scip checks of a tree are a verdict that
  passes; of a definition only its text is kept, of an import its target.  Every declared
  component is in the map, so the refusal of one that is not (`noodles.py:1487-1491`) does not
  occur.  In the run `Gate` all boundaries of hosted tasks overlap, and a policy that changes on main
  between a verdict and its merge is left to the theorems.
* In `Backlog` one defect exists, whose tokens a body quotes or does not; the hold is
  counted in base intervals; the pages of the snapshot are one read.

### Not modelled

The provider carrier changes when a call is made and what it costs, not what it
answers, and every module lets its calls fail.  `provider_mode_transition` and
`admit_verb` are functions no code of the repository calls.  The ceremonies are
commands one operator runs in one worktree; the evidence ledger is one table
whose transactions do the work; agent isolation, retrieval and most readbacks of the
protection audit read or write files and settings and have no protocol.
`claimed_boundary_widening` only reports.  The canary and the hosted executor's
workflow run outside the repository's own control flow.

### Known divergences

Each was met while modelling.  The models contain the behaviour, and the properties are stated
for what the code does keep.

* With several roots one dependency component can get two claims, against
  `contracts/system-v1.md:277` (run `ReadWindow`): a snapshot reads the refs before the issues
  (`noodles.py:4964-4966`), and a lane that another root claims and hands off between the
  two reads of the re-check before a claim (`noodles.py:5213`) is in neither: not a claim
  yet when the refs are read, not schedulable any more when the issues are.  It takes a
  whole lane between two consecutive provider calls; `ComponentsStaySingle` proves that
  nothing less does.

* Two roots in one interval admit overlapping lanes: `reserved_boundaries` is built from
  one snapshot (`noodles.py:5191`), against I3 of `contracts/system-v1.md`.
  `LanesDisjoint` is checked for one root.
* A commit pushed between the classification of a claim and the deletion of its branch
  goes with the branch: the deletion does not name a head (`claim_contract.py:341`).
  `FreedSafely` is checked under `QuietSpec`.
* A residue whose failed run is re-run and passes is neither released nor landed
  (`claim_contract.py:315`).
* A cycle that ends between the creation of an execute branch and its publication
  leaves a claim nobody owns (`noodles.py:5319`, against `contracts/system-v1.md:309`).
* A claim whose answer is lost is not reserved for the rest of its cycle
  (`noodles.py:5319-5325`), so that a later candidate of the cycle may be claimed over its surface,
  against I3.  `AnsweredSpec`, and with it `LanesDisjoint`, leave lost answers out.
* A pull request that opens between the read of the pull requests (`noodles.py:5249`) and the
  creation of the branch is claimed over, against I4: `StandingPullRequestBlocks` speaks of
  those that were open all along.
* The reviews of the members a batch closed are not released by `provider_landed`, which asks
  for a merged pull request (`noodles.py:3321`).
* One dependent whose head moved ends a train before the other dependents are nudged
  (`noodles.py:2940`, against `contracts/system-v1.md:383`).
* `readline` blocks on a line that has a beginning and no end (`noodles.py:4179`), and while it does
  nobody looks at either deadline or at the child, against the comment that the deadlines are
  checked every pass (`noodles.py:4167`) and `contracts/system-v1.md:393`.  The line then counts as
  heard at the poll before.  `EndedInTime` allows for that time (`late`) and for nothing else.
* A wait declared in one burst with another line is cut off: `select` does not see what
  `readline` buffered, and the wedge deadline comes first (`noodles.py:4165`, against
  `contracts/system-v1.md:393`).
* A later, shorter wait of a generation replaces a longer one that still holds
  (`noodles.py:4185`, against `contracts/system-v1.md:393`, "while that wait holds"):
  `EndedInTime` and `QuotaIsWaited` speak of the wait that was declared last.
* The runner itself dies when the drain finds an empty pipe that somebody still holds
  (`noodles.py:4205`) and when the rate limit readback raises (`noodles.py:4114`): neither
  is caught in `supervise`.
* An unverified `PATCH` of a fresh sync cycle overwrites an edit made since its snapshot
  (`noodles.py:3492`), while the comment it posts says the original body was left
  byte-intact (`noodles.py:3466`).  The same `PATCH` makes an issue that was retired and
  reopened as blocked since then ready again, against `disposition_contract.py:5`.
* A hosted candidate lands whose origin line no longer binds the issue: an edit after
  the verify run is not compared by `land_pull_request` (`noodles.py:2776`).
* A subject declared struggling is still repaired: `repair_pending_reviews` does not know
  of it, against the comment at `noodles.py:3965`.

## 6. Plan

Done: the claim path, the dead-claim sweep, the schedule decision, landing, handoff,
candidate verification, supervision, generations, the backlog; proofs of the safety of
all of them.

Left, in this order:

1. `Backlog` with two roots: what the `PATCH`es of two sync cycles over one issue do keep,
   where `PatchesApart` is not given.
2. The pacing of the carrier as a shared budget, once something waits on it.
3. The ceremonies that write (`edit-body`, `rerun`) as further writers of `Handoff` and `Backlog`.
