--------------------------- MODULE ClaimLifecycle ---------------------------
(***************************************************************************)
(* claim_contract.sweep_dead_claims and the repair ceremony it calls: what *)
(* becomes of a claim whose cook died after the handoff.  A sweeper is the *)
(* supervised loop or a `reconcile` run of one executor root; it reads the *)
(* provider and its own root's session ledger, and adopts or releases, one *)
(* provider call after another.  Any of them may fail, or the process end, *)
(* and lanes, verdicts and other sweepers move in between.                 *)
(***************************************************************************)
EXTENDS Provider, FiniteSets

CONSTANTS
    Sweeper,
    Home,               \* Home[w]: the executor root sweeper w runs in
    RepairMaxAttempts,
    MaxRuns,            \* bound: verdicts of the required workflow
    MaxFailures         \* bound: sweeps that fail or crash half way

ASSUME HomeAssumption == Home \in [Sweeper -> Root]
ASSUME LimitsAssumption ==
    RepairMaxAttempts \in Nat /\ MaxRuns \in Nat /\ MaxFailures \in Nat

VARIABLES
    salvage,    \* salvage[s]: heads kept by a progress-<issue>-<head> branch
    recent,     \* recent[e][s]: e's ledger has an event of s within the window; in
                \* this module live[e][s] says only that the session's process runs
    repairs,    \* repairs[e][s]: <<head, job>> of each repair_receipt event of the
                \* session of s under e, <<head, 0>> of each repair_escalation
    failed,     \* failed[h]: failed job of the completed required run of head h, or 0
    passed,     \* passed[h]: the required run of head h concluded success
    runs,       \* number of verdicts so far
    receipts,   \* receipts[s]: heads a release receipt was written for
    sweep,      \* sweep[w]: what sweeper w is at
    failures    \* number of failed sweeps so far

claimVars == <<salvage, receipts>>
ledgerVars == <<recent, repairs>>
runVars == <<failed, passed, runs>>
sweepVars == <<sweep, failures>>
vars == <<githubVars, rootVars, claimVars, ledgerVars, runVars, sweepVars>>

Job == 0 .. MaxRuns

Call == {"issue", "classify", "adopt", "failure", "salvage", "readState", "flip",
         "readback", "delete", "receipt"}
Sweep == [call : Call, by : {"sweep", "repair"}, subject : Subject, head : Commit, body : Body]
Resting == [call |-> "idle", by |-> "sweep", subject |-> None, head |-> None, body |-> Malformed]

TypeOK ==
    /\ ProviderTypeOK
    /\ salvage \in [Subject -> SUBSET Commit]
    /\ recent \in [Root -> [Subject -> BOOLEAN]]
    /\ repairs \in [Root -> [Subject -> SUBSET (Commit \X Job)]]
    /\ failed \in [Commit -> Job]
    /\ passed \in [Commit -> BOOLEAN]
    /\ runs \in Job
    /\ receipts \in [Subject -> SUBSET Commit]
    /\ sweep \in [Sweeper -> Sweep \cup {Resting}]
    /\ failures \in 0 .. MaxFailures

Init ==
    /\ ProviderInit
    /\ salvage = [s \in Subject |-> {}]
    /\ recent = [e \in Root |-> [s \in Subject |-> FALSE]]
    /\ repairs = [e \in Root |-> [s \in Subject |-> {}]]
    /\ failed = [h \in Commit |-> 0]
    /\ passed = [h \in Commit |-> FALSE]
    /\ runs = 0
    /\ receipts = [s \in Subject |-> {}]
    /\ sweep = [w \in Sweeper |-> Resting]
    /\ failures = 0
-----------------------------------------------------------------------------
\* What a sweeper works on; a step of it changes the call it is at, or rests.
At(w, call) == sweep[w].call = call
Goes(w, call) == sweep' = [sweep EXCEPT ![w].call = call]
Rests(w) == sweep' = [sweep EXCEPT ![w] = Resting]

\* dead_claim_snapshot: the refs of every claim are read first ...
ReadRefs(w, s) ==
    /\ At(w, "idle") /\ s \in Claims
    /\ sweep' = [sweep EXCEPT ![w] = [Resting EXCEPT !.call = "issue", !.subject = s,
                                                     !.head = ref[s]]]
    /\ UNCHANGED <<githubVars, rootVars, claimVars, ledgerVars, runVars, failures>>

Sweepable(s) == open[s] /\ body[s].state \in {"awaiting_land", "ready"}

\* ... then each issue ...
ReadIssue(w) ==
    /\ At(w, "issue")
    /\ LET s == sweep[w].subject IN
        \/ /\ Sweepable(s)
           /\ sweep' = [sweep EXCEPT ![w].call = "classify", ![w].body = body[s]]
        \/ ~Sweepable(s) /\ Rests(w)
    /\ UNCHANGED <<githubVars, rootVars, claimVars, ledgerVars, runVars, failures>>

\* Mutant of Class: a release that already flipped the issue is not recognised.
ForgetfulClass(e, s, head, state) ==
    IF ~MatchingOpenPullRequest(s) THEN "pre_pr"
    ELSE IF recent[e][s] THEN "live_session"
    ELSE IF pr[s] = "foreign" \/ ref[s] # head THEN "head_drift"
    ELSE IF state = "awaiting_land" THEN "dead_claim"
    ELSE "not_awaiting_land"

\* ... and with the ledger of the sweeper's own root and the pull requests the
\* class.  Claims without a pull request belong to the claim cycle.
Class(e, s, head, state) ==
    IF ~MatchingOpenPullRequest(s) THEN "pre_pr"
    ELSE IF recent[e][s] THEN "live_session"
    ELSE IF pr[s] = "foreign" \/ ref[s] # head THEN "head_drift"
    ELSE IF state = "awaiting_land" THEN "dead_claim"
    ELSE IF head \in salvage[s] THEN "released_residue"
    ELSE "not_awaiting_land"

\* A session ever started of s under e has its worktree there.
Tied(e, s) == worktree[e][s] # None

ClassifyClaim(w) ==
    /\ At(w, "classify")
    /\ LET e == Home[w]
           s == sweep[w].subject
           class == Class(e, s, sweep[w].head, sweep[w].body.state)
       IN  \/ class = "dead_claim" /\ Tied(e, s) /\ Goes(w, "adopt")
           \/ class = "dead_claim" /\ ~Tied(e, s) /\ Goes(w, "failure")
           \/ class = "released_residue" /\ Goes(w, "failure")
           \/ class \notin {"dead_claim", "released_residue"} /\ Rests(w)
    /\ UNCHANGED <<githubVars, rootVars, claimVars, ledgerVars, runVars, failures>>

\* repair_pending_reviews: a review Noodle holds pending enters the ceremony.
RepairPending(w, s) ==
    /\ At(w, "idle") /\ s \in active[Home[w]] /\ ~live[Home[w]][s]
    /\ pr[s] = "lane" /\ ref[s] # None /\ failed[ref[s]] # 0
    /\ sweep' = [sweep EXCEPT ![w] = [Resting EXCEPT !.call = "adopt", !.by = "repair",
                                                     !.subject = s, !.head = ref[s]]]
    /\ UNCHANGED <<githubVars, rootVars, claimVars, ledgerVars, runVars, failures>>
-----------------------------------------------------------------------------
\* repair_review: the worktree of the newest session, clean at the head of the
\* pull request, whose required run failed.
Adoptable(e, s, head) ==
    /\ open[s] /\ body[s].state = "awaiting_land"
    /\ worktree[e][s] = head
    /\ failed[head] # 0

Attempts(e, s) == {a \in repairs[e][s] : a[2] # 0}

\* The session event a repair emits makes the ledger recent again.
Emit(e, s, event) ==
    /\ repairs' = [repairs EXCEPT ![e][s] = @ \cup {event}]
    /\ recent' = [recent EXCEPT ![e][s] = @ \/ event \notin repairs[e][s]]

\* What a refused adoption leads to: the sweep releases, the repair pass raises.
Refused(w) ==
    \/ sweep[w].by = "sweep" /\ Goes(w, "failure")
    \/ sweep[w].by = "repair" /\ Rests(w)

AdoptRefused(w) ==
    /\ At(w, "adopt") /\ ~Adoptable(Home[w], sweep[w].subject, sweep[w].head)
    /\ Refused(w)
    /\ UNCHANGED <<githubVars, rootVars, claimVars, ledgerVars, runVars, failures>>

\* The failure has its receipt already: reported adopted, nothing is emitted.
AdoptAgain(w) ==
    /\ At(w, "adopt")
    /\ LET e == Home[w]
           s == sweep[w].subject
           head == sweep[w].head
       IN  Adoptable(e, s, head) /\ <<head, failed[head]>> \in repairs[e][s]
    /\ Rests(w)
    /\ UNCHANGED <<githubVars, rootVars, claimVars, ledgerVars, runVars, failures>>

AdoptClaim(w) ==
    /\ At(w, "adopt")
    /\ LET e == Home[w]
           s == sweep[w].subject
           head == sweep[w].head
       IN  /\ Adoptable(e, s, head) /\ <<head, failed[head]>> \notin repairs[e][s]
           /\ Cardinality(Attempts(e, s)) < RepairMaxAttempts
           /\ Emit(e, s, <<head, failed[head]>>)
    /\ Rests(w)
    /\ UNCHANGED <<githubVars, rootVars, claimVars, runVars, failures>>

AdoptExhausted(w) ==
    /\ At(w, "adopt")
    /\ LET e == Home[w]
           s == sweep[w].subject
           head == sweep[w].head
       IN  /\ Adoptable(e, s, head) /\ <<head, failed[head]>> \notin repairs[e][s]
           /\ Cardinality(Attempts(e, s)) >= RepairMaxAttempts
           /\ Emit(e, s, <<head, 0>>)
    /\ Refused(w)
    /\ UNCHANGED <<githubVars, rootVars, claimVars, runVars, failures>>
-----------------------------------------------------------------------------
\* release_dead_claim: only a head with a failed required run is released.
ReadFailure(w) ==
    /\ At(w, "failure")
    /\ \/ failed[sweep[w].head] # 0 /\ Goes(w, "salvage")
       \/ failed[sweep[w].head] = 0 /\ Rests(w)
    /\ UNCHANGED <<githubVars, rootVars, claimVars, ledgerVars, runVars, failures>>

\* Mutant of Preserve: the salvage branch is only looked up.
FindPreserved(w) ==
    /\ At(w, "salvage")
    /\ Goes(w, "readState")
    /\ UNCHANGED <<githubVars, rootVars, claimVars, ledgerVars, runVars, failures>>

\* Mutant of Preserve: the name is freed before the issue is flipped.
PreserveThenFree(w) ==
    /\ At(w, "salvage")
    /\ salvage' = [salvage EXCEPT ![sweep[w].subject] = @ \cup {sweep[w].head}]
    /\ Goes(w, "delete")
    /\ UNCHANGED <<githubVars, rootVars, receipts, ledgerVars, runVars, failures>>

Preserve(w) ==
    /\ At(w, "salvage")
    /\ salvage' = [salvage EXCEPT ![sweep[w].subject] = @ \cup {sweep[w].head}]
    /\ Goes(w, "readState")
    /\ UNCHANGED <<githubVars, rootVars, receipts, ledgerVars, runVars, failures>>

\* issue_set_state: read the body, write it back with the state replaced, read it
\* again.  The state it had is not looked at.
ReadState(w) ==
    /\ At(w, "readState")
    /\ LET s == sweep[w].subject IN
        \/ /\ Readable(s)
           /\ sweep' = [sweep EXCEPT ![w].call = "flip", ![w].body = body[s]]
        \/ ~Readable(s) /\ Rests(w)
    /\ UNCHANGED <<githubVars, rootVars, claimVars, ledgerVars, runVars, failures>>

Flipped(b) == ReplaceState(b, "ready")

FlipReady(w) ==
    /\ At(w, "flip")
    /\ body' = [body EXCEPT ![sweep[w].subject] = Flipped(sweep[w].body)]
    /\ Goes(w, "readback")
    /\ UNCHANGED <<open, ref, pr, default, commits, edits, rootVars, claimVars, ledgerVars,
                   runVars, failures>>

ReadBack(w) ==
    /\ At(w, "readback")
    /\ \/ body[sweep[w].subject].state = "ready" /\ Goes(w, "delete")
       \/ body[sweep[w].subject].state # "ready" /\ Rests(w)
    /\ UNCHANGED <<githubVars, rootVars, claimVars, ledgerVars, runVars, failures>>

\* The claim name is deleted whatever head it has; GitHub then closes the pull
\* request that was open from it.  A name already gone is an error.
FreeBranch(w) ==
    /\ At(w, "delete")
    /\ LET s == sweep[w].subject IN
        \/ /\ ref[s] # None
           /\ ref' = [ref EXCEPT ![s] = None]
           /\ pr' = [pr EXCEPT ![s] = IF @ = "lane" THEN "none" ELSE @]
           /\ Goes(w, "receipt")
        \/ ref[s] = None /\ Rests(w) /\ UNCHANGED <<ref, pr>>
    /\ UNCHANGED <<open, body, default, commits, edits, rootVars, claimVars, ledgerVars,
                   runVars, failures>>

\* The receipt comes last, and only if the name is still free.
WriteReceipt(w) ==
    /\ At(w, "receipt")
    /\ LET s == sweep[w].subject IN
        receipts' = [receipts EXCEPT ![s] = IF ref[s] = None THEN @ \cup {sweep[w].head} ELSE @]
    /\ Rests(w)
    /\ UNCHANGED <<githubVars, rootVars, salvage, ledgerVars, runVars, failures>>

\* A call raises, or the process ends: nothing of the sweep is remembered.
SweepFails(w) ==
    /\ ~At(w, "idle") /\ failures < MaxFailures
    /\ failures' = failures + 1
    /\ Rests(w)
    /\ UNCHANGED <<githubVars, rootVars, claimVars, ledgerVars, runVars>>
-----------------------------------------------------------------------------
\* A claim cycle, start to publication, of a root whose snapshot was not raced
\* (ClaimCycle has its steps).
ClaimLane(e, s) ==
    /\ ref[s] = None /\ Schedulable(s) /\ ~MatchingOpenPullRequest(s)
    /\ s \notin active[e]
    /\ ref' = [ref EXCEPT ![s] = default]
    /\ ordersNext' = [ordersNext EXCEPT ![e] = @ \cup {s}]
    /\ UNCHANGED <<open, body, pr, default, commits, edits, active, worktree, live,
                   claimVars, ledgerVars, runVars, sweepVars>>

\* Noodle (external) logs what a session does; a worker may be silent for longer
\* than the window.
SessionStarts(e, s) ==
    /\ StartSession(e, s)
    /\ recent' = [recent EXCEPT ![e][s] = TRUE]
    /\ UNCHANGED <<claimVars, repairs, runVars, sweepVars>>

SessionSpeaks(e, s) ==
    /\ live[e][s] /\ ~recent[e][s]
    /\ recent' = [recent EXCEPT ![e][s] = TRUE]
    /\ UNCHANGED <<githubVars, rootVars, claimVars, repairs, runVars, sweepVars>>

\* SESSION_LIVENESS_WINDOW_SECONDS pass without an event.
WindowPasses(e, s) ==
    /\ recent[e][s]
    /\ recent' = [recent EXCEPT ![e][s] = FALSE]
    /\ UNCHANGED <<githubVars, rootVars, claimVars, repairs, runVars, sweepVars>>

\* GitHub (external) concludes the required run of a pull request's head, and
\* runs a failed one again when asked.
ConcludeRun(s) ==
    /\ pr[s] = "lane" /\ failed[ref[s]] = 0 /\ ~passed[ref[s]]
    /\ \/ passed' = [passed EXCEPT ![ref[s]] = TRUE] /\ UNCHANGED <<failed, runs>>
       \/ /\ runs < MaxRuns
          /\ runs' = runs + 1
          /\ failed' = [failed EXCEPT ![ref[s]] = runs + 1]
          /\ UNCHANGED passed
    /\ UNCHANGED <<githubVars, rootVars, claimVars, ledgerVars, sweepVars>>

Rerun(s) ==
    /\ pr[s] = "lane" /\ failed[ref[s]] # 0
    /\ failed' = [failed EXCEPT ![ref[s]] = 0]
    /\ UNCHANGED <<githubVars, rootVars, claimVars, ledgerVars, passed, runs, sweepVars>>

LandVerified(s) ==
    /\ pr[s] = "lane" /\ passed[ref[s]]
    /\ LandPullRequest(s)
    /\ UNCHANGED <<claimVars, ledgerVars, runVars, sweepVars>>

Cook(e, s) ==
    /\ LoseSession(e, s) \/ DropOrder(e, s) \/ PushCommit(e, s)
         \/ OpenPullRequest(e, s) \/ ExecuteHandoff(e, s)
    /\ UNCHANGED <<claimVars, ledgerVars, runVars, sweepVars>>

Promote(e) ==
    PromoteOrders(e) /\ UNCHANGED <<claimVars, ledgerVars, runVars, sweepVars>>

\* Whatever else happens to the lane of s.
LaneMoves(s) ==
    \/ ConcludeRun(s) \/ LandVerified(s)
    \/ \E e \in Root :
        \/ ClaimLane(e, s) \/ SessionStarts(e, s) \/ SessionSpeaks(e, s)
        \/ WindowPasses(e, s) \/ Cook(e, s)

Sweeps(w) ==
    \/ ReadIssue(w) \/ ClassifyClaim(w)
    \/ AdoptRefused(w) \/ AdoptAgain(w) \/ AdoptClaim(w) \/ AdoptExhausted(w)
    \/ ReadFailure(w) \/ Preserve(w) \/ ReadState(w) \/ FlipReady(w) \/ ReadBack(w)
    \/ FreeBranch(w) \/ WriteReceipt(w)

Starts(w) == \E s \in Subject : ReadRefs(w, s) \/ RepairPending(w, s)

Next ==
    \/ \E w \in Sweeper : Starts(w) \/ Sweeps(w) \/ SweepFails(w)
    \/ \E e \in Root : Promote(e)
    \/ \E s \in Subject : LaneMoves(s) \/ Rerun(s)

Spec == Init /\ [][Next]_vars

\* The supervised loop sweeps again and again, however often a repair pass comes
\* first, and an hour of silence passes.
Fair ==
    /\ \A w \in Sweeper, s \in Subject : WF_vars(Sweeps(w)) /\ SF_vars(ReadRefs(w, s))
    /\ \A e \in Root, s \in Subject : WF_vars(WindowPasses(e, s))

\* What the release relies on and does not check: while a sweep is at a claim only
\* other sweeps move it, and no failed run is run again.
Busy(s) == \E w \in Sweeper : sweep[w].subject = s

QuietNext ==
    \/ \E w \in Sweeper : Starts(w) \/ Sweeps(w) \/ SweepFails(w)
    \/ \E e \in Root : Promote(e)
    \/ \E s \in Subject : ~Busy(s) /\ LaneMoves(s)

QuietSpec == Init /\ [][QuietNext]_vars /\ Fair
-----------------------------------------------------------------------------
(***************************************************************************)
(* Properties                                                              *)
(***************************************************************************)

Releasing(w) ==
    sweep[w].call \in {"readState", "flip", "readback", "delete", "receipt"}

\* Whatever races the release, an issue is flipped and a name freed only after
\* the head the claim was classified at is kept on a salvage branch; a ready lane
\* is never released on its state alone.
PreservedBeforeFlip ==
    \A w \in Sweeper : Releasing(w) => sweep[w].head \in salvage[sweep[w].subject]

\* No commit of a lane is lost with its name, and no name is freed in vain: what the
\* branch carried when it was deleted is on a salvage branch, and the subject is one
\* the next claim cycle admits, ready and without a pull request.
Freed(s) == ref[s] # None /\ ref'[s] = None
FreedSafely ==
    [][\A s \in Subject : Freed(s) =>
        ref[s] \in salvage[s] /\ Schedulable(s)' /\ ~MatchingOpenPullRequest(s)']_vars

\* A release that crashed between its state flip and the deletion.
Residue(s) ==
    open[s] /\ body[s].state = "ready" /\ pr[s] = "lane" /\ ref[s] \in salvage[s]

\* "every partial release stays mechanically owned instead of wedging": residue is
\* freed by a later sweep, or a session comes back to the lane.
ResidueFreed ==
    \A s \in Subject : Residue(s) ~> ~Residue(s) \/ \E e \in Root : recent[e][s]
=============================================================================
