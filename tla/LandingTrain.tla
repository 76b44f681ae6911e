---------------------------- MODULE LandingTrain ----------------------------
(***************************************************************************)
(* Landing: a verified head starts a land job (land.yml), which merges the *)
(* pull request at that exact head, marks and closes its issue            *)
(* (land_pull_request) and then runs the train (landing_train): finish the *)
(* members of a pre-stacked batch the merge carried, nudge the dependents  *)
(* of the closed subject, rebase the oldest pull request that fell behind. *)
(* Jobs of different heads run at the same time, and owners push.          *)
(* reconcile_once then releases the lane's review.                         *)
(*                                                                         *)
(* A subject and its pull request share one number; a smaller one is older.*)
(* A head is what the code can tell of it: the main it contains, the heads *)
(* it was stacked on and the pushes of its owner.                          *)
(***************************************************************************)
EXTENDS Naturals, Sequences, FiniteSets

CONSTANTS
    Pull,           \* pull requests, one for each subject
    Depends,        \* edges <<p, d>>: the body of p names d in its depends-on marker
    Stackings,      \* ways the first heads may be stacked: f[p] is the set of pulls
                    \* whose first heads the first head of p contains
    Late,           \* pulls not opened at first, unless they are stacked
    MaxPushes,      \* bound: pushes of owners
    MaxFailures     \* bound: jobs that fail or are cut short

ASSUME PullAssumption == Pull \subseteq Nat \ {0} /\ Late \subseteq Pull
ASSUME DependsAssumption == Depends \subseteq Pull \X Pull
ASSUME StackingsAssumption == Stackings \subseteq [Pull -> SUBSET Pull]
ASSUME BoundsAssumption == MaxPushes \in Nat /\ MaxFailures \in Nat

\* verified_batch.MEMBER_COUNT
MEMBER_COUNT == 3

Id(h) == <<h.pull, h.version>>

VARIABLES
    main,       \* the heads merged into the default branch, oldest first
    head,       \* head[p]: head of the branch of p
    pr,         \* pr[p]: "absent", "open", "merged" or "closed" (unmerged)
    issue,      \* issue[p]: open, and the markers state, head (a version), merge
    green,      \* heads whose verify run passed
    red,        \* heads whose verify run failed
    failback,   \* heads a fail-back comment names
    job,        \* job[p]: the land job of p and what it has read
    released,   \* subjects whose Noodle review the reconciler merged
    local,      \* how much of main the control checkout has
    pushes,     \* pushes of owners so far
    failures    \* failed jobs so far

pullVars == <<head, pr>>
runVars == <<green, red, failback>>
rootVars == <<released, local>>
vars == <<main, pullVars, issue, runVars, job, rootVars, pushes, failures>>

HeadId == Pull \X Nat
BranchHead == [pull : Pull, version : Nat, work : Nat, base : Nat, stack : SUBSET HeadId]

Issue == [open : BOOLEAN, state : {"ready", "awaiting_land", "landed"},
          version : Nat, merge : Nat]

Step == {"admit", "merge", "branch", "mark", "close", "list", "batch", "member",
         "memberPull", "memberIssue", "dependents", "nudge", "select", "fetch", "push"}
Job == [at : Step \cup {"idle"}, version : Nat, tip : Nat, listed : SUBSET BranchHead,
        todo : SUBSET Pull, done : SUBSET Pull, target : Pull \cup {0}, onto : Nat,
        nudging : BOOLEAN]
Resting == [at |-> "idle", version |-> 0, tip |-> 0, listed |-> {}, todo |-> {},
            done |-> {}, target |-> 0, onto |-> 0, nudging |-> FALSE]

TypeOK ==
    /\ main \in Seq(BranchHead)
    /\ head \in [Pull -> BranchHead] /\ \A p \in Pull : head[p].pull = p
    /\ pr \in [Pull -> {"absent", "open", "merged", "closed"}]
    /\ issue \in [Pull -> Issue]
    /\ green \subseteq HeadId /\ red \subseteq HeadId /\ failback \subseteq HeadId
    /\ job \in [Pull -> Job]
    /\ released \subseteq Pull
    /\ local \in Nat
    /\ pushes \in 0 .. MaxPushes /\ failures \in 0 .. MaxFailures

FirstHead(p, f) == [pull |-> p, version |-> 0, work |-> 0, base |-> 0,
                    stack |-> {<<q, 0>> : q \in f[p]}]

Init ==
    /\ main = <<>>
    /\ \E f \in Stackings :
        /\ head = [p \in Pull |-> FirstHead(p, f)]
        /\ pr = [p \in Pull |-> IF p \in Late /\ f[p] = {} THEN "absent" ELSE "open"]
    /\ issue = [p \in Pull |-> [open |-> TRUE,
                                state |-> IF pr[p] = "absent" THEN "ready" ELSE "awaiting_land",
                                version |-> 0, merge |-> 0]]
    /\ green = {} /\ red = {} /\ failback = {}
    /\ job = [p \in Pull |-> Resting]
    /\ released = {} /\ local = 0
    /\ pushes = 0 /\ failures = 0
-----------------------------------------------------------------------------
\* What a compare of the default branch with a head says.
Tip == Len(main)

Behind(h) == h.base < Tip

Holds(h, id) == id = Id(h) \/ id \in h.stack

\* The first n merges contain the exact head id (ahead_by = 0).
OnMain(id, n) == \E i \in 1 .. n : Holds(main[i], id)

\* git merge-base --is-ancestor
IsAncestor(id, h) == Holds(h, id) \/ OnMain(id, h.base)

AwaitsLand(p) == issue[p].open /\ issue[p].state = "awaiting_land"

Oldest(p, S) == p \in S /\ \A q \in S : p <= q
Listed(p, q) == CHOOSE h \in job[p].listed : h.pull = q
Pulls(S) == {h.pull : h \in S}
-----------------------------------------------------------------------------
\* The owner (external) opens a pull request and hands its subject off, pushes a
\* commit on top of the branch, or rebases the branch by hand.
Handoff(p) ==
    /\ pr[p] = "absent"
    /\ pr' = [pr EXCEPT ![p] = "open"]
    /\ head' = [head EXCEPT ![p].base = Tip]
    /\ issue' = [issue EXCEPT ![p].state = "awaiting_land"]
    /\ UNCHANGED <<main, runVars, job, rootVars, pushes, failures>>

OwnerPush(p) ==
    /\ pr[p] = "open" /\ pushes < MaxPushes
    /\ pushes' = pushes + 1
    /\ \/ head' = [head EXCEPT ![p].version = @ + 1, ![p].work = @ + 1]
       \/ head' = [head EXCEPT ![p].version = @ + 1, ![p].work = @ + 1,
                               ![p].base = Tip, ![p].stack = {}]
    /\ UNCHANGED <<main, pr, issue, runVars, job, rootVars, failures>>

\* A tree without a dependency's change fails its tests.
Misses(h) ==
    \E d \in Pull : /\ <<h.pull, d>> \in Depends
                    /\ \A i \in 1 .. h.base : main[i].pull # d
                    /\ d \notin {id[1] : id \in h.stack}

Unverified(p) ==
    pr[p] = "open" /\ job[p].at = "idle" /\ Id(head[p]) \notin green \cup red

\* verify_pull_request at the current head; success starts the land job of that
\* head.  A push cancels the run of the head before it.
VerifyPasses(p) ==
    /\ Unverified(p) /\ AwaitsLand(p) /\ ~Misses(head[p])
    /\ green' = green \cup {Id(head[p])}
    /\ job' = [job EXCEPT ![p] = [Resting EXCEPT !.at = "admit", !.version = head[p].version]]
    /\ UNCHANGED <<main, pullVars, issue, red, failback, rootVars, pushes, failures>>

VerifyFails(p) ==
    /\ Unverified(p)
    /\ red' = red \cup {Id(head[p])}
    /\ UNCHANGED <<main, pullVars, issue, green, failback, job, rootVars, pushes, failures>>
-----------------------------------------------------------------------------
At(p, step) == job[p].at = step
Goes(p, step) == job' = [job EXCEPT ![p].at = step]
Rests(p) == job' = [job EXCEPT ![p] = Resting]

\* land_pull_request: the pull request and its issue are read ...
Admit(p) ==
    /\ At(p, "admit")
    /\ \/ pr[p] = "open" /\ head[p].version = job[p].version /\ AwaitsLand(p) /\ Goes(p, "merge")
       \/ ~(pr[p] = "open" /\ head[p].version = job[p].version /\ AwaitsLand(p)) /\ Rests(p)
    /\ UNCHANGED <<main, pullVars, issue, runVars, rootVars, pushes, failures>>

\* What GitHub requires of the PUT: the sha it names is the head, and the branch
\* is up to date (strict status checks).
Mergeable(p) ==
    pr[p] = "open" /\ head[p].version = job[p].version /\ ~Behind(head[p])

\* ... and the exact head is merged.
Merge(p) ==
    /\ At(p, "merge")
    /\ \/ /\ Mergeable(p)
          /\ main' = Append(main, head[p])
          /\ pr' = [pr EXCEPT ![p] = "merged"]
          /\ job' = [job EXCEPT ![p].at = "branch", ![p].tip = Tip + 1]
       \/ ~Mergeable(p) /\ Rests(p) /\ UNCHANGED <<main, pr>>
    /\ UNCHANGED <<head, issue, runVars, rootVars, pushes, failures>>

\* The default branch must still stand on the merge.
ReadBranch(p) ==
    /\ At(p, "branch")
    /\ IF Tip = job[p].tip THEN Goes(p, "mark") ELSE Rests(p)
    /\ UNCHANGED <<main, pullVars, issue, runVars, rootVars, pushes, failures>>

Marked(p, version, merge) ==
    issue' = [issue EXCEPT ![p].state = "landed", ![p].version = version, ![p].merge = merge]

MarkLanded(p) ==
    /\ At(p, "mark")
    /\ Marked(p, job[p].version, job[p].tip)
    /\ Goes(p, "close")
    /\ UNCHANGED <<main, pullVars, runVars, rootVars, pushes, failures>>

CloseIssue(p) ==
    /\ At(p, "close")
    /\ issue' = [issue EXCEPT ![p].open = FALSE]
    /\ Goes(p, "list")
    /\ UNCHANGED <<main, pullVars, runVars, rootVars, pushes, failures>>
-----------------------------------------------------------------------------
\* landing_train: the open pull requests are listed once ...
ListPulls(p) ==
    /\ At(p, "list")
    /\ job' = [job EXCEPT ![p].at = "batch", ![p].listed = {head[q] : q \in {r \in Pull : pr[r] = "open"}}]
    /\ UNCHANGED <<main, pullVars, issue, runVars, rootVars, pushes, failures>>

\* carried: heads the default branch already contains.
Carried(p) == {h \in job[p].listed : AwaitsLand(h.pull) /\ OnMain(Id(h), Tip)}

\* batch: the refusals of the manifest and of verified_batch.construct_batch, with
\* the second parent of the tip as the last member.
BatchAdmitted(p) ==
    LET members == Carried(p)
        landed == main[Tip]
    IN  /\ members # {}
        /\ Cardinality(members) + 1 = MEMBER_COUNT
        /\ p \notin Pulls(members)
        /\ \A h \in members : Id(h) # Id(landed) /\ IsAncestor(Id(h), landed)
        /\ \A g, h \in members : g.pull < h.pull => IsAncestor(Id(g), h)

Batch(p) ==
    /\ At(p, "batch")
    /\ \/ /\ BatchAdmitted(p)
          /\ job' = [job EXCEPT ![p].at = "member", ![p].tip = Tip,
                                ![p].todo = Pulls(Carried(p)), ![p].done = Pulls(Carried(p))]
       \/ ~BatchAdmitted(p) /\ Goes(p, "dependents")
    /\ UNCHANGED <<main, pullVars, issue, runVars, rootVars, pushes, failures>>

\* Mutant of MemberVersion: the member's head is read again.
CurrentVersion(p, q) == head[q].version

\* The head a member is marked with is the one that was listed and verified.
MemberVersion(p, q) == Listed(p, q).version

\* Each member: mark its issue, close its pull request, close its issue.
MarkMember(p) ==
    /\ At(p, "member")
    /\ \E q \in Pull :
        /\ Oldest(q, job[p].todo)
        /\ Marked(q, MemberVersion(p, q), job[p].tip)
        /\ job' = [job EXCEPT ![p].at = "memberPull", ![p].target = q]
    /\ UNCHANGED <<main, pullVars, runVars, rootVars, pushes, failures>>

CloseMemberPull(p) ==
    /\ At(p, "memberPull")
    /\ pr' = [pr EXCEPT ![job[p].target] = IF @ = "open" THEN "closed" ELSE @]
    /\ Goes(p, "memberIssue")
    /\ UNCHANGED <<main, head, issue, runVars, rootVars, pushes, failures>>

CloseMemberIssue(p) ==
    /\ At(p, "memberIssue")
    /\ LET q == job[p].target
           rest == job[p].todo \ {q}
       IN  /\ issue' = [issue EXCEPT ![q].open = FALSE]
           /\ job' = [job EXCEPT ![p].at = IF rest = {} THEN "dependents" ELSE "member",
                                 ![p].todo = rest, ![p].target = 0]
    /\ UNCHANGED <<main, pullVars, runVars, rootVars, pushes, failures>>
-----------------------------------------------------------------------------
\* Mutant of Dependents: nobody is nudged.
NoDependents(p) == {}

\* dependents: listed pulls whose subject names the closed one.
Dependents(p) ==
    {q \in Pulls(job[p].listed) : AwaitsLand(q) /\ <<q, p>> \in Depends}

ReadDependents(p) ==
    /\ At(p, "dependents")
    /\ job' = [job EXCEPT ![p].at = "nudge", ![p].todo = Dependents(p) \ job[p].done]
    /\ UNCHANGED <<main, pullVars, issue, runVars, rootVars, pushes, failures>>

\* A dependent is pushed only while it is behind.
Nudge(p) ==
    /\ At(p, "nudge")
    /\ \/ job[p].todo = {} /\ Goes(p, "select")
       \/ \E q \in Pull :
            /\ Oldest(q, job[p].todo)
            /\ \/ /\ Behind(Listed(p, q))
                  /\ job' = [job EXCEPT ![p].at = "fetch", ![p].target = q, ![p].nudging = TRUE]
               \/ /\ ~Behind(Listed(p, q))
                  /\ job' = [job EXCEPT ![p].todo = @ \ {q}]
    /\ UNCHANGED <<main, pullVars, issue, runVars, rootVars, pushes, failures>>

\* train_verify_failed_head: a run that completed on this very head and failed.
VerifyFailed(h) == Id(h) \in red

\* train_select: the oldest listed pull that is behind and neither failed back nor
\* failed verification.
Selectable(p) ==
    {h \in job[p].listed : /\ h.pull \notin job[p].done
                           /\ AwaitsLand(h.pull) /\ Behind(h)
                           /\ Id(h) \notin failback /\ ~VerifyFailed(h)}

Select(p) ==
    /\ At(p, "select")
    /\ \/ \E q \in Pull :
            /\ Oldest(q, Pulls(Selectable(p)))
            /\ job' = [job EXCEPT ![p].at = "fetch", ![p].target = q, ![p].nudging = FALSE]
       \/ Selectable(p) = {} /\ Rests(p)
    /\ UNCHANGED <<main, pullVars, issue, runVars, rootVars, pushes, failures>>

\* train_rebase: a branch that moved since the listing ends the whole job ...
Fetch(p) ==
    /\ At(p, "fetch")
    /\ LET q == job[p].target IN
        IF Id(head[q]) = Id(Listed(p, q))
        THEN job' = [job EXCEPT ![p].at = "push", ![p].onto = Tip]
        ELSE Rests(p)
    /\ UNCHANGED <<main, pullVars, issue, runVars, rootVars, pushes, failures>>

\* What the train does after a push or a fail-back.
Pushed(p) ==
    LET q == job[p].target IN
    IF job[p].nudging
    THEN job' = [job EXCEPT ![p].at = "nudge", ![p].todo = @ \ {q}, ![p].done = @ \cup {q},
                            ![p].target = 0, ![p].onto = 0, ![p].nudging = FALSE]
    ELSE Rests(p)

\* ... a conflict is commented at the listed head ...
FailBack(p) ==
    /\ At(p, "push") /\ Listed(p, job[p].target).base < job[p].onto
    /\ failback' = failback \cup {Id(Listed(p, job[p].target))}
    /\ Pushed(p)
    /\ UNCHANGED <<main, pullVars, issue, green, red, rootVars, pushes, failures>>

\* Mutant of LeaseHolds: a plain forced push.
Forced(p) == TRUE

\* The lease: the branch still has the head that was listed.
LeaseHolds(p) == Id(head[job[p].target]) = Id(Listed(p, job[p].target))

\* ... and a clean replay is pushed under the lease on the listed head.
PushRebased(p) ==
    /\ At(p, "push")
    /\ LET q == job[p].target
           h == Listed(p, q)
       IN  \/ /\ LeaseHolds(p)
              /\ head' = [head EXCEPT ![q] = [h EXCEPT !.version = head[q].version + 1,
                                                       !.base = job[p].onto, !.stack = {}]]
              /\ Pushed(p)
           \/ ~LeaseHolds(p) /\ Rests(p) /\ UNCHANGED head
    /\ UNCHANGED <<main, pr, issue, runVars, rootVars, pushes, failures>>

\* Any other provider error ends the job where it is.
JobFails(p) ==
    /\ ~At(p, "idle") /\ failures < MaxFailures
    /\ failures' = failures + 1
    /\ Rests(p)
    /\ UNCHANGED <<main, pullVars, issue, runVars, rootVars, pushes>>
-----------------------------------------------------------------------------
\* provider_landed: the markers name a merged pull request at that head and merge.
ProviderLanded(p) ==
    /\ ~issue[p].open /\ issue[p].state = "landed"
    /\ pr[p] = "merged"
    /\ \E i \in 1 .. Tip : i = issue[p].merge /\ Id(main[i]) = <<p, issue[p].version>>

\* reconcile_once: the control checkout follows main, the review is released.
Reconcile(p) ==
    /\ p \notin released /\ ProviderLanded(p)
    /\ local' = Tip
    /\ released' = released \cup {p}
    /\ UNCHANGED <<main, pullVars, issue, runVars, job, pushes, failures>>

Land(p) ==
    Admit(p) \/ Merge(p) \/ ReadBranch(p) \/ MarkLanded(p) \/ CloseIssue(p)

Train(p) ==
    \/ ListPulls(p) \/ Batch(p)
    \/ MarkMember(p) \/ CloseMemberPull(p) \/ CloseMemberIssue(p)
    \/ ReadDependents(p) \/ Nudge(p) \/ Select(p)
    \/ Fetch(p) \/ FailBack(p) \/ PushRebased(p)

Verify(p) == VerifyPasses(p) \/ VerifyFails(p)

Next ==
    \E p \in Pull :
        \/ Handoff(p) \/ OwnerPush(p)
        \/ Verify(p) \/ Land(p) \/ Train(p) \/ JobFails(p)
        \/ Reconcile(p)

Spec == Init /\ [][Next]_vars

\* Runs conclude, jobs go on, the reconciler watches.
FairSpec ==
    /\ Spec
    /\ \A p \in Pull : WF_vars(Verify(p)) /\ WF_vars(Land(p) \/ Train(p)) /\ WF_vars(Reconcile(p))
-----------------------------------------------------------------------------
(***************************************************************************)
(* Properties                                                              *)
(***************************************************************************)

\* A landed marker never names a head that is not in the default branch at the
\* merge it names, whether the lander wrote it or a batch did.
MarkedIsMerged ==
    \A p \in Pull : issue[p].state = "landed" =>
        issue[p].merge <= Tip /\ OnMain(<<p, issue[p].version>>, issue[p].merge)

\* No push of the train takes a commit of the owner off the branch.
OwnerWorkKept ==
    [][\A p \in Pull : head'[p].work >= head[p].work]_vars

\* "Boundedness is a provider fact, not stored state": every push of the train moves
\* a branch onto a main it did not contain, so a branch is pushed at most once for
\* each merge, however many trains, replays and owners race.
PushesBounded ==
    \A p \in Pull : /\ head[p].version <= head[p].work + head[p].base
                    /\ head[p].base <= Tip

\* What a job has read may be stale when it is used, but stays good for that use.
\* A head listed once is within its bound, and never ahead of its branch ...
ListedHeads(p) ==
    /\ \A g, h \in job[p].listed : g.pull = h.pull => g = h
    /\ \A h \in job[p].listed :
        /\ h.version <= h.work + h.base /\ h.base <= Tip
        /\ h.version <= head[h.pull].version
        /\ h.version = head[h.pull].version => h.work = head[h.pull].work

\* ... its own merge stays where it was, the batch it finishes stays merged, and the
\* head it rebases stays behind what it is rebased onto.
JobReadings(p) ==
    LET j == job[p]
        target == Listed(p, j.target)
    IN  /\ j.at \in {"branch", "mark"} =>
                j.tip \in 1 .. Tip /\ Id(main[j.tip]) = <<p, j.version>>
        /\ j.at \in {"member", "memberPull", "memberIssue"} =>
                /\ j.tip <= Tip
                /\ \A q \in j.todo : \E h \in j.listed : h.pull = q /\ OnMain(Id(h), j.tip)
        /\ j.at \in {"nudge", "select", "fetch", "push"} => j.todo \subseteq Pulls(j.listed)
        /\ j.at \in {"fetch", "push"} => j.target \in Pulls(j.listed) /\ target.base < Tip
        /\ j.at = "push" => target.base < j.onto /\ j.onto <= Tip

\* The strengthening that makes MarkedIsMerged and PushesBounded inductive.
ReadingsHold == \A p \in Pull : ListedHeads(p) /\ JobReadings(p)

\* Nothing but waiting heads disturbs the queue: no owner pushes, no job fails, no
\* head fails for reasons of its own, no rebase conflicts, and one train at a time.
Training == {p \in Pull : job[p].at \notin {"idle", "admit", "merge"}}

Undisturbed ==
    /\ pushes = 0 /\ failures = 0 /\ failback = {}
    /\ \A p \in Pull : Id(head[p]) \in red => Misses(head[p])
    /\ Cardinality(Training) <= 1

Landed(p) == ~issue[p].open /\ issue[p].state = "landed"

\* "keeps the queue moving with zero agents": undisturbed, every handed-off pull
\* request lands, in dependency order, with nobody pushing anything.
QueueDrains ==
    []Undisturbed => []<>(\A p \in Pull : pr[p] # "absent" => Landed(p))
=============================================================================
