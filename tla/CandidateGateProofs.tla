------------------------ MODULE CandidateGateProofs ------------------------
(***************************************************************************)
(* For any number of pull requests, paths, components, changes and         *)
(* contracts: what lands is admitted by what it lands on, hosted           *)
(* candidates stay apart and in bounds, and none is verified over an event *)
(* that is older than its handoff.                                         *)
(***************************************************************************)
EXTENDS CandidateGate, FiniteSetTheorems, TLAPS

RunAt == {"none", "checkout", "issue", "active", "failed", "passed"}

LEMMA UnreadType ==
  ASSUME NEW at \in RunAt
  PROVE  Unread(at) \in Run /\ Unread(at).at = at
  <1>1. (CHOOSE t \in FirstTrees : TRUE) \in Tree
    BY TreeAssumption
  <1>2. (CHOOSE c \in Contracts : TRUE) \in Contracts
    BY ContractAssumption
  <1> QED
    BY <1>1, <1>2 DEF Unread, Run, RunAt

LEMMA ApplyType ==
  ASSUME NEW t \in Tree, NEW d \in Deltas
  PROVE  Apply(t, d) \in Tree
  <1>1. \A q \in Path : t.file[q] \in File /\ t.policy \in Policy
    BY DEF Tree
  <1>2. \A q \in Path : (IF q \in DOMAIN d.file THEN d.file[q] ELSE t.file[q]) \in File
    BY <1>1, DeltaAssumption
  <1>3. (IF PolicyPath \in DOMAIN d.file THEN d.policy ELSE t.policy) \in Policy
    BY DeltaAssumption DEF Tree
  <1> QED
    BY <1>2, <1>3 DEF Apply, Tree

Merged == {p \in Pull : pr[p] = "merged"}

\* The types, with what TypeOK leaves open: the functions have a value for every pull
\* request, and the merges that are counted are those that happened.
Typed ==
    /\ TypeOK
    /\ DOMAIN head = Pull /\ DOMAIN receipt = Pull
    /\ merges = Cardinality(Merged)

LEMMA InitTyped == Init => Typed
  <1> SUFFICES ASSUME Init PROVE Typed
    OBVIOUS
  <1>1. Merged = {}
    BY DEF Merged, Init
  <1>2. merges = Cardinality(Merged) /\ Cardinality(Pull) \in Nat
    BY <1>1, FS_EmptySet, FS_CardinalityType, PullAssumption DEF Init
  <1>3. run \in [Pull -> Run] /\ \A p \in Pull : run[p].at = "none"
    BY UnreadType DEF Init, RunAt
  <1>4. issue \in [Pull -> Issue]
    <2>1. \A c \in Contracts : [open |-> TRUE, state |-> "ready", contract |-> c, body |-> 1] \in Issue
      BY DEF Issue
    <2> QED
      BY <2>1 DEF Init
  <1>5. main \in Tree
    BY TreeAssumption DEF Init
  <1>6. /\ merges \in 0 .. Cardinality(Pull) /\ pushes \in 0 .. MaxPushes /\ edits \in 0 .. MaxEdits
    BY <1>2, BoundsAssumption DEF Init
  <1> QED
    BY <1>2, <1>3, <1>4, <1>5, <1>6 DEF Init, Typed, TypeOK

\* A merge raises the count by one, and never past the number of pull requests.
LEMMA MergeCounts ==
  ASSUME Typed, NEW p \in Pull, LandPullRequest(p)
  PROVE  merges' = Cardinality(Merged') /\ merges' \in 0 .. Cardinality(Pull)
  <1> USE DEF Typed, TypeOK, LandPullRequest, Mergeable
  <1>1. Merged' = Merged \cup {p} /\ p \notin Merged
    BY DEF Merged
  <1>2. IsFiniteSet(Merged) /\ Cardinality(Merged) \in Nat
    BY PullAssumption, FS_Subset, FS_CardinalityType DEF Merged
  <1>3. Cardinality(Merged') = Cardinality(Merged) + 1
    BY <1>1, <1>2, FS_AddElement
  <1>4. Cardinality(Merged') <= Cardinality(Pull) /\ Cardinality(Pull) \in Nat
    <2>1. Merged' \in SUBSET Pull
      BY DEF Merged
    <2> QED
      BY <2>1, PullAssumption, FS_Subset, FS_CardinalityType
  <1> QED
    BY <1>2, <1>3, <1>4
-----------------------------------------------------------------------------
\* What an event of a pull request does to its run, and what ends one.
LEMMA DeliveredType ==
  ASSUME TypeOK, NEW p \in Pull, NEW line \in Nat, Delivered(p, line)
  PROVE  /\ event' \in [Pull -> [origin : Nat, handedOff : BOOLEAN]]
         /\ run' \in [Pull -> Run] /\ run'[p].at = "checkout"
         /\ event'[p] = [origin |-> line, handedOff |-> issue[p].state = "awaiting_land"]
         /\ \A q \in Pull \ {p} : event'[q] = event[q] /\ run'[q] = run[q]
  <1>1. Unread("checkout") \in Run /\ Unread("checkout").at = "checkout"
    BY UnreadType DEF RunAt
  <1> QED
    BY <1>1 DEF Delivered, TypeOK

LEMMA FailsType ==
  ASSUME TypeOK, NEW p \in Pull, Fails(p)
  PROVE  /\ run' \in [Pull -> Run] /\ run'[p].at = "failed" /\ receipt' = receipt
         /\ \A q \in Pull \ {p} : run'[q] = run[q]
  <1>1. Unread("failed") \in Run /\ Unread("failed").at = "failed"
    BY UnreadType DEF RunAt
  <1> QED
    BY <1>1 DEF Fails, TypeOK

LEMMA PassesType ==
  ASSUME Typed, NEW p \in Pull, NEW c \in Contracts, NEW b \in Nat, Passes(p, c, b)
  PROVE  /\ run' \in [Pull -> Run] /\ run'[p].at = "passed"
         /\ receipt'[p] = [contract |-> c, body |-> b] /\ receipt'[p] \in Receipt
         /\ DOMAIN receipt' = Pull
         /\ \A q \in Pull \ {p} : run'[q] = run[q] /\ receipt'[q] = receipt[q]
  <1>1. Unread("passed") \in Run /\ Unread("passed").at = "passed"
    BY UnreadType DEF RunAt
  <1> QED
    BY <1>1 DEF Passes, Typed, TypeOK, Receipt

LEMMA OriginLineType ==
  ASSUME TypeOK, NEW p \in Pull
  PROVE  OriginLine(p) \in Nat /\ OriginLine(p) <= issue[p].body
  BY DEF OriginLine, TypeOK, Issue

\* The three ways the reading of the issue ends.
Activates(p) ==
    /\ issue[p].contract.lane = "gha-agentic"
    /\ run' = [run EXCEPT ![p].at = "active", ![p].contract = issue[p].contract, ![p].body = issue[p].body]
    /\ receipt' = receipt

Changed(p) == ChangedFiles(head[p].over, CandidateTree(head[p]))

Gated(p, c, root) == ComponentGates(c, Changed(p), root, CandidateTree(head[p]))

LEMMA ReadIssueCases ==
  ASSUME NEW p \in Pull, ReadIssue(p)
  PROVE  \/ Fails(p)
         \/ /\ issue[p].open /\ issue[p].state = "awaiting_land"
            /\ Gated(p, issue[p].contract, run[p].root)
            /\ \/ Activates(p)
               \/ issue[p].contract.lane = "local" /\ Passes(p, issue[p].contract, issue[p].body)
  BY DEF ReadIssue, Activates, Gated, Changed

LEMMA ActivatesType ==
  ASSUME TypeOK, NEW p \in Pull, Activates(p)
  PROVE  /\ run' \in [Pull -> Run] /\ run'[p].at = "active" /\ run'[p].root = run[p].root
         /\ run'[p].contract = issue[p].contract /\ run'[p].body = issue[p].body
         /\ \A q \in Pull \ {p} : run'[q] = run[q]
  BY ZenonT(30) DEF Activates, TypeOK, Run, Issue

\* What a hosted change that passed was found to be.
Confined(p, c, root) ==
    /\ Changed(p) \cap Workflow = {}
    /\ BoundaryEscapes(root.policy, Changed(p), c.boundary) = {}

LEMMA ReadActiveCases ==
  ASSUME NEW p \in Pull, ReadActive(p)
  PROVE  \/ Fails(p)
         \/ /\ Passes(p, run[p].contract, run[p].body)
            /\ ~AdmissionConflict(run[p].contract.boundary, ActiveTargetTasks(p))
            /\ Confined(p, run[p].contract, run[p].root)
            /\ event[p].origin = run[p].body
  BY DEF ReadActive, ExecutionTask, ApplyAdmission, TrustedPolicy, OriginBinds, Confined, Changed

LEMMA StepTyped ==
  ASSUME Typed, [Next]_vars
  PROVE  Typed'
  <1> USE DEF Typed, TypeOK, pullVars
  <1>1. ASSUME NEW p \in Pull, NEW d \in Deltas, OpenPullRequest(p, d) PROVE Typed'
    <2>1. Delivered(p, OriginLine(p)) /\ OriginLine(p) \in Nat
      BY <1>1, OriginLineType DEF OpenPullRequest
    <2>2. [delta |-> d, over |-> main, base |-> merges] \in CandidateHead
      BY DEF CandidateHead
    <2>3. Merged' = Merged
      BY <1>1 DEF OpenPullRequest, Merged
    <2> QED
      BY <1>1, <2>1, <2>2, <2>3, DeliveredType DEF OpenPullRequest
  <1>2. ASSUME NEW p \in Pull, NEW d \in Deltas, Push(p, d) PROVE Typed'
    <2>1. Delivered(p, origin[p]) /\ origin[p] \in Nat
      BY <1>2 DEF Push
    <2>2. [delta |-> d, over |-> main, base |-> merges] \in CandidateHead
      BY DEF CandidateHead
    <2>3. Merged' = Merged /\ pushes' \in 0 .. MaxPushes
      BY <1>2, BoundsAssumption DEF Push, Merged
    <2> QED
      BY <1>2, <2>1, <2>2, <2>3, DeliveredType DEF Push
  <1>3. ASSUME NEW p \in Pull, Rebase(p) PROVE Typed'
    <2>1. Delivered(p, origin[p]) /\ origin[p] \in Nat
      BY <1>3 DEF Rebase
    <2>2. /\ DOMAIN head' = Pull /\ head'[p] = [head[p] EXCEPT !.over = main, !.base = merges]
          /\ \A q \in Pull \ {p} : head'[q] = head[q]
      BY <1>3, Zenon DEF Rebase
    <2>4. head'[p] \in CandidateHead
      <3>1. head[p] \in CandidateHead /\ main \in Tree /\ merges \in Nat
        BY <1>3 DEF Rebase
      <3> QED
        BY <2>2, <3>1 DEF CandidateHead
    <2>3. Merged' = Merged
      BY <1>3 DEF Rebase, Merged
    <2> QED
      BY <1>3, <2>1, <2>2, <2>3, <2>4, DeliveredType DEF Rebase
  <1>4. ASSUME NEW p \in Pull, EditPullRequestBody(p) PROVE Typed'
    <2>1. Merged' = Merged /\ OriginLine(p) \in Nat
      BY <1>4, OriginLineType DEF EditPullRequestBody, Merged
    <2> QED
      BY <1>4, <2>1 DEF EditPullRequestBody
  <1>5. ASSUME NEW p \in Pull, NEW c \in Contracts, EditIssue(p, c) PROVE Typed'
    <2>1. Merged' = Merged /\ edits' \in 0 .. MaxEdits
      BY <1>5, BoundsAssumption DEF EditIssue, Merged
    <2>2. issue' \in [Pull -> Issue]
      BY <1>5 DEF EditIssue, Issue
    <2> QED
      BY <1>5, <2>1, <2>2 DEF EditIssue
  <1>6. ASSUME NEW p \in Pull, Handoff(p) PROVE Typed'
    <2>1. Merged' = Merged
      BY <1>6 DEF Handoff, Merged
    <2>2. issue' \in [Pull -> Issue]
      BY <1>6 DEF Handoff, Issue
    <2>3. run' \in [Pull -> Run] /\ \A q \in Pull : run'[q].at = "passed" => run[q].at = "passed"
      BY <1>6 DEF Handoff, Run
    <2> QED
      BY <1>6, <2>1, <2>2, <2>3 DEF Handoff
  <1>7. ASSUME NEW p \in Pull, Rerun(p) PROVE Typed'
    <2>1. Merged' = Merged
      BY <1>7 DEF Rerun, Merged
    <2>2. run' \in [Pull -> Run] /\ \A q \in Pull : run'[q].at = "passed" => run[q].at = "passed"
      BY <1>7 DEF Rerun, Run
    <2> QED
      BY <1>7, <2>1, <2>2 DEF Rerun
  <1>8. ASSUME NEW p \in Pull, CheckoutTrusted(p) PROVE Typed'
    <2>1. Merged' = Merged
      BY <1>8 DEF CheckoutTrusted, Merged
    <2>2. run' \in [Pull -> Run] /\ \A q \in Pull : run'[q].at = "passed" => run[q].at = "passed"
      BY <1>8, ZenonT(30) DEF CheckoutTrusted, Run
    <2> QED
      BY <1>8, <2>1, <2>2 DEF CheckoutTrusted
  <1>9. ASSUME NEW p \in Pull, ReadIssue(p) PROVE Typed'
    <2>1. Merged' = Merged
      BY <1>9 DEF ReadIssue, Merged
    <2>2. UNCHANGED <<main, merges, pullVars, issue, pushes, edits>>
      BY <1>9 DEF ReadIssue
    <2>3. issue[p].contract \in Contracts /\ issue[p].body \in Nat
      BY DEF Issue
    <2>4. CASE Fails(p)
      BY <2>1, <2>2, <2>4, FailsType
    <2>5. CASE Activates(p)
      BY <2>1, <2>2, <2>5, ActivatesType DEF Activates
    <2>6. CASE Passes(p, issue[p].contract, issue[p].body)
      BY <2>1, <2>2, <2>3, <2>6, PassesType
    <2> QED
      BY <1>9, <2>4, <2>5, <2>6, ReadIssueCases
  <1>10. ASSUME NEW p \in Pull, ReadActive(p) PROVE Typed'
    <2>1. Merged' = Merged
      BY <1>10 DEF ReadActive, Merged
    <2>2. UNCHANGED <<main, merges, pullVars, issue, pushes, edits>>
      BY <1>10 DEF ReadActive
    <2>3. run[p].contract \in Contracts /\ run[p].body \in Nat
      BY DEF Run
    <2>4. CASE Fails(p)
      BY <2>1, <2>2, <2>4, FailsType
    <2>5. CASE Passes(p, run[p].contract, run[p].body)
      BY <2>1, <2>2, <2>3, <2>5, PassesType
    <2> QED
      BY <1>10, <2>4, <2>5, ReadActiveCases
  <1>11. ASSUME NEW p \in Pull, LandPullRequest(p) PROVE Typed'
    <2>1. merges' = Cardinality(Merged') /\ merges' \in 0 .. Cardinality(Pull)
      BY <1>11, MergeCounts
    <2>2. main' \in Tree
      BY <1>11, ApplyType DEF LandPullRequest, Mergeable, CandidateHead
    <2>3. issue' \in [Pull -> Issue]
      BY <1>11 DEF LandPullRequest, Issue
    <2> QED
      BY <1>11, <2>1, <2>2, <2>3 DEF LandPullRequest, Mergeable
  <1>12. CASE UNCHANGED vars
    BY <1>12 DEF vars, Merged
  <1> QED
    BY <1>1, <1>2, <1>3, <1>4, <1>5, <1>6, <1>7, <1>8, <1>9, <1>10, <1>11, <1>12 DEF Next

\* The values of every variable, the count of merges among them (CandidateGate).
THEOREM TypeCorrect == Spec => []TypeOK
  <1>1. Typed => TypeOK
    BY DEF Typed
  <1> QED
    BY <1>1, InitTyped, StepTyped, PTL DEF Spec
-----------------------------------------------------------------------------
\* Where the head of an open pull request stands: on no later default branch than there
\* is, and, up to date, on the one there is.
HeadStands(p) ==
    pr[p] = "open" =>
        /\ head[p].base <= merges
        /\ UpToDate(head[p]) => head[p].over = main

\* While a head is up to date its run judges it, and has judged it, by the default branch.
RunJudges(p) ==
    pr[p] = "open" /\ UpToDate(head[p]) =>
        /\ run[p].at \in {"issue", "active"} => run[p].root = main
        /\ run[p].at = "active" => Gated(p, run[p].contract, main)
        /\ run[p].at = "passed" =>
            /\ Gated(p, receipt[p].contract, main)
            /\ receipt[p].contract.lane = "gha-agentic" => Confined(p, receipt[p].contract, main)

\* A body that is still the issue's has the contract that was read in it.
Reads(p, c, b) == b <= issue[p].body /\ (b = issue[p].body => c = issue[p].contract)

ReadingBinds(p) ==
    /\ run[p].at = "active" =>
        Reads(p, run[p].contract, run[p].body) /\ run[p].contract.lane = "gha-agentic"
    /\ run[p].at = "passed" => Reads(p, receipt[p].contract, receipt[p].body)

\* An origin line is no younger than the body; the one of an event before the handoff is
\* older than any body that was read since.
EventAged(p) ==
    /\ origin[p] <= issue[p].body /\ event[p].origin <= issue[p].body
    /\ ~event[p].handedOff =>
        /\ issue[p].state = "awaiting_land" => event[p].origin < issue[p].body
        /\ run[p].at = "active" => event[p].origin < run[p].body
        /\ run[p].at = "passed" => receipt[p].contract.lane # "gha-agentic"

\* The counters are numbers.
LEMMA Numbers ==
  ASSUME Typed, NEW p \in Pull
  PROVE  /\ merges \in Nat /\ origin[p] \in Nat /\ event[p].origin \in Nat /\ event[p].handedOff \in BOOLEAN
         /\ issue[p].body \in Nat /\ run[p].body \in Nat /\ issue[p] \in Issue /\ run[p] \in Run
         /\ pr[p] = "open" => head[p].base \in Nat
         /\ run[p].at = "passed" => receipt[p].body \in Nat
  BY DEF Typed, TypeOK, Issue, Run, Receipt, CandidateHead


\* What one pull request, its author, its runs and its landing may do.
Step(p) ==
    \/ \E d \in Deltas : OpenPullRequest(p, d) \/ Push(p, d)
    \/ Rebase(p) \/ EditPullRequestBody(p)
    \/ \E c \in Contracts : EditIssue(p, c)
    \/ Handoff(p) \/ Rerun(p)
    \/ CheckoutTrusted(p) \/ ReadIssue(p) \/ ReadActive(p) \/ LandPullRequest(p)

LEMMA NextIsStep == Next => \E p \in Pull : Step(p)
  BY DEF Next, Step

Same(q) ==
    /\ pr'[q] = pr[q] /\ head'[q] = head[q] /\ origin'[q] = origin[q] /\ event'[q] = event[q]
    /\ issue'[q] = issue[q] /\ run'[q] = run[q] /\ receipt'[q] = receipt[q]

\* A step of one pull request leaves what belongs to another alone.
LEMMA Elsewhere ==
  ASSUME Typed, NEW p \in Pull, Step(p), NEW q \in Pull \ {p}
  PROVE  Same(q)
  <1> USE DEF Typed, TypeOK, Same, pullVars
  <1>1. ASSUME NEW d \in Deltas, OpenPullRequest(p, d) PROVE Same(q)
    BY <1>1 DEF OpenPullRequest, Delivered
  <1>2. ASSUME NEW d \in Deltas, Push(p, d) PROVE Same(q)
    BY <1>2 DEF Push, Delivered
  <1>3. CASE Rebase(p)
    BY <1>3 DEF Rebase, Delivered
  <1>4. CASE EditPullRequestBody(p)
    BY <1>4 DEF EditPullRequestBody
  <1>5. ASSUME NEW c \in Contracts, EditIssue(p, c) PROVE Same(q)
    BY <1>5 DEF EditIssue
  <1>6. CASE Handoff(p)
    BY <1>6 DEF Handoff
  <1>7. CASE Rerun(p)
    BY <1>7 DEF Rerun
  <1>8. CASE CheckoutTrusted(p)
    BY <1>8 DEF CheckoutTrusted
  <1>9. CASE ReadIssue(p)
    <2>1. UNCHANGED <<pullVars, issue>>
      BY <1>9 DEF ReadIssue
    <2> QED
      BY <1>9, <2>1, ReadIssueCases, ZenonT(30) DEF Fails, Passes, Activates
  <1>10. CASE ReadActive(p)
    <2>1. UNCHANGED <<pullVars, issue>>
      BY <1>10 DEF ReadActive
    <2> QED
      BY <1>10, <2>1, ReadActiveCases DEF Fails, Passes
  <1>11. CASE LandPullRequest(p)
    BY <1>11 DEF LandPullRequest
  <1> QED
    BY <1>1, <1>2, <1>3, <1>4, <1>5, <1>6, <1>7, <1>8, <1>9, <1>10, <1>11 DEF Step

\* Only a landing moves the default branch.
LEMMA OnlyLandingsMerge ==
  ASSUME NEW p \in Pull, Step(p), ~LandPullRequest(p)
  PROVE  UNCHANGED <<main, merges>>
  BY DEF Step, OpenPullRequest, Push, Rebase, EditPullRequestBody, EditIssue, Handoff, Rerun,
         CheckoutTrusted, ReadIssue, ReadActive

\* The head of a new event stands on the default branch.
LEMMA FreshHead ==
  ASSUME Typed, NEW p \in Pull,
         (\E d \in Deltas : OpenPullRequest(p, d) \/ Push(p, d)) \/ Rebase(p)
  PROVE  head'[p].over = main /\ head'[p].base = merges
  <1> USE DEF Typed, TypeOK
  <1>1. ASSUME NEW d \in Deltas, OpenPullRequest(p, d) \/ Push(p, d)
        PROVE  head'[p].over = main /\ head'[p].base = merges
    BY <1>1 DEF OpenPullRequest, Push
  <1>2. CASE Rebase(p)
    <2>1. head'[p] = [head[p] EXCEPT !.over = main, !.base = merges]
      BY <1>2, Zenon DEF Rebase
    <2>2. head[p] \in CandidateHead
      BY <1>2 DEF Rebase
    <2> QED
      BY <2>1, <2>2 DEF CandidateHead
  <1> QED
    BY <1>1, <1>2

\* Every other step leaves the heads alone, and opens nothing.
LEMMA HeadsKept ==
  ASSUME Typed, NEW p \in Pull, Step(p),
         ~((\E d \in Deltas : OpenPullRequest(p, d) \/ Push(p, d)) \/ Rebase(p))
  PROVE  head' = head /\ (pr'[p] = "open" => pr[p] = "open")
  BY DEF Step, EditPullRequestBody, EditIssue, Handoff, Rerun, CheckoutTrusted, ReadIssue,
         ReadActive, LandPullRequest, pullVars, Typed, TypeOK

LEMMA StepHeads ==
  ASSUME Typed, \A p \in Pull : HeadStands(p), [Next]_vars
  PROVE  \A p \in Pull : HeadStands(p)'
  <1>1. CASE UNCHANGED vars
    BY <1>1 DEF vars, pullVars, HeadStands, UpToDate
  <1>2. ASSUME NEW p \in Pull, Step(p), NEW q \in Pull PROVE HeadStands(q)'
    <2> USE DEF HeadStands, UpToDate
    <2>1. HeadStands(q) /\ merges \in Nat /\ (pr[q] = "open" => head[q].base \in Nat)
      BY Numbers
    <2>2. CASE LandPullRequest(p)
      <3>1. merges' = merges + 1 /\ head' = head /\ pr'[p] = "merged"
        BY <2>2 DEF LandPullRequest, Typed, TypeOK
      <3>2. CASE q = p
        BY <3>1, <3>2
      <3>3. CASE q # p
        <4>1. pr'[q] = pr[q]
          BY <1>2, <3>3, Elsewhere DEF Same
        <4> QED
          BY <2>1, <3>1, <4>1
      <3> QED
        BY <3>2, <3>3
    <2>3. CASE ~LandPullRequest(p) /\ q # p
      <3>1. Same(q) /\ UNCHANGED <<main, merges>>
        BY <1>2, <2>3, Elsewhere, OnlyLandingsMerge
      <3> QED
        BY <2>1, <3>1 DEF Same
    <2>4. CASE ~LandPullRequest(p) /\ q = p
      <3>1. UNCHANGED <<main, merges>>
        BY <1>2, <2>4, OnlyLandingsMerge
      <3>2. CASE (\E d \in Deltas : OpenPullRequest(p, d) \/ Push(p, d)) \/ Rebase(p)
        BY <2>1, <2>4, <3>1, <3>2, FreshHead
      <3>3. CASE ~((\E d \in Deltas : OpenPullRequest(p, d) \/ Push(p, d)) \/ Rebase(p))
        BY <1>2, <2>1, <2>4, <3>1, <3>3, HeadsKept
      <3> QED
        BY <3>2, <3>3
    <2> QED
      BY <2>2, <2>3, <2>4
  <1> QED
    BY <1>1, <1>2, NextIsStep
-----------------------------------------------------------------------------
\* What a run found stays found while nothing it looked at changes.
LEMMA JudgesKept ==
  ASSUME NEW q \in Pull, RunJudges(q), UNCHANGED <<main, merges>>,
         head'[q] = head[q], pr'[q] = "open" => pr[q] = "open",
         run'[q] = run[q], receipt'[q] = receipt[q]
  PROVE  RunJudges(q)'
  BY DEF RunJudges, Gated, Confined, Changed, UpToDate

\* A run that has read nothing has found nothing.
LEMMA IdleJudges ==
  ASSUME NEW q \in Pull, run'[q].at \notin {"issue", "active", "passed"}
  PROVE  RunJudges(q)'
  BY DEF RunJudges

\* Every event of a pull request restarts its run.
LEMMA EventRestarts ==
  ASSUME Typed, NEW p \in Pull,
         (\E d \in Deltas : OpenPullRequest(p, d) \/ Push(p, d)) \/ Rebase(p)
  PROVE  run'[p].at = "checkout"
  <1>1. ASSUME NEW line \in Nat, Delivered(p, line) PROVE run'[p].at = "checkout"
    BY <1>1, DeliveredType DEF Typed
  <1>2. OriginLine(p) \in Nat /\ origin[p] \in Nat
    BY OriginLineType DEF Typed, TypeOK
  <1> QED
    BY <1>1, <1>2 DEF OpenPullRequest, Push, Rebase

\* A run that starts again, on a handoff or by itself, starts at its checkout.
LEMMA RerunRestarts ==
  ASSUME Typed, NEW p \in Pull, Handoff(p) \/ Rerun(p)
  PROVE  run'[p] = run[p] \/ run'[p].at = "checkout"
  BY DEF Handoff, Rerun, Typed, TypeOK, Run

LEMMA OwnJudges ==
  ASSUME Typed, NEW p \in Pull, RunJudges(p), Step(p), ReadingBinds(p)
  PROVE  RunJudges(p)'
  <1>1. CASE (\E d \in Deltas : OpenPullRequest(p, d) \/ Push(p, d)) \/ Rebase(p)
    BY <1>1, EventRestarts, IdleJudges
  <1>2. CASE EditPullRequestBody(p) \/ \E c \in Contracts : EditIssue(p, c)
    BY <1>2, JudgesKept DEF EditPullRequestBody, EditIssue, pullVars
  <1>3. CASE Handoff(p) \/ Rerun(p)
    <2>1. UNCHANGED <<main, merges, head, pr, receipt>>
      BY <1>3 DEF Handoff, Rerun, pullVars
    <2> QED
      BY <1>3, <2>1, RerunRestarts, JudgesKept, IdleJudges
  <1>4. CASE CheckoutTrusted(p)
    <2>1. run'[p].at = "issue" /\ run'[p].root = main
      BY <1>4 DEF CheckoutTrusted, Typed, TypeOK, Run
    <2> QED
      BY <1>4, <2>1 DEF CheckoutTrusted, RunJudges
  <1>5. CASE ReadIssue(p)
    <2>1. UNCHANGED <<main, merges, head, pr>> /\ run[p].at = "issue"
      BY <1>5 DEF ReadIssue, pullVars
    <2>2. CASE Fails(p)
      BY <2>2, FailsType, IdleJudges DEF Typed
    <2>3. CASE Gated(p, issue[p].contract, run[p].root) /\ Activates(p)
      <3>1. /\ run'[p].at = "active" /\ run'[p].root = run[p].root
            /\ run'[p].contract = issue[p].contract
        BY <2>3, ActivatesType DEF Typed
      <3> QED
        BY <2>1, <2>3, <3>1 DEF RunJudges, UpToDate, Gated, Changed
    <2>4. CASE /\ Gated(p, issue[p].contract, run[p].root)
               /\ issue[p].contract.lane = "local" /\ Passes(p, issue[p].contract, issue[p].body)
      <3>1. issue[p].contract \in Contracts /\ issue[p].body \in Nat
        BY DEF Typed, TypeOK, Issue
      <3>2. run'[p].at = "passed" /\ receipt'[p] = [contract |-> issue[p].contract, body |-> issue[p].body]
        BY <2>4, <3>1, PassesType
      <3> QED
        BY <2>1, <2>4, <3>2 DEF RunJudges, UpToDate, Gated, Changed
    <2> QED
      BY <1>5, <2>2, <2>3, <2>4, ReadIssueCases
  <1>6. CASE ReadActive(p)
    <2>1. UNCHANGED <<main, merges, head, pr>> /\ run[p].at = "active"
      BY <1>6 DEF ReadActive, pullVars
    <2>2. CASE Fails(p)
      BY <2>2, FailsType, IdleJudges DEF Typed
    <2>3. CASE Passes(p, run[p].contract, run[p].body) /\ Confined(p, run[p].contract, run[p].root)
      <3>1. run[p].contract \in Contracts /\ run[p].body \in Nat
        BY DEF Typed, TypeOK, Run
      <3>2. run'[p].at = "passed" /\ receipt'[p] = [contract |-> run[p].contract, body |-> run[p].body]
        BY <2>3, <3>1, PassesType
      <3> QED
        BY <2>1, <2>3, <3>2 DEF RunJudges, UpToDate, Gated, Confined, Changed
    <2> QED
      BY <1>6, <2>2, <2>3, ReadActiveCases
  <1>7. CASE LandPullRequest(p)
    <2>1. pr'[p] = "merged"
      BY <1>7 DEF LandPullRequest, Typed, TypeOK
    <2> QED
      BY <2>1 DEF RunJudges
  <1> QED
    BY <1>1, <1>2, <1>3, <1>4, <1>5, <1>6, <1>7 DEF Step

\* A landing leaves every other open head behind, so that nothing is claimed of its run.
LEMMA StepJudges ==
  ASSUME Typed, \A p \in Pull : HeadStands(p) /\ RunJudges(p) /\ ReadingBinds(p), [Next]_vars
  PROVE  \A p \in Pull : RunJudges(p)'
  <1>1. CASE UNCHANGED vars
    BY <1>1, JudgesKept DEF vars, pullVars
  <1>2. ASSUME NEW p \in Pull, Step(p), NEW q \in Pull PROVE RunJudges(q)'
    <2>1. CASE q = p
      BY <1>2, <2>1, OwnJudges
    <2>2. CASE q # p /\ ~LandPullRequest(p)
      <3>1. Same(q) /\ UNCHANGED <<main, merges>>
        BY <1>2, <2>2, Elsewhere, OnlyLandingsMerge
      <3> QED
        BY <3>1, JudgesKept DEF Same
    <2>3. CASE q # p /\ LandPullRequest(p)
      <3>1. Same(q) /\ merges' = merges + 1
        BY <1>2, <2>3, Elsewhere DEF LandPullRequest
      <3>2. merges \in Nat /\ (pr[q] = "open" => head[q].base \in Nat /\ head[q].base <= merges)
        BY Numbers DEF HeadStands
      <3> QED
        BY <3>1, <3>2 DEF RunJudges, UpToDate, Same
    <2> QED
      BY <2>1, <2>2, <2>3
  <1> QED
    BY <1>1, <1>2, NextIsStep

LEMMA OwnReads ==
  ASSUME Typed, NEW p \in Pull, ReadingBinds(p), Step(p)
  PROVE  ReadingBinds(p)'
  <1> USE DEF ReadingBinds, Reads
  <1>0. issue[p].body \in Nat /\ run[p].body \in Nat /\ (run[p].at = "passed" => receipt[p].body \in Nat)
    BY Numbers
  <1>1. CASE (\E d \in Deltas : OpenPullRequest(p, d) \/ Push(p, d)) \/ Rebase(p)
    BY <1>1, EventRestarts
  <1>2. CASE EditPullRequestBody(p)
    BY <1>2 DEF EditPullRequestBody
  <1>3. ASSUME NEW c \in Contracts, EditIssue(p, c) PROVE ReadingBinds(p)'
    <2>1. issue'[p].body = issue[p].body + 1 /\ UNCHANGED <<run, receipt>>
      BY <1>3 DEF EditIssue, Typed, TypeOK, Issue
    <2> QED
      BY <1>0, <2>1
  <1>4. CASE Handoff(p)
    <2>1. issue'[p].body = issue[p].body + 1 /\ receipt' = receipt
      BY <1>4 DEF Handoff, Typed, TypeOK, Issue
    <2> QED
      BY <1>0, <1>4, <2>1, RerunRestarts
  <1>5. CASE Rerun(p)
    <2>1. UNCHANGED <<issue, receipt>>
      BY <1>5 DEF Rerun
    <2> QED
      BY <1>5, <2>1, RerunRestarts
  <1>6. CASE CheckoutTrusted(p)
    BY <1>6 DEF CheckoutTrusted, Typed, TypeOK, Run
  <1>7. CASE ReadIssue(p)
    <2>1. issue' = issue
      BY <1>7 DEF ReadIssue
    <2>2. CASE Fails(p)
      BY <2>2, FailsType DEF Typed
    <2>3. CASE Activates(p)
      <3>1. /\ run'[p].at = "active" /\ run'[p].contract = issue[p].contract
            /\ run'[p].body = issue[p].body
        BY <2>3, ActivatesType DEF Typed
      <3>2. issue[p].contract.lane = "gha-agentic"
        BY <2>3 DEF Activates
      <3> QED
        BY <1>0, <2>1, <3>1, <3>2
    <2>4. CASE Passes(p, issue[p].contract, issue[p].body)
      <3>1. issue[p].contract \in Contracts
        BY DEF Typed, TypeOK, Issue
      <3>2. run'[p].at = "passed" /\ receipt'[p] = [contract |-> issue[p].contract, body |-> issue[p].body]
        BY <1>0, <2>4, <3>1, PassesType
      <3> QED
        BY <1>0, <2>1, <3>2
    <2> QED
      BY <1>7, <2>2, <2>3, <2>4, ReadIssueCases
  <1>8. CASE ReadActive(p)
    <2>1. issue' = issue /\ run[p].at = "active"
      BY <1>8 DEF ReadActive
    <2>2. CASE Fails(p)
      BY <2>2, FailsType DEF Typed
    <2>3. CASE Passes(p, run[p].contract, run[p].body)
      <3>1. run[p].contract \in Contracts
        BY DEF Typed, TypeOK, Run
      <3>2. run'[p].at = "passed" /\ receipt'[p] = [contract |-> run[p].contract, body |-> run[p].body]
        BY <1>0, <2>3, <3>1, PassesType
      <3> QED
        BY <1>0, <2>1, <3>2
    <2> QED
      BY <1>8, <2>2, <2>3, ReadActiveCases
  <1>9. CASE LandPullRequest(p)
    <2>1. issue'[p].body = issue[p].body + 1 /\ UNCHANGED <<run, receipt>>
      BY <1>9 DEF LandPullRequest, Typed, TypeOK, Issue
    <2> QED
      BY <1>0, <2>1
  <1> QED
    BY <1>1, <1>2, <1>3, <1>4, <1>5, <1>6, <1>7, <1>8, <1>9 DEF Step

LEMMA StepReads ==
  ASSUME Typed, \A p \in Pull : ReadingBinds(p), [Next]_vars
  PROVE  \A p \in Pull : ReadingBinds(p)'
  <1>1. CASE UNCHANGED vars
    BY <1>1 DEF vars, pullVars, ReadingBinds, Reads
  <1>2. ASSUME NEW p \in Pull, Step(p), NEW q \in Pull PROVE ReadingBinds(q)'
    <2>1. CASE q = p
      BY <1>2, <2>1, OwnReads
    <2>2. CASE q # p
      BY <1>2, <2>2, Elsewhere DEF Same, ReadingBinds, Reads
    <2> QED
      BY <2>1, <2>2
  <1> QED
    BY <1>1, <1>2, NextIsStep
-----------------------------------------------------------------------------
\* An event carries an origin line no younger than the body, and whether the subject
\* was handed off by then.
LEMMA EventCarries ==
  ASSUME Typed, NEW p \in Pull, EventAged(p),
         (\E d \in Deltas : OpenPullRequest(p, d) \/ Push(p, d)) \/ Rebase(p)
  PROVE  /\ issue' = issue /\ origin'[p] <= issue[p].body /\ event'[p].origin <= issue[p].body
         /\ event'[p].handedOff = (issue[p].state = "awaiting_land")
  <1> USE DEF Typed, TypeOK
  <1>0. OriginLine(p) \in Nat /\ OriginLine(p) <= issue[p].body /\ origin[p] \in Nat /\ origin[p] <= issue[p].body
    BY OriginLineType DEF EventAged
  <1>1. ASSUME NEW line \in Nat, Delivered(p, line), line <= issue[p].body
        PROVE  /\ event'[p].origin <= issue[p].body
               /\ event'[p].handedOff = (issue[p].state = "awaiting_land")
    <2>1. event'[p] = [origin |-> line, handedOff |-> issue[p].state = "awaiting_land"]
      BY <1>1, DeliveredType
    <2> QED
      BY <1>1, <2>1
  <1>2. ASSUME NEW d \in Deltas, OpenPullRequest(p, d)
        PROVE  issue' = issue /\ origin'[p] = OriginLine(p) /\ Delivered(p, OriginLine(p))
    BY <1>2 DEF OpenPullRequest
  <1>3. ASSUME (\E d \in Deltas : Push(p, d)) \/ Rebase(p)
        PROVE  issue' = issue /\ origin'[p] = origin[p] /\ Delivered(p, origin[p])
    BY <1>3 DEF Push, Rebase
  <1> QED
    BY <1>0, <1>1, <1>2, <1>3

LEMMA OwnEvents ==
  ASSUME Typed, NEW p \in Pull, EventAged(p), Step(p)
  PROVE  EventAged(p)'
  <1> USE DEF EventAged
  <1>0. /\ issue[p].body \in Nat /\ run[p].body \in Nat
        /\ origin[p] \in Nat /\ event[p].origin \in Nat /\ event[p].handedOff \in BOOLEAN
    BY Numbers
  <1>1. CASE (\E d \in Deltas : OpenPullRequest(p, d) \/ Push(p, d)) \/ Rebase(p)
    BY <1>1, EventRestarts, EventCarries
  <1>2. CASE EditPullRequestBody(p)
    <2>1. /\ origin'[p] = OriginLine(p) /\ OriginLine(p) <= issue[p].body
          /\ UNCHANGED <<event, issue, run, receipt>>
      BY <1>2, OriginLineType DEF EditPullRequestBody, Typed, TypeOK
    <2> QED
      BY <2>1
  <1>3. ASSUME NEW c \in Contracts, EditIssue(p, c) PROVE EventAged(p)'
    <2>1. /\ issue'[p].body = issue[p].body + 1 /\ issue'[p].state = issue[p].state
          /\ UNCHANGED <<origin, event, run, receipt>>
      BY <1>3 DEF EditIssue, pullVars, Typed, TypeOK, Issue
    <2> QED
      BY <1>0, <2>1
  <1>4. CASE Handoff(p)
    <2>1. issue'[p].body = issue[p].body + 1 /\ UNCHANGED <<origin, event, receipt>>
      BY <1>4 DEF Handoff, pullVars, Typed, TypeOK, Issue
    <2> QED
      BY <1>0, <1>4, <2>1, RerunRestarts
  <1>5. CASE Rerun(p)
    <2>1. UNCHANGED <<origin, event, issue, receipt>>
      BY <1>5 DEF Rerun, pullVars
    <2> QED
      BY <1>5, <2>1, RerunRestarts
  <1>6. CASE CheckoutTrusted(p)
    <2>1. run'[p].at = "issue" /\ UNCHANGED <<origin, event, issue, receipt>>
      BY <1>6 DEF CheckoutTrusted, pullVars, Typed, TypeOK, Run
    <2> QED
      BY <2>1
  <1>7. CASE ReadIssue(p)
    <2>1. UNCHANGED <<origin, event, issue>>
      BY <1>7 DEF ReadIssue, pullVars
    <2>2. CASE Fails(p)
      BY <2>1, <2>2, FailsType DEF Typed
    <2>3. CASE issue[p].state = "awaiting_land" /\ Activates(p)
      <3>1. run'[p].at = "active" /\ run'[p].body = issue[p].body
        BY <2>3, ActivatesType DEF Typed
      <3> QED
        BY <2>1, <2>3, <3>1
    <2>4. CASE issue[p].contract.lane = "local" /\ Passes(p, issue[p].contract, issue[p].body)
      <3>1. issue[p].contract \in Contracts
        BY DEF Typed, TypeOK, Issue
      <3>2. run'[p].at = "passed" /\ receipt'[p] = [contract |-> issue[p].contract, body |-> issue[p].body]
        BY <1>0, <2>4, <3>1, PassesType
      <3> QED
        BY <2>1, <2>4, <3>2
    <2> QED
      BY <1>7, <2>2, <2>3, <2>4, ReadIssueCases
  <1>8. CASE ReadActive(p)
    <2>1. UNCHANGED <<origin, event, issue>> /\ run[p].at = "active"
      BY <1>8 DEF ReadActive, pullVars
    <2>2. CASE Fails(p)
      BY <2>1, <2>2, FailsType DEF Typed
    <2>3. CASE Passes(p, run[p].contract, run[p].body) /\ event[p].origin = run[p].body
      <3>1. run[p].contract \in Contracts
        BY DEF Typed, TypeOK, Run
      <3>2. run'[p].at = "passed"
        BY <1>0, <2>3, <3>1, PassesType
      <3>3. event[p].handedOff
        BY <1>0, <2>1, <2>3
      <3> QED
        BY <2>1, <3>2, <3>3
    <2> QED
      BY <1>8, <2>2, <2>3, ReadActiveCases
  <1>9. CASE LandPullRequest(p)
    <2>1. /\ issue'[p].body = issue[p].body + 1 /\ issue'[p].state = "landed"
          /\ UNCHANGED <<origin, event, run, receipt>>
      BY <1>9 DEF LandPullRequest, Typed, TypeOK, Issue
    <2> QED
      BY <1>0, <2>1
  <1> QED
    BY <1>1, <1>2, <1>3, <1>4, <1>5, <1>6, <1>7, <1>8, <1>9 DEF Step

LEMMA StepEvents ==
  ASSUME Typed, \A p \in Pull : EventAged(p), [Next]_vars
  PROVE  \A p \in Pull : EventAged(p)'
  <1>1. CASE UNCHANGED vars
    BY <1>1 DEF vars, pullVars, EventAged
  <1>2. ASSUME NEW p \in Pull, Step(p), NEW q \in Pull PROVE EventAged(q)'
    <2>1. CASE q = p
      BY <1>2, <2>1, OwnEvents
    <2>2. CASE q # p
      BY <1>2, <2>2, Elsewhere DEF Same, EventAged
    <2> QED
      BY <2>1, <2>2
  <1> QED
    BY <1>1, <1>2, NextIsStep
-----------------------------------------------------------------------------
LEMMA ConflictSymmetric ==
  ASSUME NEW b, NEW c, BoundaryConflict(b, c)
  PROVE  BoundaryConflict(c, b)
  BY DEF BoundaryConflict

\* Admitted against the open tasks, a boundary is apart from each of them.
LEMMA AdmittedApart ==
  ASSUME NEW p \in Pull, NEW q \in Pull \ {p}, Hosted(q), NEW b, ~AdmissionConflict(b, ActiveTargetTasks(p))
  PROVE  ~BoundaryConflict(b, issue[q].contract.boundary)
  <1> DEFINE r == Reservation(q, issue[q].contract.boundary)
  <1>1. r \in ActiveTargetTasks(p)
    BY DEF ActiveTargetTasks
  <1>2. r.boundary = issue[q].contract.boundary
    BY DEF Reservation
  <1> HIDE DEF r
  <1> QED
    BY <1>1, <1>2 DEF AdmissionConflict, Blocks

\* The hosted candidates a step of p leaves current were so, but for one whose run just
\* ended its listing of the open tasks.
LEMMA BecomesCurrent ==
  ASSUME Typed, NEW p \in Pull, Step(p), ReadingBinds(p), Current(p)'
  PROVE  \/ Current(p) /\ receipt'[p] = receipt[p]
         \/ /\ ReadActive(p) /\ Passes(p, run[p].contract, run[p].body)
            /\ ~AdmissionConflict(run[p].contract.boundary, ActiveTargetTasks(p))
  <1> USE DEF Current, Hosted
  <1>0. issue[p].body \in Nat /\ (run[p].at = "passed" => receipt[p].body <= issue[p].body /\ receipt[p].body \in Nat)
    BY Numbers DEF ReadingBinds, Reads
  <1>a. run'[p].at = "passed" /\ issue'[p].body = receipt'[p].body
    OBVIOUS
  <1>b. run[p].at = "passed" => receipt[p].body # issue[p].body + 1
    BY <1>0
  <1>1. CASE (\E d \in Deltas : OpenPullRequest(p, d) \/ Push(p, d)) \/ Rebase(p)
    BY <1>1, EventRestarts
  <1>2. CASE EditPullRequestBody(p)
    BY <1>2 DEF EditPullRequestBody
  <1>3. ASSUME NEW c \in Contracts, EditIssue(p, c) PROVE FALSE
    <2>1. issue'[p].body = issue[p].body + 1 /\ UNCHANGED <<run, receipt>>
      BY <1>3 DEF EditIssue, Typed, TypeOK, Issue
    <2> QED
      BY <1>a, <1>b, <2>1
  <1>4. CASE Handoff(p)
    <2>1. issue'[p].body = issue[p].body + 1 /\ receipt' = receipt
      BY <1>4 DEF Handoff, Typed, TypeOK, Issue
    <2> QED
      BY <1>4, <1>a, <1>b, <2>1, RerunRestarts
  <1>5. CASE Rerun(p)
    <2>1. UNCHANGED <<issue, receipt>>
      BY <1>5 DEF Rerun
    <2> QED
      BY <1>5, <2>1, RerunRestarts
  <1>6. CASE CheckoutTrusted(p)
    BY <1>6 DEF CheckoutTrusted, Typed, TypeOK, Run
  <1>7. CASE ReadIssue(p)
    <2>1. issue' = issue
      BY <1>7 DEF ReadIssue
    <2>2. CASE Fails(p)
      BY <2>2, FailsType DEF Typed
    <2>3. CASE Activates(p)
      BY <2>3, ActivatesType DEF Typed
    <2>4. CASE issue[p].contract.lane = "local"
      BY <2>1, <2>4
    <2> QED
      BY <1>7, <2>2, <2>3, <2>4, ReadIssueCases
  <1>8. CASE ReadActive(p)
    <2>1. CASE Fails(p)
      BY <2>1, FailsType DEF Typed
    <2> QED
      BY <1>8, <2>1, ReadActiveCases
  <1>9. CASE LandPullRequest(p)
    BY <1>9 DEF LandPullRequest, Typed, TypeOK, Issue
  <1> QED
    BY <1>1, <1>2, <1>3, <1>4, <1>5, <1>6, <1>7, <1>8, <1>9 DEF Step

Apart(p, q) == ~BoundaryConflict(receipt[p].contract.boundary, receipt[q].contract.boundary)

LEMMA StepDisjoint ==
  ASSUME Typed, \A p \in Pull : ReadingBinds(p), HostedDisjoint, [Next]_vars
  PROVE  HostedDisjoint'
  <1>1. CASE UNCHANGED vars
    BY <1>1 DEF vars, pullVars, HostedDisjoint, Current, Hosted
  <1>2. ASSUME NEW p \in Pull, Step(p) PROVE HostedDisjoint'
    <2>1. ASSUME NEW q \in Pull \ {p}, Current(q)'
          PROVE  Current(q) /\ receipt'[q] = receipt[q] /\ receipt[q].contract = issue[q].contract
      BY <1>2, <2>1, Elsewhere DEF Same, Current, Hosted, ReadingBinds, Reads
    <2>2. ASSUME NEW q \in Pull \ {p}, Current(q)', Current(p)' PROVE Apart(p, q)' /\ Apart(q, p)'
      <3>1. Current(q) /\ receipt'[q] = receipt[q] /\ receipt[q].contract = issue[q].contract
        BY <2>1, <2>2
      <3>2. CASE Current(p) /\ receipt'[p] = receipt[p]
        BY <3>1, <3>2 DEF HostedDisjoint, Apart
      <3>3. CASE /\ Passes(p, run[p].contract, run[p].body)
                 /\ ~AdmissionConflict(run[p].contract.boundary, ActiveTargetTasks(p))
        <4>1. ~BoundaryConflict(run[p].contract.boundary, receipt[q].contract.boundary)
          BY <3>1, <3>3, AdmittedApart DEF Current
        <4>2. run[p].contract \in Contracts /\ run[p].body \in Nat
          BY DEF Typed, TypeOK, Run
        <4>3. receipt'[p] = [contract |-> run[p].contract, body |-> run[p].body]
          BY <3>3, <4>2, PassesType
        <4> QED
          BY <3>1, <4>1, <4>3, ConflictSymmetric DEF Apart
      <3> QED
        BY <1>2, <2>2, <3>2, <3>3, BecomesCurrent
    <2>3. ASSUME NEW q \in Pull \ {p}, NEW o \in Pull \ {p, q}, Current(q)', Current(o)' PROVE Apart(q, o)'
      BY <2>1, <2>3 DEF HostedDisjoint, Apart
    <2> QED
      BY <2>2, <2>3 DEF HostedDisjoint, Apart
  <1> QED
    BY <1>1, <1>2, NextIsStep
-----------------------------------------------------------------------------
IInv ==
    /\ Typed
    /\ \A p \in Pull : HeadStands(p) /\ RunJudges(p) /\ ReadingBinds(p) /\ EventAged(p)
    /\ HostedDisjoint

LEMMA InitInv == Init => IInv
  <1> SUFFICES ASSUME Init PROVE IInv
    OBVIOUS
  <1>1. Typed
    BY InitTyped
  <1>2. \A p \in Pull : /\ pr[p] = "absent" /\ run[p].at = "none" /\ origin[p] = 0
                        /\ event[p].origin = 0 /\ issue[p].body = 1 /\ issue[p].state = "ready"
    BY UnreadType DEF Init, RunAt
  <1>3. \A p \in Pull : HeadStands(p) /\ RunJudges(p) /\ ReadingBinds(p) /\ EventAged(p)
    BY <1>2 DEF HeadStands, RunJudges, ReadingBinds, EventAged
  <1>4. HostedDisjoint
    BY <1>2 DEF HostedDisjoint, Current
  <1> QED
    BY <1>1, <1>3, <1>4 DEF IInv

LEMMA StepInv == IInv /\ [Next]_vars => IInv'
  BY StepTyped, StepHeads, StepJudges, StepReads, StepEvents, StepDisjoint DEF IInv

LEMMA Invariant == Spec => []IInv
  BY InitInv, StepInv, PTL DEF Spec

\* Hosted candidates that passed and nobody edited since have disjoint boundaries, although
\* a run reads its own issue and lists the others' tasks in two steps (gha_active_target_tasks).
THEOREM HostedStayApart == Spec => []HostedDisjoint
  BY Invariant, PTL DEF IInv

\* No hosted run passes over an event from before the handoff: the flip of the state changed
\* the digest the origin line of that event carries (gha_origin_missing, execute_handoff).
THEOREM VerifiedAfterHandoff == Spec => []HostedAfterHandoff
  <1>1. IInv => HostedAfterHandoff
    BY Numbers DEF IInv, EventAged, HostedAfterHandoff
  <1> QED
    BY <1>1, Invariant, PTL

\* Only the landing of p merges it.
LEMMA LandingLands ==
  ASSUME Typed, NEW p \in Pull, Landing(p), [Next]_vars
  PROVE  LandPullRequest(p)
  <1>1. ~UNCHANGED vars
    BY DEF vars, pullVars, Landing
  <1>2. PICK q \in Pull : Step(q)
    BY <1>1, NextIsStep
  <1>3. q = p
    BY <1>2, Elsewhere DEF Same, Landing
  <1>4. CASE ~LandPullRequest(p)
    BY <1>2, <1>3, <1>4
       DEF Step, OpenPullRequest, Push, Rebase, EditPullRequestBody, EditIssue, Handoff, Rerun,
           CheckoutTrusted, ReadIssue, ReadActive, Landing, Typed, TypeOK, pullVars
  <1> QED
    BY <1>4

\* What lands is the candidate tree its run judged, made on the default branch itself.
LEMMA LandsAsJudged ==
  ASSUME IInv, NEW p \in Pull, LandPullRequest(p)
  PROVE  /\ main' = CandidateTree(head[p]) /\ Changed(p) = ChangedFiles(main, main')
         /\ Gated(p, receipt[p].contract, main)
         /\ receipt[p].contract.lane = "gha-agentic" => Confined(p, receipt[p].contract, main)
  <1>1. pr[p] = "open" /\ run[p].at = "passed" /\ UpToDate(head[p])
    BY DEF LandPullRequest, Mergeable
  <1>2. head[p].over = main
    BY <1>1 DEF IInv, HeadStands
  <1>3. main' = CandidateTree(head[p])
    BY <1>2 DEF LandPullRequest, CandidateTree
  <1>4. Changed(p) = ChangedFiles(main, main')
    BY <1>2, <1>3 DEF Changed
  <1> QED
    BY <1>1, <1>3, <1>4 DEF IInv, RunJudges

\* What lands is admitted by the default branch it lands on: surface, bypass, import edges
\* and owners are judged by a policy and a tree that others may have replaced since the run
\* read them, and the protection's up-to-date rule makes them the ones at the merge
\* (verify_pull_request, land_pull_request).
THEOREM LandingsAdmitted == Spec => AdmittedAtMerge
  <1>1. ASSUME IInv, [Next]_vars, NEW p \in Pull PROVE AdmittedLanding(p)
    <2> SUFFICES ASSUME Landing(p) PROVE AdmittedLanding(p)
      BY DEF AdmittedLanding
    <2>1. LandPullRequest(p)
      BY <1>1, LandingLands DEF IInv
    <2>2. ComponentGates(receipt[p].contract, ChangedFiles(main, main'), main, main')
      BY <1>1, <2>1, LandsAsJudged DEF Gated
    <2> QED
      BY <2>2 DEF ComponentGates, TrustedPolicy, AdmittedLanding
  <1>2. IInv /\ [Next]_vars => [\A p \in Pull : AdmittedLanding(p)]_vars
    BY <1>1
  <1> QED
    BY <1>2, Invariant, PTL DEF Spec, AdmittedAtMerge

\* What the hosted lane lands stays within the boundary of its receipt and the mandates that
\* were on the default branch, off the trusted workflows (gha_apply_admission).
THEOREM LandingsConfined == Spec => HostedConfined
  <1>1. ASSUME IInv, [Next]_vars, NEW p \in Pull PROVE ConfinedLanding(p)
    <2> SUFFICES ASSUME Landing(p), receipt[p].contract.lane = "gha-agentic" PROVE ConfinedLanding(p)
      BY DEF ConfinedLanding
    <2>1. LandPullRequest(p)
      BY <1>1, LandingLands DEF IInv
    <2> QED
      BY <1>1, <2>1, LandsAsJudged DEF Confined, ConfinedLanding
  <1>2. IInv /\ [Next]_vars => [\A p \in Pull : ConfinedLanding(p)]_vars
    BY <1>1
  <1> QED
    BY <1>2, Invariant, PTL DEF Spec, HostedConfined
=============================================================================
