---------------------------- MODULE CandidateGate ----------------------------
(***************************************************************************)
(* The gate every candidate crosses on its way to a landing receipt        *)
(* (verify_pull_request) and what land_pull_request reads again of it.     *)
(* Each run of verify.yml checks out the trusted default branch, reads the *)
(* issue, judges the candidate's change against the component map, the     *)
(* owner map and the import edges of the trusted tree, and, on the hosted  *)
(* lane, lists the open issues and judges the change against the write     *)
(* boundary.  Meanwhile other candidates land, authors edit the markers of *)
(* an issue or the body of a pull request, and push.                       *)
(*                                                                         *)
(* A pull request and its subject share a name.  The digest of an issue  *)
(* body is the number of the body: no edit restores earlier bytes.         *)
(***************************************************************************)
EXTENDS ScheduleDomain, FiniteSets

CONSTANTS
    Pull,           \* pull requests, one for each subject
    Path,           \* paths of the repository, sequences of segments
    PolicyPath,     \* the path whose text is the policy
    Workflow,       \* GHA_TRUSTED_WORKFLOW_PATHS
    ComponentName,      \* names in the component map
    FirstTrees,     \* default branches to start from
    Deltas,         \* changes a candidate may make
    Contracts,      \* what the markers of an issue may declare
    MaxPushes,      \* bound: pushes of authors
    MaxEdits        \* bound: edits of issues by authors

ASSUME PathAssumption == PolicyPath \in Path /\ Workflow \subseteq Path
ASSUME PullAssumption == IsFiniteSet(Pull)
ASSUME BoundsAssumption == MaxPushes \in Nat /\ MaxEdits \in Nat

\* A file: the paths of the modules it imports, and which text its one owned
\* definition has (0: none).
File == [there : BOOLEAN, imports : SUBSET Path, definition : 0 .. 2]
Absent == [there |-> FALSE, imports |-> {}, definition |-> 0]

\* What policy/components.json, component-owners.json and co-mandates.json say.
CoMandate == [surface : Path, forcedBy : SUBSET Path]
Policy == [surface : [ComponentName -> SUBSET Path], owner : [Path -> SUBSET ComponentName],
           coMandates : SUBSET CoMandate]

Tree == [file : [Path -> File], policy : Policy]

Contract == [component : ComponentName, lane : {"local", "gha-agentic"},
             boundary : SUBSET Seq(STRING), answers : BOOLEAN]

\* What a change says of each path it touches, and of the policy if it touches that.
ASSUME DeltaAssumption ==
    \A d \in Deltas :
        DOMAIN d.file \subseteq Path /\ d.policy \in Policy /\ \A q \in DOMAIN d.file : d.file[q] \in File
ASSUME TreeAssumption == FirstTrees \subseteq Tree /\ FirstTrees # {}
ASSUME ContractAssumption == Contracts \subseteq Contract /\ Contracts # {}

VARIABLES
    main,       \* the tree of the default branch
    merges,     \* how many pull requests it has merged
    pr,         \* pr[p]: "absent", "open" or "merged"
    head,       \* head[p]: the change, the tree it was made on, and that tree's place
    origin,     \* origin[p]: digest the origin line of the pull request body carries, 0 for none
    event,      \* event[p]: the origin line, and whether the subject was handed off, at the
                \* last event of the pull request (every re-run of its run reads the same)
    issue,      \* issue[p]: open, state, contract, body
    run,        \* run[p]: where the verify run of the head is and what it has read
    receipt,    \* receipt[p]: what the last passed run of the head wrote
    pushes, edits

pullVars == <<pr, head, origin, event>>
vars == <<main, merges, pullVars, issue, run, receipt, pushes, edits>>

CandidateHead == [delta : Deltas, over : Tree, base : Nat]
Issue == [open : BOOLEAN, state : {"ready", "awaiting_land", "landed"},
          contract : Contracts, body : Nat]
Run == [at : {"none", "checkout", "issue", "active", "failed", "passed"},
        root : Tree, contract : Contracts, body : Nat]
Receipt == [contract : Contracts, body : Nat]

TypeOK ==
    /\ main \in Tree /\ merges \in 0 .. Cardinality(Pull)
    /\ pr \in [Pull -> {"absent", "open", "merged"}]
    /\ \A p \in Pull : pr[p] # "absent" => head[p] \in CandidateHead
    /\ origin \in [Pull -> Nat]
    /\ event \in [Pull -> [origin : Nat, handedOff : BOOLEAN]]
    /\ issue \in [Pull -> Issue] /\ run \in [Pull -> Run]
    /\ \A p \in Pull : run[p].at = "passed" => receipt[p] \in Receipt
    /\ pushes \in 0 .. MaxPushes /\ edits \in 0 .. MaxEdits
-----------------------------------------------------------------------------
\* The tree t with the change d made to it.
Apply(t, d) ==
    [file |-> [q \in Path |-> IF q \in DOMAIN d.file THEN d.file[q] ELSE t.file[q]],
     policy |-> IF PolicyPath \in DOMAIN d.file THEN d.policy ELSE t.policy]

CandidateTree(h) == Apply(h.over, h.delta)

\* compare_changed_files of base...head: what differs from the merge base.
ChangedFiles(t, u) ==
    {q \in Path : t.file[q] # u.file[q] \/ (q = PolicyPath /\ t.policy # u.policy)}

UpToDate(h) == h.base = merges
-----------------------------------------------------------------------------
\* The component gates.  policy is the trusted tree's; root and candidate are the
\* trusted and the candidate tree.
WholeRepository(policy, c) == policy.surface[c] = Path

ComponentSurface(policy, c, changed) == changed \subseteq policy.surface[c]

\* A whole-repository declaration must have been needed.
ContractComponentBypass(policy, c, changed) ==
    /\ WholeRepository(policy, c) /\ changed # {}
    /\ \E other \in ComponentName :
        ~WholeRepository(policy, other) /\ ComponentSurface(policy, other, changed)

Provided(q, root, candidate) == root.file[q].there \/ candidate.file[q].there

\* Only what the candidate adds to what the trusted file imports is judged.
IntroducedImports(q, root, candidate) == candidate.file[q].imports \ root.file[q].imports

ImportEdges(policy, c, changed, root, candidate) ==
    WholeRepository(policy, c) \/
    \A q \in changed : \A target \in IntroducedImports(q, root, candidate) :
        Provided(target, root, candidate) => target \in policy.surface[c]

\* A file the candidate deletes crosses nobody's definition.
DefinitionChanged(q, root, candidate) ==
    candidate.file[q].there /\ root.file[q].definition # candidate.file[q].definition

ComponentOwner(policy, c, changed, root, candidate) ==
    WholeRepository(policy, c) \/
    \A q \in changed :
        policy.owner[q] # {} /\ DefinitionChanged(q, root, candidate) => c \in policy.owner[q]

Introduces(root, candidate) == \E q \in Path : candidate.file[q].there /\ ~root.file[q].there

\* Mutant of TrustedPolicy: the candidate's own policy judges it.
CandidatePolicy(root, candidate) == candidate.policy

\* component_map, component_owner_map and the registry are read from the trusted tree.
TrustedPolicy(root, candidate) == root.policy

ComponentGates(contract, changed, root, candidate) ==
    LET policy == TrustedPolicy(root, candidate)
        c == contract.component
    IN  /\ ComponentSurface(policy, c, changed)
        /\ ~ContractComponentBypass(policy, c, changed)
        /\ ImportEdges(policy, c, changed, root, candidate)
        /\ ComponentOwner(policy, c, changed, root, candidate)
        /\ Introduces(root, candidate) => contract.answers
-----------------------------------------------------------------------------
\* The hosted lane.  A row co-permits its surface to a change that another path of
\* the change forces it on.
CoPermitted(policy, changed) ==
    {r.surface : r \in {m \in policy.coMandates : \E q \in changed \ {m.surface} : q \in m.forcedBy}}

BoundaryEscapes(policy, changed, boundary) ==
    {q \in changed \ CoPermitted(policy, changed) : ~BoundaryConflict({q}, boundary)}

Hosted(p) == issue[p].open /\ issue[p].contract.lane = "gha-agentic"

\* Mutant of ActiveTargetTasks: a task that was handed off is no longer active.
WorkingTasks(p) ==
    {Reservation(q, issue[q].contract.boundary) :
        q \in {o \in Pull \ {p} : Hosted(o) /\ issue[o].state = "ready"}}

\* Every other open issue on the lane holds a task, in whatever state it is.
ActiveTargetTasks(p) ==
    {Reservation(q, issue[q].contract.boundary) : q \in {o \in Pull \ {p} : Hosted(o)}}

\* gha_dispatch_payload: what the arrival declares, derived from one read of the body.
DispatchPayload(contract, body) == [digest |-> body, boundary |-> contract.boundary]

ExecutionTask(p, contract, body, dispatch) ==
    /\ contract.boundary # Undeclared
    /\ dispatch = [digest |-> body, boundary |-> contract.boundary]
    /\ ~AdmissionConflict(contract.boundary, ActiveTargetTasks(p))

\* Mutant of OriginBinds: any origin line will do.
AnyOrigin(line, body) == line # 0

OriginBinds(line, body) == line = body

ApplyAdmission(policy, contract, changed, line, body) ==
    /\ changed # {} /\ changed \cap Workflow = {}
    /\ BoundaryEscapes(policy, changed, contract.boundary) = {}
    /\ OriginBinds(line, body)
-----------------------------------------------------------------------------
\* A run that holds no reading.
Unread(at) == [at |-> at, root |-> CHOOSE t \in FirstTrees : TRUE,
               contract |-> CHOOSE c \in Contracts : TRUE, body |-> 0]

Init ==
    /\ main \in FirstTrees /\ merges = 0
    /\ pr = [p \in Pull |-> "absent"]
    /\ head = [p \in Pull |-> <<>>]
    /\ origin = [p \in Pull |-> 0]
    /\ event = [p \in Pull |-> [origin |-> 0, handedOff |-> FALSE]]
    /\ issue \in [Pull -> {[open |-> TRUE, state |-> "ready", contract |-> c, body |-> 1] : c \in Contracts}]
    /\ run = [p \in Pull |-> Unread("none")]
    /\ receipt = [p \in Pull |-> <<>>]
    /\ pushes = 0 /\ edits = 0

\* A push or the opening of the pull request is an event: it starts a run of the
\* new head and cancels the run of the old one.
Delivered(p, line) ==
    /\ event' = [event EXCEPT ![p] = [origin |-> line, handedOff |-> issue[p].state = "awaiting_land"]]
    /\ run' = [run EXCEPT ![p] = Unread("checkout")]

\* The origin line an author writes: the hosted lane's carries the digest of the issue.
OriginLine(p) == IF issue[p].contract.lane = "gha-agentic" THEN issue[p].body ELSE 0

\* Authors (external) open a pull request.
OpenPullRequest(p, d) ==
    /\ pr[p] = "absent" /\ pr' = [pr EXCEPT ![p] = "open"]
    /\ head' = [head EXCEPT ![p] = [delta |-> d, over |-> main, base |-> merges]]
    /\ origin' = [origin EXCEPT ![p] = OriginLine(p)]
    /\ Delivered(p, OriginLine(p))
    /\ UNCHANGED <<main, merges, issue, receipt, pushes, edits>>

Push(p, d) ==
    /\ pr[p] = "open" /\ pushes < MaxPushes /\ pushes' = pushes + 1
    /\ head' = [head EXCEPT ![p] = [delta |-> d, over |-> main, base |-> merges]]
    /\ Delivered(p, origin[p])
    /\ UNCHANGED <<main, merges, pr, origin, issue, receipt, edits>>

\* train_rebase moves a branch that fell behind; a conflict is left to the author.
Rebase(p) ==
    /\ pr[p] = "open" /\ ~UpToDate(head[p])
    /\ ChangedFiles(head[p].over, main) \cap DOMAIN head[p].delta.file = {}
    /\ head' = [head EXCEPT ![p].over = main, ![p].base = merges]
    /\ Delivered(p, origin[p])
    /\ UNCHANGED <<main, merges, pr, origin, issue, receipt, pushes, edits>>

\* verify.yml does not listen to edits of the body.
EditPullRequestBody(p) ==
    /\ pr[p] = "open" /\ origin[p] # OriginLine(p)
    /\ origin' = [origin EXCEPT ![p] = OriginLine(p)]
    /\ UNCHANGED <<main, merges, pr, head, event, issue, run, receipt, pushes, edits>>

EditIssue(p, c) ==
    /\ issue[p].open /\ edits < MaxEdits /\ edits' = edits + 1
    /\ c # issue[p].contract
    /\ issue' = [issue EXCEPT ![p].contract = c, ![p].body = @ + 1]
    /\ UNCHANGED <<main, merges, pullVars, run, receipt, pushes>>

\* The state marker is flipped, by execute_handoff, which re-runs the failed run of the
\* head, or by another writer, before there is a pull request.
Handoff(p) ==
    /\ issue[p].open /\ issue[p].state = "ready"
    /\ issue' = [issue EXCEPT ![p].state = "awaiting_land", ![p].body = @ + 1]
    /\ run' = IF run[p].at = "failed" THEN [run EXCEPT ![p].at = "checkout"] ELSE run
    /\ UNCHANGED <<main, merges, pullVars, receipt, pushes, edits>>

\* ceremony_rerun: a failed run of an unchanged head, over the same event.
Rerun(p) ==
    /\ pr[p] = "open" /\ run[p].at = "failed"
    /\ run' = [run EXCEPT ![p].at = "checkout"]
    /\ UNCHANGED <<main, merges, pullVars, issue, receipt, pushes, edits>>
-----------------------------------------------------------------------------
\* The verify run of p, one read a step.
Fails(p) == run' = [run EXCEPT ![p] = Unread("failed")] /\ UNCHANGED receipt

Passes(p, contract, body) ==
    /\ run' = [run EXCEPT ![p] = Unread("passed")]
    /\ receipt' = [receipt EXCEPT ![p] = [contract |-> contract, body |-> body]]

CheckoutTrusted(p) ==
    /\ run[p].at = "checkout"
    /\ run' = [run EXCEPT ![p].at = "issue", ![p].root = main]
    /\ UNCHANGED <<main, merges, pullVars, issue, receipt, pushes, edits>>

\* The issue is read, then everything that depends on it and the two trees alone.
ReadIssue(p) ==
    /\ run[p].at = "issue"
    /\ LET i == issue[p]
           candidate == CandidateTree(head[p])
           changed == ChangedFiles(head[p].over, candidate)
       IN  IF /\ i.open /\ i.state = "awaiting_land"
              /\ ComponentGates(i.contract, changed, run[p].root, candidate)
           THEN \/ /\ i.contract.lane = "gha-agentic"
                   /\ run' = [run EXCEPT ![p].at = "active", ![p].contract = i.contract, ![p].body = i.body]
                   /\ UNCHANGED receipt
                \/ /\ i.contract.lane = "local"
                   /\ IF event[p].origin = 0 THEN Passes(p, i.contract, i.body) ELSE Fails(p)
           ELSE Fails(p)
    /\ UNCHANGED <<main, merges, pullVars, issue, pushes, edits>>

\* gha_pull_request_admission: the open issues are listed later than the issue was read.
ReadActive(p) ==
    /\ run[p].at = "active"
    /\ LET candidate == CandidateTree(head[p])
           changed == ChangedFiles(head[p].over, candidate)
           policy == TrustedPolicy(run[p].root, candidate)
           dispatch == DispatchPayload(run[p].contract, run[p].body)
       IN  IF /\ ExecutionTask(p, run[p].contract, run[p].body, dispatch)
              /\ ApplyAdmission(policy, run[p].contract, changed, event[p].origin, run[p].body)
           THEN Passes(p, run[p].contract, run[p].body)
           ELSE Fails(p)
    /\ UNCHANGED <<main, merges, pullVars, issue, pushes, edits>>

\* Mutant of Mergeable: the provider does not require the branch to be up to date.
MergeableBehind(p) ==
    /\ pr[p] = "open" /\ run[p].at = "passed"
    /\ issue[p].open /\ issue[p].state = "awaiting_land"

\* Mutant of Mergeable: a job that runs again does not look at what it merged.
MergeableAgain(p) == run[p].at = "passed"

\* land_pull_request reads the exact head and that the subject still waits for it; the
\* audited protection refuses a head that is behind.
Mergeable(p) ==
    /\ pr[p] = "open" /\ run[p].at = "passed"
    /\ issue[p].open /\ issue[p].state = "awaiting_land"
    /\ UpToDate(head[p])

LandPullRequest(p) ==
    /\ Mergeable(p)
    /\ main' = Apply(main, head[p].delta) /\ merges' = merges + 1
    /\ pr' = [pr EXCEPT ![p] = "merged"]
    /\ issue' = [issue EXCEPT ![p].open = FALSE, ![p].state = "landed", ![p].body = @ + 1]
    /\ UNCHANGED <<head, origin, event, run, receipt, pushes, edits>>

Next ==
    \E p \in Pull :
        \/ \E d \in Deltas : OpenPullRequest(p, d) \/ Push(p, d)
        \/ Rebase(p) \/ EditPullRequestBody(p)
        \/ \E c \in Contracts : EditIssue(p, c)
        \/ Handoff(p) \/ Rerun(p)
        \/ CheckoutTrusted(p) \/ ReadIssue(p) \/ ReadActive(p) \/ LandPullRequest(p)

Spec == Init /\ [][Next]_vars
-----------------------------------------------------------------------------
Landing(p) == pr[p] = "open" /\ pr'[p] = "merged"

\* What lands is admitted by what the default branch was just before it, whatever map
\* the candidate carries and however many others landed since its run looked: its changes
\* lie in the surface of its component, the whole-repository component is not used for
\* what an ordinary one admits, no module outside the component that exists by then is
\* coupled to it, and no definition another component owns is rewritten
\* (verify_pull_request, #278, #422; component_import_edge_errors, component_owner_errors).
AdmittedLanding(p) ==
    Landing(p) =>
        LET changed == ChangedFiles(main, main')
            c == receipt[p].contract.component
        IN  /\ ComponentSurface(main.policy, c, changed)
            /\ ~ContractComponentBypass(main.policy, c, changed)
            /\ ImportEdges(main.policy, c, changed, main, main')
            /\ ComponentOwner(main.policy, c, changed, main, main')
AdmittedAtMerge == [][\A p \in Pull : AdmittedLanding(p)]_vars

\* What the hosted lane lands stays inside the boundary its run read or is forced by
\* a mandate that was on the default branch before, and never touches the trusted
\* workflows (gha_apply_admission, #390).
ConfinedLanding(p) ==
    Landing(p) /\ receipt[p].contract.lane = "gha-agentic" =>
        LET changed == ChangedFiles(main, main')
        IN  /\ changed \cap Workflow = {}
            /\ BoundaryEscapes(main.policy, changed, receipt[p].contract.boundary) = {}
HostedConfined == [][\A p \in Pull : ConfinedLanding(p)]_vars

\* Two hosted candidates whose runs passed, of issues nobody edited since, have
\* disjoint boundaries, although each run lists the tasks of the other some time
\* after it read its own issue (gha_active_target_tasks, gha_boundary_conflict).
Current(p) == run[p].at = "passed" /\ Hosted(p) /\ issue[p].body = receipt[p].body

HostedDisjoint ==
    \A p, q \in Pull : p # q /\ Current(p) /\ Current(q) =>
        ~BoundaryConflict(receipt[p].contract.boundary, receipt[q].contract.boundary)

\* The re-run a handoff makes can never verify a hosted candidate: flipping the state
\* changed the digest its event carries, so a run passes only over an event that came
\* after the handoff (verify.yml's types, execute_handoff, gha_origin_missing).
HostedAfterHandoff ==
    \A p \in Pull : run[p].at = "passed" /\ receipt[p].contract.lane = "gha-agentic" =>
        event[p].handedOff
=============================================================================
