-------------------------- MODULE ClaimCycleProofs --------------------------
(***************************************************************************)
(* For any number of executor roots and issues: the cycle's types; that no *)
(* two roots ever hold the same subject; that a claimed subject's          *)
(* dependencies have landed; that no standing pull request names it;       *)
(* that one dependency component never has two open claims; and that open  *)
(* claims have disjoint write surfaces.  At the end, that the union-find   *)
(* of schedule_decision decides the frontier over components that the      *)
(* cycle claims from.                                                      *)
(***************************************************************************)
EXTENDS ClaimWindow, ScheduleDecision, TLAPS

\* What lanes and authors keep of the shared state: facts about its values first.
LEMMA ProviderValues ==
    /\ 0 \in Commit
    /\ \A n \in Commit : n < MaxCommits => n + 1 \in Commit
    /\ \A n \in Commit : n # None
    /\ \A n \in 0 .. MaxEdits : n < MaxEdits => n + 1 \in 0 .. MaxEdits
    /\ Malformed \in Body
    /\ \A b \in Body : b.boundary \in Boundary \cup {Undeclared}
    /\ \A b \in Body, state \in State : ReplaceState(b, state) \in Body
  <1>1. MaxCommits \in Nat /\ MaxEdits \in Nat
    BY BoundsAssumption
  <1>2. Commit \subseteq Nat
    BY <1>1 DEF Commit
  <1>3. 0 \in Commit /\ \A n \in Commit : n < MaxCommits => n + 1 \in Commit
    BY <1>1 DEF Commit
  <1>4. \A n \in Commit : n # None
    BY <1>2, NoneAssumption
  <1>5. \A n \in 0 .. MaxEdits : n < MaxEdits => n + 1 \in 0 .. MaxEdits
    BY <1>1
  <1>6. Malformed \in Body
    BY DEF Body
  <1>7. \A b \in Body : b.boundary \in Boundary \cup {Undeclared}
    BY DEF Body, Contract, Malformed
  <1>8. \A b \in Body, state \in State : ReplaceState(b, state) \in Body
    BY <1>7 DEF ReplaceState, Body, Contract
  <1> QED
    BY <1>3, <1>4, <1>5, <1>6, <1>7, <1>8

LEMMA ProviderInitType == ProviderInit => ProviderTypeOK
  <1> SUFFICES ASSUME ProviderInit PROVE ProviderTypeOK
    OBVIOUS
  <1> USE DEF ProviderInit
  <1>1. body \in [Subject -> Body]
    <2> SUFFICES ASSUME NEW s \in Subject
                 PROVE  [state |-> "ready", boundary |-> Declared[s]] \in Body
      OBVIOUS
    <2> QED
      BY BoundaryAssumption DEF Body, Contract, State
  <1> QED
    BY <1>1, ProviderValues, BoundsAssumption DEF ProviderTypeOK

LEMMA LaneType ==
  ASSUME ProviderTypeOK, Lane
  PROVE  ProviderTypeOK'
  <1> USE DEF ProviderTypeOK, githubVars, rootVars
  <1>1. ASSUME NEW e \in Root, PromoteOrders(e) PROVE ProviderTypeOK'
    BY <1>1 DEF PromoteOrders
  <1>2. ASSUME NEW e \in Root, NEW s \in Subject, StartSession(e, s) PROVE ProviderTypeOK'
    BY <1>2 DEF StartSession
  <1>3. ASSUME NEW e \in Root, NEW s \in Subject, LoseSession(e, s) PROVE ProviderTypeOK'
    BY <1>3 DEF LoseSession
  <1>4. ASSUME NEW e \in Root, NEW s \in Subject, DropOrder(e, s) PROVE ProviderTypeOK'
    BY <1>4 DEF DropOrder
  <1>5. ASSUME NEW e \in Root, NEW s \in Subject, PushCommit(e, s) PROVE ProviderTypeOK'
    BY <1>5, ProviderValues DEF PushCommit
  <1>6. ASSUME NEW e \in Root, NEW s \in Subject, OpenPullRequest(e, s) PROVE ProviderTypeOK'
    BY <1>6 DEF OpenPullRequest
  <1>7. ASSUME NEW e \in Root, NEW s \in Subject, ExecuteHandoff(e, s) PROVE ProviderTypeOK'
    <2>1. ReplaceState(body[s], "awaiting_land") \in Body
      BY ProviderValues DEF State
    <2> QED
      BY <1>7, <2>1 DEF ExecuteHandoff
  <1>8. ASSUME NEW s \in Subject, LandPullRequest(s) PROVE ProviderTypeOK'
    <2>1. ReplaceState(body[s], "landed") \in Body
      BY ProviderValues DEF State
    <2> QED
      BY <1>8, <2>1 DEF LandPullRequest
  <1> QED
    BY <1>1, <1>2, <1>3, <1>4, <1>5, <1>6, <1>7, <1>8 DEF Lane

LEMMA AuthorType ==
  ASSUME ProviderTypeOK, Author
  PROVE  ProviderTypeOK'
  <1> USE DEF ProviderTypeOK, rootVars
  <1>1. ASSUME NEW s \in Subject, NEW b \in Rewritten, EditBody(s, b) PROVE ProviderTypeOK'
    BY <1>1, ProviderValues, RewrittenAssumption DEF EditBody
  <1>2. ASSUME NEW s \in Subject, ForeignPullRequest(s) PROVE ProviderTypeOK'
    BY <1>2, ProviderValues DEF ForeignPullRequest
  <1> QED
    BY <1>1, <1>2 DEF Author

LEMMA ProviderKept ==
  ASSUME ProviderTypeOK, UNCHANGED <<githubVars, rootVars>>
  PROVE  ProviderTypeOK'
  BY DEF ProviderTypeOK, githubVars, rootVars
-----------------------------------------------------------------------------

\* The values of the cycle itself.
LEMMA Values ==
    /\ 0 \in Commit
    /\ \A n \in Commit : n # None
    /\ Malformed \in Body
    /\ \A b \in Body : b.boundary \in Boundary \cup {Undeclared}
    /\ NoOrphan \in Identity
  BY ProviderValues DEF NoOrphan, Identity

LEMMA InitTypeOK == Init => TypeOK
  <1> SUFFICES ASSUME Init PROVE TypeOK
    OBVIOUS
  <1>1. ProviderTypeOK
    BY ProviderInitType DEF Init
  <1> QED
    BY <1>1, Values DEF Init, TypeOK, Step, Status
-----------------------------------------------------------------------------
\* What the two step idioms of the cycle do to the working state.
LEMMA LeaveType ==
  ASSUME TypeOK, NEW e \in Root, NEW s \in Subject, NEW status \in Status,
         Leave(e, s, status)
  PROVE  /\ pc' \in [Root -> Step]
         /\ outcome' \in [Root -> [Subject -> Status]]
         /\ seen' \in [Root -> SUBSET Subject]
         /\ contract' \in [Root -> Body]
         /\ base' \in [Root -> Commit \cup {None}]
  BY Values DEF TypeOK, Leave, Step

LEMMA GoType ==
  ASSUME TypeOK, NEW e \in Root, NEW step \in Step, Go(e, step)
  PROVE  pc' \in [Root -> Step] /\ outcome' \in [Root -> [Subject -> Status]]
  BY DEF TypeOK, Go

LEMMA EndCycleType ==
  ASSUME TypeOK, NEW e \in Root, EndCycle(e)
  PROVE  /\ pc' \in [Root -> Step]
         /\ outcome' \in [Root -> [Subject -> Status]]
         /\ seen' \in [Root -> SUBSET Subject]
         /\ winners' \in [Root -> SUBSET Subject]
         /\ orphans' \in [Root -> [Subject -> Identity]]
         /\ reserved' \in [Root -> SUBSET [subject : Subject, boundary : Boundary \cup {Undeclared}]]
         /\ contract' \in [Root -> Body]
         /\ base' \in [Root -> Commit \cup {None}]
         /\ won' \in [Root -> SUBSET Subject]
         /\ created' \in [Root -> SUBSET Subject]
  BY Values DEF TypeOK, EndCycle, Step, Status

-----------------------------------------------------------------------------
\* The lanes and the authors keep the cycle's types too.
LEMMA EnvironmentType ==
  ASSUME TypeOK, Environment
  PROVE  TypeOK'
  <1>1. ProviderTypeOK'
    BY LaneType, AuthorType DEF TypeOK, Environment
  <1> QED
    BY <1>1 DEF Environment, TypeOK, cycleVars

LEMMA ProviderUnchanged ==
  ASSUME TypeOK, UNCHANGED <<githubVars, rootVars>>
  PROVE  ProviderTypeOK'
  BY ProviderKept DEF TypeOK

LEMMA SnapshotType ==
  ASSUME TypeOK, NEW e \in Root,
         \/ SnapshotRefs(e) \/ SnapshotIssues(e) \/ SnapshotOrphans(e) \/ FreshRefs(e)
  PROVE  TypeOK'
  <1> USE DEF TypeOK, Decided, Claimed, Reads, Go, Step
  <1>1. ProviderTypeOK'
    BY ProviderUnchanged DEF SnapshotRefs, SnapshotIssues, SnapshotOrphans, FreshRefs
  <1>2. CASE SnapshotRefs(e)
    BY <1>1, <1>2 DEF SnapshotRefs, Claims
  <1>3. CASE SnapshotIssues(e)
    <2>1. SnapshotWinners(e) \subseteq Subject
      BY BoundaryAssumption DEF SnapshotWinners, Winners, Frontier, OpenReadable
    <2>2. {Reservation(s, body[s].boundary) : s \in LiveClaims(e)}
            \in SUBSET [subject : Subject, boundary : Boundary \cup {Undeclared}]
      BY Values DEF Reservation, LiveClaims, ProviderTypeOK
    <2> QED
      BY <1>1, <1>3, <2>1, <2>2 DEF SnapshotIssues
  <1>4. CASE SnapshotOrphans(e)
    <2> DEFINE found == {s \in Subject : PrePrOrphan(e, s)
                            /\ \E r \in reserved[e] : r.subject = s}
               identity == [s \in Subject |-> IF s \in found
                                              THEN [body |-> body[s], head |-> ref[s]]
                                              ELSE NoOrphan]
    <2>1. identity \in [Subject -> Identity]
      BY Values DEF Identity, ProviderTypeOK
    <2>2. /\ orphans' = [orphans EXCEPT ![e] = identity]
          /\ winners' = [winners EXCEPT ![e] = @ \cup found]
      BY <1>4 DEF SnapshotOrphans
    <2>3. orphans' \in [Root -> [Subject -> Identity]]
      BY <2>1, <2>2
    <2>4. winners' \in [Root -> SUBSET Subject]
      BY <2>2
    <2> QED
      BY <1>1, <1>4, <2>3, <2>4 DEF SnapshotOrphans
  <1>5. CASE FreshRefs(e)
    BY <1>1, <1>5 DEF FreshRefs, Claims
  <1> QED
    BY <1>2, <1>3, <1>4, <1>5

LEMMA JudgeType ==
  ASSUME TypeOK, NEW e \in Root, NEW s \in Subject,
         \/ TakeCandidate(e, s) \/ FreshIssues(e, s) \/ ReadContract(e, s)
         \/ ReadPullRequests(e, s)
  PROVE  TypeOK'
  <1>1. ProviderTypeOK'
    BY ProviderUnchanged DEF TakeCandidate, FreshIssues, ReadContract, ReadPullRequests
  <1>2. ContractVerdict(e, s) # "admitted" => ContractVerdict(e, s) \in Status
    BY DEF ContractVerdict, Status
  <1>3. CASE TakeCandidate(e, s)
    <2>1. CASE Go(e, "freshRefs") /\ UNCHANGED Reads
      BY <1>1, <1>3, <2>1, GoType DEF TakeCandidate, TypeOK, Step, Decided, Claimed, Reads
    <2>2. CASE Leave(e, s, "not_in_winners")
      BY <1>1, <1>3, <2>2, LeaveType DEF TakeCandidate, TypeOK, Status, Decided, Claimed
    <2> QED
      BY <1>3, <2>1, <2>2 DEF TakeCandidate
  <1>4. CASE FreshIssues(e, s)
    <2>1. CASE /\ seen' = [seen EXCEPT ![e] = {}]
               /\ Go(e, "contract")
               /\ UNCHANGED <<contract, base>>
      BY <1>1, <1>4, <2>1, GoType DEF FreshIssues, TypeOK, Step, Decided, Claimed
    <2>2. CASE Leave(e, s, "frontier_changed")
      BY <1>1, <1>4, <2>2, LeaveType DEF FreshIssues, TypeOK, Status, Decided, Claimed
    <2> QED
      BY <1>4, <2>1, <2>2 DEF FreshIssues
  <1>5. CASE ReadContract(e, s)
    <2>1. CASE /\ contract' = [contract EXCEPT ![e] = body[s]]
               /\ Go(e, "pullRequests")
               /\ UNCHANGED <<seen, base>>
      BY <1>1, <1>5, <2>1, GoType
      DEF ReadContract, TypeOK, ProviderTypeOK, Step, Decided, Claimed
    <2>2. CASE ContractVerdict(e, s) # "admitted" /\ Leave(e, s, ContractVerdict(e, s))
      <3>1. ContractVerdict(e, s) \in Status
        BY <1>2, <2>2
      <3> QED
        BY <1>1, <1>5, <2>2, <3>1, LeaveType DEF ReadContract, TypeOK, Decided, Claimed
    <2> QED
      BY <1>5, <2>1, <2>2 DEF ReadContract
  <1>6. CASE ReadPullRequests(e, s)
    <2>1. CASE Leave(e, s, "open_pr_exists")
      BY <1>1, <1>6, <2>1, LeaveType DEF ReadPullRequests, TypeOK, Status, Decided, Claimed
    <2>2. CASE Go(e, AdmittedStep(e, s)) /\ UNCHANGED Reads
      <3>1. AdmittedStep(e, s) \in Step
        BY DEF AdmittedStep, Step
      <3> QED
        BY <1>1, <1>6, <2>2, <3>1, GoType
        DEF ReadPullRequests, TypeOK, Decided, Claimed, Reads
    <2> QED
      BY <1>6, <2>1, <2>2 DEF ReadPullRequests
  <1> QED
    BY <1>3, <1>4, <1>5, <1>6

LEMMA AdoptType ==
  ASSUME TypeOK, NEW e \in Root, NEW s \in Subject,
         AdoptHeld(e, s) \/ AdoptPublished(e, s) \/ AdoptOrphan(e, s)
  PROVE  TypeOK'
  <1>1. ProviderTypeOK'
    BY ProviderUnchanged DEF AdoptHeld, AdoptPublished, AdoptOrphan
  <1>2. CASE AdoptHeld(e, s)
    BY <1>1, <1>2, LeaveType DEF AdoptHeld, TypeOK, Status, Decided, Claimed
  <1>3. CASE AdoptPublished(e, s)
    BY <1>1, <1>3, LeaveType DEF AdoptPublished, TypeOK, Status, Decided
  <1>4. CASE AdoptOrphan(e, s)
    <2>1. orphans[e][s].head \in Commit \cup {None}
      BY DEF TypeOK, Identity
    <2> QED
      BY <1>1, <1>4, <2>1, GoType DEF AdoptOrphan, TypeOK, Step, Decided, Claimed
  <1> QED
    BY <1>2, <1>3, <1>4

LEMMA ClaimType ==
  ASSUME TypeOK, NEW e \in Root, NEW s \in Subject,
         \/ ClaimCreated(e, s) \/ ClaimAnswerLost(e, s)
         \/ ClaimTaken(e, s) \/ BindOrder(e, s)
  PROVE  TypeOK'
  <1>2. ASSUME CreateRef(e, s)
        PROVE  /\ ProviderTypeOK' /\ created' \in [Root -> SUBSET Subject]
               /\ UNCHANGED <<Decided, won>>
    BY <1>2 DEF CreateRef, TypeOK, ProviderTypeOK, rootVars
  <1>3. CASE ClaimCreated(e, s)
    BY <1>2, <1>3, GoType DEF ClaimCreated, TypeOK, Step, Decided, Reads
  <1>4. CASE ClaimAnswerLost(e, s)
    BY <1>2, <1>4, LeaveType DEF ClaimAnswerLost, TypeOK, Status, Decided
  <1>5. CASE ClaimTaken(e, s)
    <2>1. ProviderTypeOK'
      BY <1>5, ProviderUnchanged DEF ClaimTaken
    <2> QED
      BY <1>5, <2>1, LeaveType DEF ClaimTaken, TypeOK, Status, Decided, Claimed
  <1>6. CASE BindOrder(e, s)
    <2>1. ProviderTypeOK'
      BY <1>6, ProviderUnchanged DEF BindOrder
    <2>2. Reservation(s, contract[e].boundary)
            \in [subject : Subject, boundary : Boundary \cup {Undeclared}]
      BY Values DEF TypeOK, Reservation
    <2> QED
      BY <1>6, <2>1, <2>2, LeaveType DEF BindOrder, TypeOK, Status
  <1> QED
    BY <1>3, <1>4, <1>5, <1>6

LEMMA EndType ==
  ASSUME TypeOK, NEW e \in Root,
         \/ FinishCandidates(e) \/ ValidateOutput(e) \/ OutputRejected(e)
         \/ PublishOutput(e) \/ CycleFails(e)
         \/ \E s \in Subject : ContractRaises(e, s)
         \/ \E proposal \in SUBSET Subject : Begin(e, proposal)
  PROVE  TypeOK'
  <1>1. CASE FinishCandidates(e) \/ ValidateOutput(e)
    <2>1. ProviderTypeOK'
      BY <1>1, ProviderUnchanged DEF FinishCandidates, ValidateOutput
    <2> QED
      BY <1>1, <2>1, GoType
      DEF FinishCandidates, ValidateOutput, TypeOK, Step, Reads, Decided, Claimed
  <1>2. CASE \/ OutputRejected(e) \/ CycleFails(e)
             \/ \E s \in Subject : ContractRaises(e, s)
    <2>1. ProviderTypeOK'
      BY <1>2, ProviderUnchanged DEF OutputRejected, CycleFails, ContractRaises
    <2>2. EndCycle(e)
      BY <1>2 DEF OutputRejected, CycleFails, ContractRaises
    <2> QED
      BY <2>1, <2>2, EndCycleType DEF TypeOK
  <1>3. CASE PublishOutput(e)
    <2>1. ProviderTypeOK'
      BY <1>3 DEF PublishOutput, TypeOK, ProviderTypeOK, githubVars
    <2> QED
      BY <1>3, <2>1, EndCycleType DEF PublishOutput, TypeOK
  <1>4. CASE \E proposal \in SUBSET Subject : Begin(e, proposal)
    <2>1. PICK proposal \in SUBSET Subject : Begin(e, proposal)
      BY <1>4
    <2>2. ProviderTypeOK'
      BY <2>1, ProviderUnchanged DEF Begin
    <2>3. outcome' \in [Root -> [Subject -> Status]] /\ pc' \in [Root -> Step]
      BY <2>1 DEF Begin, TypeOK, Status, Step
    <2> QED
      BY <2>1, <2>2, <2>3 DEF Begin, TypeOK, Reads, Decided, Claimed
  <1> QED
    BY <1>1, <1>2, <1>3, <1>4

LEMMA StepType == TypeOK /\ [Next]_vars => TypeOK'
  <1> SUFFICES ASSUME TypeOK, [Next]_vars PROVE TypeOK'
    OBVIOUS
  <1>1. CASE UNCHANGED vars
    BY <1>1 DEF vars, TypeOK, ProviderTypeOK, githubVars, rootVars, cycleVars
  <1>2. CASE Environment
    BY <1>2, EnvironmentType
  <1>3. ASSUME NEW e \in Root, Run(e) PROVE TypeOK'
    <2>1. CASE SnapshotRefs(e) \/ SnapshotIssues(e) \/ SnapshotOrphans(e) \/ FreshRefs(e)
      BY <2>1, SnapshotType
    <2>2. CASE ReadDefaultHead(e)
      <3>1. ProviderTypeOK'
        BY <2>2, ProviderUnchanged DEF ReadDefaultHead
      <3> QED
        BY <2>2, <3>1, GoType DEF ReadDefaultHead, TypeOK, ProviderTypeOK, Step, Decided, Claimed
    <2>3. CASE \/ FinishCandidates(e) \/ ValidateOutput(e) \/ OutputRejected(e)
               \/ PublishOutput(e) \/ CycleFails(e)
               \/ \E s \in Subject : ContractRaises(e, s)
               \/ \E proposal \in SUBSET Subject : Begin(e, proposal)
      BY <2>3, EndType
    <2>4. ASSUME NEW s \in Subject,
                 \/ TakeCandidate(e, s) \/ FreshIssues(e, s)
                 \/ ReadContract(e, s) \/ ReadPullRequests(e, s)
          PROVE  TypeOK'
      BY <2>4, JudgeType
    <2>5. ASSUME NEW s \in Subject, AdoptHeld(e, s) \/ AdoptPublished(e, s) \/ AdoptOrphan(e, s)
          PROVE  TypeOK'
      BY <2>5, AdoptType
    <2>6. ASSUME NEW s \in Subject, ClaimCreated(e, s) \/ ClaimTaken(e, s) \/ BindOrder(e, s)
          PROVE  TypeOK'
      BY <2>6, ClaimType
    <2> QED
      BY <1>3, <2>1, <2>2, <2>3, <2>4, <2>5, <2>6 DEF Run, Cycle
  <1>4. ASSUME NEW e \in Root, NEW s \in Subject, ClaimAnswerLost(e, s) PROVE TypeOK'
    BY <1>4, ClaimType
  <1> QED
    BY <1>1, <1>2, <1>3, <1>4 DEF Next, Answered

\* Every variable of a cycle, of the provider and of the roots keeps its type,
\* whatever steps of several cycles, lanes and authors interleave.
THEOREM TypeCorrect == Spec => []TypeOK
  BY InitTypeOK, StepType, PTL DEF Spec
-----------------------------------------------------------------------------
\* A step that hands no root a new subject and deletes no ref keeps the two
\* properties the strengthening is about.
LEMMA HoldingKept ==
  ASSUME Ownership,
         \A e \in Root : Holding(e)' \subseteq Holding(e),
         \A e \in Root : Holding(e) \subseteq Subject,
         \A s \in Subject : ref[s] # None => ref'[s] # None
  PROVE  OneHolder' /\ HeldIsClaimed'
  BY DEF Ownership, OneHolder, HeldIsClaimed

LEMMA HoldingType ==
  ASSUME TypeOK, NEW e \in Root
  PROVE  Holding(e) \subseteq Subject
  BY DEF Holding, TypeOK, ProviderTypeOK

\* The smallest pending order is one order.
LEMMA OneCandidate ==
  ASSUME TypeOK, NEW e \in Root, NEW s \in Subject, NEW t \in Subject,
         Candidate(e, s), Candidate(e, t)
  PROVE  s = t
  BY SubjectAssumption DEF Candidate

LEMMA InitOwnership == Init => Ownership
  <1> SUFFICES ASSUME Init PROVE Ownership
    OBVIOUS
  <1> USE DEF Init, ProviderInit
  <1>1. \A e \in Root : Holding(e) = {}
    BY DEF Holding
  <1>2. OneHolder /\ HeldIsClaimed
    BY <1>1 DEF OneHolder, HeldIsClaimed
  <1>3. LocalHasWorktree /\ BoundIsOwned /\ ClaimHasHead
    BY DEF LocalHasWorktree, IsOrphan, BoundIsOwned, ClaimHasHead
  <1> QED
    BY <1>2, <1>3 DEF Ownership

LEMMA EnvironmentOwnership ==
  ASSUME TypeOK, Ownership, Environment
  PROVE  Ownership'
  <1>1. UNCHANGED cycleVars
    BY DEF Environment
  <1>2. BoundIsOwned' /\ ClaimHasHead'
    BY <1>1 DEF Ownership, BoundIsOwned, ClaimHasHead, Candidate, IsOrphan, cycleVars
  <1>3. \A e \in Root : Holding(e) \subseteq Subject
    BY HoldingType
  <1> DEFINE Kept == /\ \A e \in Root : Holding(e)' \subseteq Holding(e)
                     /\ \A s \in Subject : ref[s] # None => ref'[s] # None
                     /\ LocalHasWorktree'
  <1>4. SUFFICES Kept
    BY <1>2, <1>3, HoldingKept DEF Ownership
  <1> USE <1>1 DEF Ownership, LocalHasWorktree, IsOrphan, Holding, cycleVars,
                  TypeOK, ProviderTypeOK, githubVars, rootVars
  <1>5. ASSUME NEW e \in Root, PromoteOrders(e) PROVE Kept
    BY <1>5 DEF PromoteOrders
  <1>6. ASSUME NEW e \in Root, NEW s \in Subject, StartSession(e, s) PROVE Kept
    BY <1>6, Values DEF StartSession
  <1>7. ASSUME NEW e \in Root, NEW s \in Subject, LoseSession(e, s) PROVE Kept
    BY <1>7 DEF LoseSession
  <1>8. ASSUME NEW e \in Root, NEW s \in Subject, DropOrder(e, s) PROVE Kept
    BY <1>8 DEF DropOrder
  <1>9. ASSUME NEW e \in Root, NEW s \in Subject, PushCommit(e, s) PROVE Kept
    BY <1>9, ProviderValues DEF PushCommit
  <1>10. ASSUME UNCHANGED <<ref, rootVars>> PROVE Kept
    BY <1>10
  <1>11. Author => UNCHANGED <<ref, rootVars>>
    BY DEF Author, EditBody, ForeignPullRequest
  <1>12. \A s \in Subject :
            /\ LandPullRequest(s) => UNCHANGED <<ref, rootVars>>
            /\ \A e \in Root : OpenPullRequest(e, s) \/ ExecuteHandoff(e, s)
                                  => UNCHANGED <<ref, rootVars>>
    BY DEF LandPullRequest, OpenPullRequest, ExecuteHandoff
  <1> HIDE DEF Kept
  <1> QED
    BY <1>5, <1>6, <1>7, <1>8, <1>9, <1>10, <1>11, <1>12 DEF Environment, Lane

\* The cycle's steps that leave the provider, the roots and what the cycle owns
\* as they are, and go neither to the claim nor to the binding.
LEMMA ReadingOwnership ==
  ASSUME TypeOK, Ownership, NEW e \in Root, NEW step \in Step \ {"claim", "bind"},
         pc' = [pc EXCEPT ![e] = step],
         \A f \in Root \ {e} : outcome'[f] = outcome[f] /\ base'[f] = base[f],
         UNCHANGED <<githubVars, rootVars, orphans, won, created>>
  PROVE  Ownership'
  <1> USE DEF Ownership, githubVars, rootVars
  <1>1. \A f \in Root : Holding(f)' \subseteq Holding(f)
    BY DEF Holding
  <1>2. OneHolder' /\ HeldIsClaimed'
    BY <1>1, HoldingType, HoldingKept
  <1>3. LocalHasWorktree'
    BY DEF LocalHasWorktree, IsOrphan
  <1>4. \A f \in Root : pc'[f] \in {"claim", "bind"} => f # e /\ pc'[f] = pc[f]
    BY DEF TypeOK
  <1>5. BoundIsOwned'
    BY <1>4 DEF BoundIsOwned, Candidate, IsOrphan
  <1>6. ClaimHasHead'
    BY <1>4 DEF ClaimHasHead
  <1> QED
    BY <1>2, <1>3, <1>5, <1>6

LEMMA EndOwnership ==
  ASSUME TypeOK, Ownership, NEW e \in Root, EndCycle(e),
         UNCHANGED <<githubVars, active, worktree, live>>,
         \/ UNCHANGED ordersNext
         \/ ordersNext' = [ordersNext EXCEPT ![e] = won[e]]
  PROVE  Ownership'
  <1> USE DEF Ownership, githubVars, EndCycle, TypeOK, ProviderTypeOK
  <1>1. \A f \in Root : Holding(f)' \subseteq Holding(f)
    BY DEF Holding
  <1>2. OneHolder' /\ HeldIsClaimed'
    BY <1>1, HoldingType, HoldingKept
  <1>3. LocalHasWorktree'
    BY DEF LocalHasWorktree, IsOrphan
  <1>4. BoundIsOwned' /\ ClaimHasHead'
    BY DEF BoundIsOwned, ClaimHasHead, Candidate, IsOrphan
  <1> QED
    BY <1>2, <1>3, <1>4

\* An orphan is a claim of the provider, so its identity is not NoOrphan.
LEMMA OrphansOwnership ==
  ASSUME TypeOK, Ownership, NEW e \in Root, SnapshotOrphans(e)
  PROVE  Ownership'
  <1> USE DEF Ownership, SnapshotOrphans, Go, Reads, Claimed, githubVars, rootVars
  <1>1. \A f \in Root : Holding(f)' \subseteq Holding(f)
    BY DEF Holding
  <1>2. OneHolder' /\ HeldIsClaimed'
    BY <1>1, HoldingType, HoldingKept
  <1>3. LocalHasWorktree'
    <2> SUFFICES ASSUME NEW f \in Root, NEW s \in Subject, orphans'[f][s] # NoOrphan \/ live[f][s]
                 PROVE  worktree[f][s] # None
      BY DEF LocalHasWorktree, IsOrphan
    <2>1. CASE f # e \/ live[f][s]
      BY <2>1 DEF LocalHasWorktree, IsOrphan, TypeOK
    <2>2. CASE f = e /\ ~live[f][s]
      <3>1. PrePrOrphan(e, s)
        BY <2>2 DEF TypeOK
      <3> QED
        BY <2>2, <3>1 DEF PrePrOrphan
    <2> QED
      BY <2>1, <2>2
  <1>4. \A f \in Root : pc'[f] \in {"claim", "bind"} => f # e /\ pc'[f] = pc[f]
    BY DEF TypeOK
  <1>5. BoundIsOwned'
    BY <1>4 DEF BoundIsOwned, Candidate, IsOrphan, TypeOK
  <1>6. ClaimHasHead'
    BY <1>4 DEF ClaimHasHead
  <1> QED
    BY <1>2, <1>3, <1>5, <1>6

LEMMA AdoptOwnership ==
  ASSUME TypeOK, Ownership, NEW e \in Root, NEW s \in Subject,
         AdoptPublished(e, s) \/ AdoptOrphan(e, s)
  PROVE  Ownership'
  <1> USE DEF Ownership, githubVars, rootVars, Decided
  <1>1. /\ UNCHANGED <<githubVars, rootVars, orphans, created>>
        /\ won' = won \/ (s \in ordersNext[e] /\ won' = [won EXCEPT ![e] = @ \cup {s}])
    BY DEF AdoptPublished, AdoptOrphan, Claimed
  <1>2. \A f \in Root : Holding(f)' \subseteq Holding(f)
    <2>1. /\ UNCHANGED created /\ UNCHANGED ordersNext
          /\ UNCHANGED active /\ UNCHANGED worktree
      BY <1>1
    <2>2. CASE won' = won
      BY <2>1, <2>2 DEF Holding
    <2>3. CASE s \in ordersNext[e] /\ won' = [won EXCEPT ![e] = @ \cup {s}]
      BY <2>1, <2>3 DEF Holding, TypeOK
    <2> QED
      BY <1>1, <2>2, <2>3
  <1>3. OneHolder' /\ HeldIsClaimed'
    BY <1>1, <1>2, HoldingType, HoldingKept
  <1>4. LocalHasWorktree'
    BY <1>1 DEF LocalHasWorktree, IsOrphan
  <1>5. /\ pc'[e] \in {"next", "bind"}
        /\ pc'[e] = "bind" => IsOrphan(e, s) /\ Candidate(e, s) /\ UNCHANGED outcome
        /\ \A f \in Root \ {e} : pc'[f] = pc[f] /\ outcome'[f] = outcome[f] /\ base'[f] = base[f]
    <2>1. CASE AdoptPublished(e, s)
      BY <2>1 DEF AdoptPublished, Leave, TypeOK
    <2>2. CASE AdoptOrphan(e, s)
      <3>1. IsOrphan(e, s)
        BY <2>2, NoneAssumption
        DEF AdoptOrphan, SameIdentity, PrePrOrphan, IsOrphan, NoOrphan
      <3> QED
        BY <2>2, <3>1 DEF AdoptOrphan, Go, TypeOK
    <2> QED
      BY <2>1, <2>2
  <1>6. BoundIsOwned'
    <2> SUFFICES ASSUME NEW f \in Root, NEW t \in Subject, pc'[f] = "bind", Candidate(f, t)'
                 PROVE  t \in created'[f] \/ IsOrphan(f, t)'
      BY DEF BoundIsOwned
    <2>1. CASE f = e
      <3>1. Candidate(e, t) /\ Candidate(e, s) /\ IsOrphan(e, s)
        BY <1>5, <2>1 DEF Candidate
      <3> QED
        BY <1>1, <2>1, <3>1, OneCandidate DEF IsOrphan
    <2>2. CASE f # e
      BY <1>1, <1>5, <2>2 DEF BoundIsOwned, Candidate, IsOrphan
    <2> QED
      BY <2>1, <2>2
  <1>7. ClaimHasHead'
    BY <1>5 DEF ClaimHasHead
  <1> QED
    BY <1>3, <1>4, <1>6, <1>7

LEMMA HeadOwnership ==
  ASSUME TypeOK, Ownership, NEW e \in Root, ReadDefaultHead(e)
  PROVE  Ownership'
  <1> USE DEF Ownership, ReadDefaultHead, Go, Decided, Claimed, githubVars, rootVars
  <1>1. \A f \in Root : Holding(f)' \subseteq Holding(f)
    BY DEF Holding
  <1>2. OneHolder' /\ HeldIsClaimed'
    BY <1>1, HoldingType, HoldingKept
  <1>3. LocalHasWorktree'
    BY DEF LocalHasWorktree, IsOrphan
  <1>4. BoundIsOwned'
    BY DEF BoundIsOwned, Candidate, IsOrphan, TypeOK
  <1>5. ClaimHasHead'
    BY Values DEF ClaimHasHead, TypeOK, ProviderTypeOK
  <1> QED
    BY <1>2, <1>3, <1>4, <1>5

\* The provider creates a ref only where there is none, so nobody held it.
LEMMA CreateOwnership ==
  ASSUME TypeOK, Ownership, NEW e \in Root, NEW s \in Subject,
         ClaimCreated(e, s) \/ ClaimAnswerLost(e, s)
  PROVE  Ownership'
  <1> USE DEF Ownership
  <1>1. CreateRef(e, s)
    BY DEF ClaimCreated, ClaimAnswerLost
  <1>2. /\ ref[s] = None /\ ref'[s] # None
        /\ \A t \in Subject : ref[t] # None => ref'[t] # None
    BY <1>1 DEF CreateRef, ClaimHasHead, TypeOK, ProviderTypeOK
  <1>3. /\ \A f \in Root : s \notin Holding(f)
        /\ \A f \in Root : Holding(f) \subseteq Subject
    BY <1>2, HoldingType DEF HeldIsClaimed
  <1>4. /\ Holding(e)' \subseteq Holding(e) \cup {s}
        /\ \A f \in Root \ {e} : Holding(f)' \subseteq Holding(f)
    BY <1>1 DEF CreateRef, Holding, TypeOK, rootVars
  <1>5. OneHolder'
    BY <1>3, <1>4 DEF OneHolder
  <1>6. HeldIsClaimed'
    BY <1>2, <1>3, <1>4 DEF HeldIsClaimed
  <1>7. LocalHasWorktree'
    BY <1>1 DEF CreateRef, LocalHasWorktree, IsOrphan, rootVars, Decided
  <1>8. /\ pc'[e] \in {"next", "bind"}
        /\ pc'[e] = "bind" => Candidate(e, s) /\ UNCHANGED outcome
        /\ \A f \in Root \ {e} : pc'[f] = pc[f] /\ outcome'[f] = outcome[f] /\ base'[f] = base[f]
    <2>1. CASE ClaimCreated(e, s)
      BY <2>1 DEF ClaimCreated, CreateRef, Go, Reads, TypeOK
    <2>2. CASE ClaimAnswerLost(e, s)
      BY <2>2 DEF ClaimAnswerLost, Leave, TypeOK
    <2> QED
      BY <2>1, <2>2
  <1>9. BoundIsOwned'
    <2> SUFFICES ASSUME NEW f \in Root, NEW t \in Subject, pc'[f] = "bind", Candidate(f, t)'
                 PROVE  t \in created'[f] \/ IsOrphan(f, t)'
      BY DEF BoundIsOwned
    <2>1. CASE f = e
      <3>1. Candidate(e, t) /\ Candidate(e, s)
        BY <1>8, <2>1 DEF Candidate
      <3> QED
        BY <1>1, <2>1, <3>1, OneCandidate DEF CreateRef, TypeOK
    <2>2. CASE f # e
      <3>1. Candidate(f, t) /\ pc[f] = "bind"
        BY <1>8, <2>2 DEF Candidate
      <3> QED
        BY <1>1, <2>2, <3>1 DEF BoundIsOwned, CreateRef, IsOrphan, TypeOK, Decided
    <2> QED
      BY <2>1, <2>2
  <1>10. ClaimHasHead'
    BY <1>8 DEF ClaimHasHead
  <1> QED
    BY <1>5, <1>6, <1>7, <1>9, <1>10

\* What is bound was created by this cycle, or its worktree is this root's.
LEMMA BindOwnership ==
  ASSUME TypeOK, Ownership, NEW e \in Root, NEW s \in Subject, BindOrder(e, s)
  PROVE  Ownership'
  <1> USE DEF Ownership, BindOrder, Leave, githubVars, rootVars
  <1>1. s \in Holding(e)
    BY DEF BoundIsOwned, LocalHasWorktree, Holding
  <1>2. \A f \in Root : Holding(f)' \subseteq Holding(f)
    BY <1>1 DEF Holding, TypeOK
  <1>3. OneHolder' /\ HeldIsClaimed'
    BY <1>2, HoldingType, HoldingKept
  <1>4. LocalHasWorktree'
    BY DEF LocalHasWorktree, IsOrphan
  <1>5. \A f \in Root : pc'[f] \in {"claim", "bind"} => f # e /\ pc'[f] = pc[f]
    BY DEF TypeOK
  <1>6. BoundIsOwned'
    BY <1>5 DEF BoundIsOwned, Candidate, IsOrphan, TypeOK
  <1>7. ClaimHasHead'
    BY <1>5 DEF ClaimHasHead, TypeOK
  <1> QED
    BY <1>3, <1>4, <1>6, <1>7

LEMMA StepOwnership == TypeOK /\ Ownership /\ [Next]_vars => Ownership'
  <1> SUFFICES ASSUME TypeOK, Ownership, [Next]_vars PROVE Ownership'
    OBVIOUS
  <1>1. CASE UNCHANGED vars
    BY <1>1
    DEF vars, githubVars, rootVars, cycleVars, Ownership, OneHolder, HeldIsClaimed, Holding,
        LocalHasWorktree, BoundIsOwned, ClaimHasHead, IsOrphan, Candidate
  <1>2. CASE Environment
    BY <1>2, EnvironmentOwnership
  <1>3. ASSUME NEW e \in Root, Run(e) PROVE Ownership'
    <2> DEFINE Reading(step) ==
                 /\ pc' = [pc EXCEPT ![e] = step]
                 /\ \A f \in Root \ {e} : outcome'[f] = outcome[f] /\ base'[f] = base[f]
                 /\ UNCHANGED <<githubVars, rootVars, orphans, won, created>>
    <2>1. ASSUME NEW step \in Step \ {"claim", "bind"}, Reading(step) PROVE Ownership'
      BY <2>1, ReadingOwnership
    <2>2. ASSUME \/ SnapshotRefs(e) \/ SnapshotIssues(e) \/ FreshRefs(e)
                 \/ FinishCandidates(e) \/ ValidateOutput(e)
                 \/ \E proposal \in SUBSET Subject : Begin(e, proposal)
          PROVE  \E step \in Step \ {"claim", "bind"} : Reading(step)
      BY <2>2 DEF SnapshotRefs, SnapshotIssues, FreshRefs, FinishCandidates, ValidateOutput,
                  Begin, Go, Reads, Decided, Claimed, Step, TypeOK
    <2>3. ASSUME NEW s \in Subject,
                 \/ TakeCandidate(e, s) \/ FreshIssues(e, s) \/ ReadContract(e, s)
                 \/ ReadPullRequests(e, s) \/ AdoptHeld(e, s) \/ ClaimTaken(e, s)
          PROVE  \E step \in Step \ {"claim", "bind"} : Reading(step)
      BY <2>3 DEF TakeCandidate, FreshIssues, ReadContract, ReadPullRequests, AdmittedStep,
                  AdoptHeld, ClaimTaken, Go, Leave, Reads, Decided, Claimed, Step, TypeOK
    <2>4. ASSUME \/ OutputRejected(e) \/ PublishOutput(e) \/ CycleFails(e)
                 \/ \E s \in Subject : ContractRaises(e, s)
          PROVE  Ownership'
      BY <2>4, EndOwnership
      DEF OutputRejected, PublishOutput, CycleFails, ContractRaises, rootVars
    <2> HIDE DEF Reading
    <2> QED
      BY <1>3, <2>1, <2>2, <2>3, <2>4, OrphansOwnership, AdoptOwnership, HeadOwnership,
         CreateOwnership, BindOwnership DEF Run, Cycle
  <1>4. ASSUME NEW e \in Root, NEW s \in Subject, ClaimAnswerLost(e, s) PROVE Ownership'
    BY <1>4, CreateOwnership
  <1> QED
    BY <1>1, <1>2, <1>3, <1>4 DEF Next, Answered

\* What ClaimRace checks of a few roots holds of any number of them: nobody holds
\* a subject another one holds, what is held is claimed at the provider, and a
\* lane in the middle of being bound has the claim and the worktree it is bound to.
THEOREM LanesStayOwned == Spec => []Ownership
  <1> QED
    BY InitTypeOK, StepType, InitOwnership, StepOwnership, PTL DEF Spec

\* However many roots claim, adopt, publish, run and lose lanes of however many
\* issues, whatever steps of their cycles interleave and whichever of them fail:
\* no two of them ever hold the same subject.
THEOREM NeverTwoHolders == Spec => []OneHolder
  <1>1. TypeOK /\ Ownership => OneHolder
    BY DEF Ownership
  <1> QED
    BY <1>1, InitTypeOK, StepType, InitOwnership, StepOwnership, PTL DEF Spec

\* And nothing any of them holds is without its execute branch at the provider.
THEOREM HoldingIsClaimed == Spec => []HeldIsClaimed
  <1>1. TypeOK /\ Ownership => HeldIsClaimed
    BY DEF Ownership
  <1> QED
    BY <1>1, InitTypeOK, StepType, InitOwnership, StepOwnership, PTL DEF Spec
-----------------------------------------------------------------------------
(***************************************************************************)
(* Claiming implements LaneOwnership.                                      *)
(***************************************************************************)

\* A step that leaves what every root holds, and what is claimed, as it was.
LEMMA KeepsLanes ==
  ASSUME UNCHANGED Claims, \A f \in Root : Holding(f)' = Holding(f)
  PROVE  UNCHANGED Lanes!vars
  BY DEF Lanes!vars, Holders

\* A step in which at most one root gives up lanes abandons exactly those.
LEMMA AbandonsLanes ==
  ASSUME TypeOK, Ownership, NEW e \in Root, UNCHANGED Claims,
         Holding(e)' \subseteq Holding(e),
         \A f \in Root \ {e} : Holding(f)' = Holding(f)
  PROVE  [Lanes!Next]_(Lanes!vars)
  <1> DEFINE given == Holding(e) \ Holding(e)'
  <1>1. given \in SUBSET Subject
    BY HoldingType
  <1>2. CASE given = {}
    <2>1. \A f \in Root : Holding(f)' = Holding(f)
      BY <1>2
    <2> QED
      BY <2>1, KeepsLanes
  <1>3. CASE given # {}
    <2>1. \A s \in given : Holders[s] = {e}
      BY <1>1 DEF Holders, Ownership, OneHolder
    <2>2. \A s \in Subject : Holders'[s] = IF s \in given THEN {} ELSE Holders[s]
      <3> SUFFICES ASSUME NEW s \in Subject
                   PROVE  Holders'[s] = IF s \in given THEN {} ELSE Holders[s]
        OBVIOUS
      <3>1. Holders'[s] = {f \in Root : s \in Holding(f)'}
        BY DEF Holders
      <3>2. CASE s \in given
        <4>1. \A f \in Root : s \notin Holding(f)'
          BY <3>2 DEF Ownership, OneHolder
        <4> QED
          BY <3>1, <3>2, <4>1
      <3>3. CASE s \notin given
        BY <3>1, <3>3 DEF Holders
      <3> QED
        BY <3>2, <3>3
    <2>3. Holders' = [s \in Subject |-> IF s \in given THEN {} ELSE Holders[s]]
      BY <2>2 DEF Holders
    <2> HIDE DEF given
    <2>4. Lanes!Abandon(e, given)
      BY <1>3, <2>1, <2>3 DEF Lanes!Abandon
    <2> QED
      BY <1>1, <2>4 DEF Lanes!Next
  <1> QED
    BY <1>2, <1>3

\* Creating the branch is the one step that makes a holder, of a free lane.
LEMMA AcquiresLane ==
  ASSUME TypeOK, Ownership, NEW e \in Root, NEW s \in Subject, CreateRef(e, s)
  PROVE  Lanes!Next
  <1>1. /\ ref[s] = None /\ ref'[s] # None
        /\ \A t \in Subject \ {s} : ref'[t] = ref[t]
    BY DEF CreateRef, Ownership, ClaimHasHead, TypeOK, ProviderTypeOK
  <1>2. s \notin Claims /\ Claims' = Claims \cup {s}
    BY <1>1 DEF Claims
  <1>3. \A f \in Root : s \notin Holding(f)
    BY <1>1 DEF Ownership, HeldIsClaimed
  <1>4. /\ Holding(e)' = Holding(e) \cup {s}
        /\ \A f \in Root \ {e} : Holding(f)' = Holding(f)
    BY DEF CreateRef, Holding, TypeOK, rootVars
  <1>5. Holders[s] = {}
    BY <1>3 DEF Holders
  <1>6. \A t \in Subject : Holders'[t] = IF t = s THEN {e} ELSE Holders[t]
    BY <1>3, <1>4 DEF Holders
  <1>7. Holders' = [Holders EXCEPT ![s] = {e}]
    BY <1>6 DEF Holders
  <1>8. Lanes!Acquire(e, s)
    BY <1>2, <1>5, <1>7 DEF Lanes!Acquire
  <1> QED
    BY <1>8 DEF Lanes!Next

\* The lanes and the authors: no branch comes or goes, and only a dropped order
\* gives a lane up.
LEMMA EnvironmentLanes ==
  ASSUME TypeOK, Ownership, Environment
  PROVE  [Lanes!Next]_(Lanes!vars)
  <1> USE DEF Ownership, LocalHasWorktree, Holding, Claims, TypeOK, ProviderTypeOK,
              githubVars, rootVars
  <1>1. UNCHANGED <<won, created>>
    BY DEF Environment, cycleVars
  <1> DEFINE Kept == UNCHANGED Claims /\ \A f \in Root : Holding(f)' = Holding(f)
  <1>2. ASSUME NEW e \in Root, PromoteOrders(e) PROVE Kept
    BY <1>1, <1>2 DEF PromoteOrders
  <1>3. ASSUME NEW e \in Root, NEW s \in Subject, StartSession(e, s) PROVE Kept
    BY <1>1, <1>3, Values DEF StartSession
  <1>4. ASSUME NEW e \in Root, NEW s \in Subject, LoseSession(e, s) PROVE Kept
    BY <1>1, <1>4 DEF LoseSession
  <1>5. ASSUME NEW e \in Root, NEW s \in Subject, PushCommit(e, s) PROVE Kept
    <2>1. s \in Holding(e) /\ worktree[e][s] # None
      BY <1>5 DEF PushCommit
    <2>2. ref[s] # None
      BY <2>1 DEF HeldIsClaimed
    <2>3. UNCHANGED Claims
      BY <1>5, <2>2, ProviderValues DEF PushCommit
    <2>4. \A f \in Root : Holding(f)' = Holding(f)
      BY <1>1, <1>5, <2>1, ProviderValues DEF PushCommit
    <2> QED
      BY <2>3, <2>4
  <1>6. ASSUME UNCHANGED <<ref, rootVars>> PROVE Kept
    BY <1>1, <1>6
  <1>7. Author => UNCHANGED <<ref, rootVars>>
    BY DEF Author, EditBody, ForeignPullRequest
  <1>8. \A s \in Subject :
            /\ LandPullRequest(s) => UNCHANGED <<ref, rootVars>>
            /\ \A e \in Root : OpenPullRequest(e, s) \/ ExecuteHandoff(e, s)
                                  => UNCHANGED <<ref, rootVars>>
    BY DEF LandPullRequest, OpenPullRequest, ExecuteHandoff
  <1>9. ASSUME NEW e \in Root, NEW s \in Subject, DropOrder(e, s)
        PROVE  [Lanes!Next]_(Lanes!vars)
    <2>1. UNCHANGED Claims /\ Holding(e)' \subseteq Holding(e)
      BY <1>1, <1>9 DEF DropOrder
    <2>2. \A f \in Root \ {e} : Holding(f)' = Holding(f)
      BY <1>1, <1>9 DEF DropOrder
    <2> HIDE DEF Ownership, Holding, Claims, TypeOK
    <2> QED
      BY <2>1, <2>2, AbandonsLanes
  <1> HIDE DEF Kept, Ownership, Holding, Claims, TypeOK
  <1>10. Kept => UNCHANGED Lanes!vars
    BY KeepsLanes DEF Kept
  <1> QED
    BY <1>2, <1>3, <1>4, <1>5, <1>6, <1>7, <1>8, <1>9, <1>10 DEF Environment, Lane

\* A cycle's end drops what it had claimed and replaces what was published; its
\* other steps but the claim leave the lanes alone.
LEMMA CycleLanes ==
  ASSUME TypeOK, Ownership, NEW e \in Root, Run(e)
  PROVE  [Lanes!Next]_(Lanes!vars)
  <1> DEFINE Kept == UNCHANGED Claims /\ \A f \in Root : Holding(f)' = Holding(f)
  <1>1. Kept => UNCHANGED Lanes!vars
    BY KeepsLanes
  <1>2. ASSUME UNCHANGED <<githubVars, rootVars, won, created>> PROVE Kept
    BY <1>2 DEF Claims, Holding, githubVars, rootVars
  <1>3. ASSUME \/ SnapshotRefs(e) \/ SnapshotIssues(e) \/ SnapshotOrphans(e) \/ FreshRefs(e)
               \/ ReadDefaultHead(e) \/ FinishCandidates(e) \/ ValidateOutput(e)
               \/ \E proposal \in SUBSET Subject : Begin(e, proposal)
        PROVE  UNCHANGED <<githubVars, rootVars, won, created>>
    BY <1>3 DEF SnapshotRefs, SnapshotIssues, SnapshotOrphans, FreshRefs, ReadDefaultHead,
                FinishCandidates, ValidateOutput, Begin, Claimed
  <1>4. ASSUME NEW s \in Subject,
               \/ TakeCandidate(e, s) \/ FreshIssues(e, s) \/ ReadContract(e, s)
               \/ ReadPullRequests(e, s) \/ AdoptHeld(e, s) \/ AdoptOrphan(e, s)
               \/ ClaimTaken(e, s)
        PROVE  UNCHANGED <<githubVars, rootVars, won, created>>
    BY <1>4 DEF TakeCandidate, FreshIssues, ReadContract, ReadPullRequests, AdoptHeld,
                AdoptOrphan, ClaimTaken, Claimed
  <1>5. ASSUME NEW s \in Subject, AdoptPublished(e, s) PROVE Kept
    BY <1>5 DEF AdoptPublished, Claims, Holding, githubVars, rootVars, TypeOK
  <1>6. ASSUME NEW s \in Subject, BindOrder(e, s) PROVE Kept
    <2>1. s \in Holding(e)
      BY <1>6 DEF BindOrder, Ownership, BoundIsOwned, LocalHasWorktree, Holding
    <2> QED
      BY <1>6, <2>1 DEF BindOrder, Claims, Holding, githubVars, rootVars, TypeOK
  <1>7. ASSUME NEW s \in Subject, ClaimCreated(e, s) PROVE Lanes!Next
    BY <1>7, AcquiresLane DEF ClaimCreated
  <1>8. ASSUME \/ OutputRejected(e) \/ PublishOutput(e) \/ CycleFails(e)
               \/ \E s \in Subject : ContractRaises(e, s)
        PROVE  [Lanes!Next]_(Lanes!vars)
    <2>1. /\ EndCycle(e) /\ UNCHANGED <<githubVars, active, worktree, live>>
          /\ \/ UNCHANGED ordersNext
             \/ ordersNext' = [ordersNext EXCEPT ![e] = won[e]]
      BY <1>8 DEF OutputRejected, PublishOutput, CycleFails, ContractRaises, rootVars
    <2>2. UNCHANGED Claims
      BY <2>1 DEF Claims, githubVars
    <2>3. Holding(e)' \subseteq Holding(e)
      BY <2>1 DEF EndCycle, Holding, TypeOK, ProviderTypeOK
    <2>4. \A f \in Root \ {e} : Holding(f)' = Holding(f)
      BY <2>1 DEF EndCycle, Holding, TypeOK, ProviderTypeOK
    <2> QED
      BY <2>2, <2>3, <2>4, AbandonsLanes
  <1> HIDE DEF Kept
  <1> QED
    BY <1>1, <1>2, <1>3, <1>4, <1>5, <1>6, <1>7, <1>8 DEF Run, Cycle

\* The cycles of any number of roots, whatever interleaves with them and wherever
\* they fail, are behaviours of the lane lock: a lane changes hands only through
\* the creation of its branch, and one given up is never taken again.
THEOREM ImplementsLaneOwnership == Spec => OwnsLanes
  <1>1. Init => Lanes!Init
    <2> SUFFICES ASSUME Init PROVE Lanes!Init
      OBVIOUS
    <2>1. \A e \in Root : Holding(e) = {}
      BY DEF Init, ProviderInit, Holding
    <2> QED
      BY <2>1 DEF Init, ProviderInit, Lanes!Init, Claims, Holders
  <1>2. TypeOK /\ Ownership /\ [Next]_vars => [Lanes!Next]_(Lanes!vars)
    <2> SUFFICES ASSUME TypeOK, Ownership, [Next]_vars PROVE [Lanes!Next]_(Lanes!vars)
      OBVIOUS
    <2>1. CASE UNCHANGED vars
      BY <2>1, KeepsLanes DEF vars, cycleVars, githubVars, rootVars, Claims, Holding
    <2>2. ASSUME NEW e \in Root, NEW s \in Subject, ClaimAnswerLost(e, s) PROVE Lanes!Next
      BY <2>2, AcquiresLane DEF ClaimAnswerLost
    <2> QED
      BY <2>1, <2>2, EnvironmentLanes, CycleLanes DEF Next, Answered
  <1> QED
    BY <1>1, <1>2, InitTypeOK, StepType, InitOwnership, StepOwnership, PTL
    DEF Spec, OwnsLanes, Lanes!Spec
-----------------------------------------------------------------------------
(***************************************************************************)
(* Components: what the frontier makes of the dependency edges.            *)
(***************************************************************************)

LEMMA ComponentHasSelf ==
  ASSUME NEW N, NEW E, NEW s \in N
  PROVE  s \in Component(s, N, E)
  BY DEF Component

\* The edges are taken both ways, so a closed set's complement is closed.
LEMMA ComponentSymmetric ==
  ASSUME NEW N, NEW E, NEW s \in N, NEW t \in Component(s, N, E)
  PROVE  s \in Component(t, N, E)
  <1> SUFFICES ASSUME NEW C \in SUBSET N, t \in C, Closed(C, N, E), s \notin C
               PROVE  FALSE
    BY DEF Component
  <1>1. Closed(N \ C, N, E)
    BY DEF Closed
  <1>2. t \in N \ C
    BY <1>1 DEF Component
  <1> QED
    BY <1>2

LEMMA ComponentTransitive ==
  ASSUME NEW N, NEW E, NEW s, NEW t \in Component(s, N, E),
         NEW u \in Component(t, N, E)
  PROVE  u \in Component(s, N, E)
  BY DEF Component

LEMMA ComponentHasNeighbours ==
  ASSUME NEW N, NEW E, NEW s, NEW t \in Component(s, N, E), NEW u \in N,
         <<t, u>> \in E \/ <<u, t>> \in E
  PROVE  u \in Component(s, N, E)
  <1> SUFFICES ASSUME NEW C \in SUBSET N, s \in C, Closed(C, N, E)
               PROVE  u \in C
    BY DEF Component
  <1>1. t \in C /\ t \in N
    BY DEF Component
  <1> QED
    BY <1>1 DEF Closed

\* Components only fall apart when a node goes ...
LEMMA ComponentShrinks ==
  ASSUME NEW N, NEW E, NEW fewer \in SUBSET N, NEW s \in fewer
  PROVE  Component(s, fewer, E) \subseteq Component(s, N, E)
  <1> SUFFICES ASSUME NEW t \in Component(s, fewer, E), NEW C \in SUBSET N,
                      s \in C, Closed(C, N, E)
               PROVE  t \in C
    BY DEF Component
  <1>1. Closed(C \cap fewer, fewer, E)
    BY DEF Closed
  <1>2. C \cap fewer \in SUBSET fewer /\ s \in C \cap fewer
    OBVIOUS
  <1> QED
    BY <1>1, <1>2 DEF Component

\* ... and those the node is not in stay as they are.
LEMMA ComponentApart ==
  ASSUME NEW N, NEW E, NEW s \in N, NEW d, d # s,
         d \notin Component(s, N, E)
  PROVE  Component(s, N \ {d}, E) = Component(s, N, E)
  <1> DEFINE whole == Component(s, N, E)
  <1>1. Component(s, N \ {d}, E) \subseteq whole
    BY ComponentShrinks
  <1>2. ASSUME NEW t \in whole, NEW C \in SUBSET (N \ {d}),
               s \in C, Closed(C, N \ {d}, E)
        PROVE  t \in C
    <2>1. \A a \in whole, b \in N : <<a, b>> \in E \/ <<b, a>> \in E => b \in whole
      BY ComponentHasNeighbours
    <2>2. whole \subseteq N /\ d \notin whole /\ s \in whole
      BY ComponentHasSelf DEF Component
    <2> HIDE DEF whole
    <2>3. Closed(C \cap whole, N, E)
      <3> SUFFICES ASSUME NEW a \in C \cap whole, NEW b \in N,
                          <<a, b>> \in E \/ <<b, a>> \in E
                   PROVE  b \in C \cap whole
        BY DEF Closed
      <3>1. b \in whole
        BY <2>1
      <3>2. a \in N \ {d} /\ b \in N \ {d}
        BY <2>2, <3>1
      <3>3. b \in C
        BY <1>2, <3>2 DEF Closed
      <3> QED
        BY <3>1, <3>3
    <2>4. \A D \in SUBSET N : s \in D /\ Closed(D, N, E) => t \in D
      BY <1>2 DEF Component, whole
    <2> QED
      BY <1>2, <2>2, <2>3, <2>4
  <1>3. whole \subseteq Component(s, N \ {d}, E)
    <2>1. whole \subseteq N \ {d}
      BY DEF Component
    <2> HIDE DEF whole
    <2> QED
      BY <1>2, <2>1 DEF Component
  <1> QED
    BY <1>1, <1>3
-----------------------------------------------------------------------------
(***************************************************************************)
(* What a step of a cycle may do to the provider, to the other cycles and  *)
(* to where its own candidate stands.                                      *)
(***************************************************************************)

CycleStep(e) == Run(e) \/ \E s \in Subject : ClaimAnswerLost(e, s)

\* The steps that judge the candidate and those that adopt or claim it, apart.
LEMMA CycleStepCases ==
  ASSUME NEW e \in Root, CycleStep(e)
  PROVE  \/ SnapshotRefs(e) \/ SnapshotIssues(e) \/ SnapshotOrphans(e)
         \/ FreshRefs(e) \/ ReadDefaultHead(e)
         \/ FinishCandidates(e) \/ ValidateOutput(e)
         \/ \E proposal \in SUBSET Subject : Begin(e, proposal)
         \/ OutputRejected(e) \/ PublishOutput(e) \/ CycleFails(e)
         \/ \E s \in Subject : ContractRaises(e, s)
         \/ \E s \in Subject : TakeCandidate(e, s)
         \/ \E s \in Subject : FreshIssues(e, s) \/ ReadContract(e, s) \/ ReadPullRequests(e, s)
         \/ \E s \in Subject : AdoptHeld(e, s) \/ AdoptPublished(e, s) \/ AdoptOrphan(e, s)
         \/ \E s \in Subject : ClaimTaken(e, s) \/ BindOrder(e, s)
         \/ \E s \in Subject : ClaimCreated(e, s) \/ ClaimAnswerLost(e, s)
  BY DEF CycleStep, Run, Cycle

LEMMA OnlyClaimsWrite ==
  ASSUME TypeOK, NEW e \in Root, CycleStep(e)
  PROVE  /\ UNCHANGED <<open, body, pr>>
         /\ UNCHANGED ref \/ \E s \in Subject : CreateRef(e, s) /\ pc'[e] \in {"next", "bind"}
  <1> USE DEF githubVars, rootVars
  <1>1. ASSUME \/ SnapshotRefs(e) \/ SnapshotIssues(e) \/ SnapshotOrphans(e)
               \/ FreshRefs(e) \/ ReadDefaultHead(e)
               \/ FinishCandidates(e) \/ ValidateOutput(e)
               \/ \E proposal \in SUBSET Subject : Begin(e, proposal)
        PROVE  UNCHANGED <<open, body, pr, ref>>
    BY <1>1 DEF SnapshotRefs, SnapshotIssues, SnapshotOrphans, FreshRefs, ReadDefaultHead,
                FinishCandidates, ValidateOutput, Begin
  <1>2. ASSUME \/ OutputRejected(e) \/ PublishOutput(e) \/ CycleFails(e)
               \/ \E s \in Subject : ContractRaises(e, s)
        PROVE  UNCHANGED <<open, body, pr, ref>>
    BY <1>2 DEF OutputRejected, PublishOutput, CycleFails, ContractRaises
  <1>3. ASSUME NEW s \in Subject,
               \/ TakeCandidate(e, s) \/ FreshIssues(e, s) \/ ReadContract(e, s)
               \/ ReadPullRequests(e, s) \/ AdoptHeld(e, s) \/ AdoptPublished(e, s)
               \/ AdoptOrphan(e, s) \/ ClaimTaken(e, s) \/ BindOrder(e, s)
        PROVE  UNCHANGED <<open, body, pr, ref>>
    BY <1>3 DEF TakeCandidate, FreshIssues, ReadContract, ReadPullRequests, AdoptHeld,
                AdoptPublished, AdoptOrphan, ClaimTaken, BindOrder
  <1>4. ASSUME NEW s \in Subject, ClaimCreated(e, s) \/ ClaimAnswerLost(e, s)
        PROVE  /\ UNCHANGED <<open, body, pr>>
               /\ CreateRef(e, s) /\ pc'[e] \in {"next", "bind"}
    BY <1>4 DEF ClaimCreated, ClaimAnswerLost, CreateRef, Go, Leave, TypeOK
  <1> QED
    BY <1>1, <1>2, <1>3, <1>4, CycleStepCases

LEMMA OthersKept ==
  ASSUME TypeOK, NEW e \in Root, CycleStep(e), NEW f \in Root \ {e}
  PROVE  /\ pc'[f] = pc[f] /\ outcome'[f] = outcome[f]
         /\ orphans'[f] = orphans[f] /\ seen'[f] = seen[f]
         /\ won'[f] = won[f] /\ created'[f] = created[f]
  <1>1. ASSUME \/ SnapshotRefs(e) \/ SnapshotIssues(e) \/ SnapshotOrphans(e)
               \/ FreshRefs(e) \/ ReadDefaultHead(e)
               \/ FinishCandidates(e) \/ ValidateOutput(e)
               \/ \E proposal \in SUBSET Subject : Begin(e, proposal)
        PROVE  /\ pc'[f] = pc[f] /\ outcome'[f] = outcome[f]
               /\ orphans'[f] = orphans[f] /\ seen'[f] = seen[f]
               /\ won'[f] = won[f] /\ created'[f] = created[f]
    BY <1>1 DEF SnapshotRefs, SnapshotIssues, SnapshotOrphans, FreshRefs, ReadDefaultHead,
                FinishCandidates, ValidateOutput, Begin, Go, Reads, Decided, Claimed, TypeOK
  <1>2. ASSUME \/ OutputRejected(e) \/ PublishOutput(e) \/ CycleFails(e)
               \/ \E s \in Subject : ContractRaises(e, s)
        PROVE  /\ pc'[f] = pc[f] /\ outcome'[f] = outcome[f]
               /\ orphans'[f] = orphans[f] /\ seen'[f] = seen[f]
               /\ won'[f] = won[f] /\ created'[f] = created[f]
    BY <1>2 DEF OutputRejected, PublishOutput, CycleFails, ContractRaises, EndCycle, TypeOK
  <1>3. ASSUME NEW s \in Subject,
               \/ TakeCandidate(e, s) \/ FreshIssues(e, s) \/ ReadContract(e, s)
               \/ ReadPullRequests(e, s)
        PROVE  /\ pc'[f] = pc[f] /\ outcome'[f] = outcome[f]
               /\ orphans'[f] = orphans[f] /\ seen'[f] = seen[f]
               /\ won'[f] = won[f] /\ created'[f] = created[f]
    BY <1>3 DEF TakeCandidate, FreshIssues, ReadContract, ReadPullRequests,
                Go, Leave, Reads, Decided, Claimed, TypeOK
  <1>4. ASSUME NEW s \in Subject,
               \/ AdoptHeld(e, s) \/ AdoptPublished(e, s) \/ AdoptOrphan(e, s)
               \/ ClaimTaken(e, s) \/ BindOrder(e, s)
               \/ ClaimCreated(e, s) \/ ClaimAnswerLost(e, s)
        PROVE  /\ pc'[f] = pc[f] /\ outcome'[f] = outcome[f]
               /\ orphans'[f] = orphans[f] /\ seen'[f] = seen[f]
               /\ won'[f] = won[f] /\ created'[f] = created[f]
    BY <1>4 DEF AdoptHeld, AdoptPublished, AdoptOrphan, ClaimTaken, BindOrder, ClaimCreated,
                ClaimAnswerLost, CreateRef, Go, Leave, Reads, Decided, Claimed, TypeOK
  <1> QED
    BY <1>1, <1>2, <1>3, <1>4, CycleStepCases

\* The steps into the frontier check and past it.
LEMMA CandidateAdvances ==
  ASSUME TypeOK, NEW e \in Root, CycleStep(e),
         pc'[e] \in {"freshIssues", "contract", "pullRequests", "head", "claim"}
  PROVE  \/ FreshRefs(e) \/ ReadDefaultHead(e)
         \/ \E s \in Subject : FreshIssues(e, s) \/ ReadContract(e, s) \/ ReadPullRequests(e, s)
  <1> DEFINE Past == {"freshIssues", "contract", "pullRequests", "head", "claim"}
  <1>1. ASSUME \/ SnapshotRefs(e) \/ SnapshotIssues(e) \/ SnapshotOrphans(e)
               \/ FinishCandidates(e) \/ ValidateOutput(e)
               \/ \E proposal \in SUBSET Subject : Begin(e, proposal)
               \/ OutputRejected(e) \/ PublishOutput(e) \/ CycleFails(e)
               \/ \E s \in Subject : ContractRaises(e, s)
        PROVE  pc'[e] \notin Past
    BY <1>1 DEF SnapshotRefs, SnapshotIssues, SnapshotOrphans, FinishCandidates,
                ValidateOutput, Begin, Go, OutputRejected, PublishOutput, CycleFails,
                ContractRaises, EndCycle, TypeOK
  <1>2. ASSUME NEW s \in Subject,
               \/ TakeCandidate(e, s)
               \/ AdoptHeld(e, s) \/ AdoptPublished(e, s) \/ AdoptOrphan(e, s)
               \/ ClaimTaken(e, s) \/ BindOrder(e, s)
               \/ ClaimCreated(e, s) \/ ClaimAnswerLost(e, s)
        PROVE  pc'[e] \notin Past
    BY <1>2 DEF TakeCandidate, AdoptHeld, AdoptPublished, AdoptOrphan, ClaimTaken, BindOrder,
                ClaimCreated, ClaimAnswerLost, Go, Leave, TypeOK
  <1> QED
    BY <1>1, <1>2, CycleStepCases
LEMMA CandidateStays ==
  ASSUME TypeOK, NEW e \in Root, CycleStep(e), NEW s \in Subject, Candidate(e, s)',
         pc'[e] \in {"freshIssues", "contract", "pullRequests", "head", "claim"}
  PROVE  /\ Candidate(e, s) /\ orphans'[e] = orphans[e]
         /\ pc'[e] = "freshIssues" => seen'[e] = Claims
         /\ pc'[e] = "contract" => pc[e] = "freshIssues" /\ StillAdmitted(e, s)
         /\ pc'[e] = "pullRequests" => pc[e] = "contract" /\ Schedulable(s)
         /\ pc'[e] = "head" => /\ pc[e] = "pullRequests" /\ ~IsOrphan(e, s)
                               /\ ~MatchingOpenPullRequest(s)
         /\ pc'[e] = "claim" => pc[e] = "head"
  <1>1. CASE FreshRefs(e) \/ ReadDefaultHead(e)
    BY <1>1 DEF FreshRefs, ReadDefaultHead, Go, Decided, Candidate, TypeOK
  <1>2. ASSUME NEW t \in Subject, FreshIssues(e, t) PROVE
            /\ pc'[e] = "contract" /\ pc[e] = "freshIssues" /\ StillAdmitted(e, t)
            /\ Candidate(e, t) /\ outcome' = outcome /\ orphans' = orphans
    BY <1>2 DEF FreshIssues, Go, Leave, Decided, TypeOK
  <1>3. ASSUME NEW t \in Subject, ReadContract(e, t) PROVE
            /\ pc'[e] = "pullRequests" /\ pc[e] = "contract" /\ Schedulable(t)
            /\ Candidate(e, t) /\ outcome' = outcome /\ orphans' = orphans
    BY <1>3 DEF ReadContract, ContractVerdict, Go, Leave, Decided, TypeOK
  <1>4. ASSUME NEW t \in Subject, ReadPullRequests(e, t) PROVE
            /\ pc'[e] = "head" /\ pc[e] = "pullRequests" /\ ~IsOrphan(e, t)
            /\ ~MatchingOpenPullRequest(t)
            /\ Candidate(e, t) /\ outcome' = outcome /\ orphans' = orphans
    BY <1>4 DEF ReadPullRequests, AdmittedStep, Go, Leave, Decided, TypeOK
  <1>5. outcome' = outcome => Candidate(e, s)
    BY DEF Candidate
  <1> QED
    BY <1>1, <1>2, <1>3, <1>4, <1>5, CandidateAdvances, OneCandidate

LEMMA NextCases ==
  ASSUME [Next]_vars
  PROVE  UNCHANGED vars \/ Environment \/ \E e \in Root : CycleStep(e)
  BY DEF Next, Answered, CycleStep

\* No branch goes, and only a cycle's claim makes one.
LEMMA EnvironmentClaims ==
  ASSUME TypeOK, Ownership, Environment
  PROVE  \A s \in Subject : ref'[s] = None <=> ref[s] = None
  <1> USE DEF TypeOK, ProviderTypeOK, githubVars
  <1>1. ASSUME NEW e \in Root, NEW s \in Subject, PushCommit(e, s)
        PROVE  \A t \in Subject : ref'[t] = None <=> ref[t] = None
    <2>1. ref[s] # None
      BY <1>1 DEF PushCommit, Ownership, LocalHasWorktree, HeldIsClaimed, Holding
    <2> QED
      BY <1>1, <2>1, ProviderValues DEF PushCommit
  <1>2. ASSUME NEW e \in Root, PromoteOrders(e) PROVE UNCHANGED ref
    BY <1>2 DEF PromoteOrders
  <1>3. ASSUME NEW e \in Root, NEW s \in Subject,
               \/ StartSession(e, s) \/ LoseSession(e, s) \/ DropOrder(e, s)
               \/ OpenPullRequest(e, s) \/ ExecuteHandoff(e, s)
        PROVE  UNCHANGED ref
    BY <1>3 DEF StartSession, LoseSession, DropOrder, OpenPullRequest, ExecuteHandoff
  <1>4. ASSUME NEW s \in Subject, LandPullRequest(s) PROVE UNCHANGED ref
    BY <1>4 DEF LandPullRequest
  <1>5. Author => UNCHANGED ref
    BY DEF Author, EditBody, ForeignPullRequest
  <1> QED
    BY <1>1, <1>2, <1>3, <1>4, <1>5 DEF Environment, Lane
-----------------------------------------------------------------------------
(***************************************************************************)
(* What a lane waits for has landed before it is claimed.                  *)
(***************************************************************************)

\* What the lanes and the authors may do to the issues.
LEMMA IssueSteps ==
  ASSUME Environment
  PROVE  \/ UNCHANGED <<open, body, pr>>
         \/ \E s \in Subject : UNCHANGED <<open, body>> /\ open[s]
                               /\ \E p \in {"none", "lane", "foreign"} : pr' = [pr EXCEPT ![s] = p]
         \/ \E e \in Root, s \in Subject : ExecuteHandoff(e, s)
         \/ \E s \in Subject : LandPullRequest(s)
         \/ \E s \in Subject, b \in Rewritten : EditBody(s, b)
  <1> USE DEF githubVars
  <1>1. ASSUME NEW e \in Root, PromoteOrders(e) PROVE UNCHANGED <<open, body, pr>>
    BY <1>1 DEF PromoteOrders
  <1>2. ASSUME NEW e \in Root, NEW s \in Subject,
               \/ StartSession(e, s) \/ LoseSession(e, s) \/ DropOrder(e, s)
               \/ PushCommit(e, s)
        PROVE  UNCHANGED <<open, body, pr>>
    BY <1>2 DEF StartSession, LoseSession, DropOrder, PushCommit
  <1>3. ASSUME NEW s \in Subject,
               (\E e \in Root : OpenPullRequest(e, s)) \/ ForeignPullRequest(s)
        PROVE  /\ UNCHANGED <<open, body>> /\ open[s]
               /\ \E p \in {"none", "lane", "foreign"} : pr' = [pr EXCEPT ![s] = p]
    BY <1>3 DEF OpenPullRequest, ForeignPullRequest
  <1> QED
    BY <1>1, <1>2, <1>3 DEF Environment, Lane, Author

LEMMA LanePullRequestsStayOpen ==
  ASSUME TypeOK, LanePullRequestsOpen, [Next]_vars
  PROVE  LanePullRequestsOpen'
  <1> USE DEF LanePullRequestsOpen, TypeOK, ProviderTypeOK
  <1>1. CASE UNCHANGED <<open, pr>>
    BY <1>1
  <1>2. ASSUME NEW s \in Subject, UNCHANGED open, open[s],
               \E p \in {"none", "lane", "foreign"} : pr' = [pr EXCEPT ![s] = p]
        PROVE  LanePullRequestsOpen'
    BY <1>2
  <1>3. ASSUME NEW s \in Subject, LandPullRequest(s) PROVE LanePullRequestsOpen'
    BY <1>3 DEF LandPullRequest
  <1>4. ASSUME NEW s \in Subject,
               (\E e \in Root : ExecuteHandoff(e, s)) \/ \E b \in Rewritten : EditBody(s, b)
        PROVE  UNCHANGED <<open, pr>>
    BY <1>4 DEF ExecuteHandoff, EditBody
  <1>5. (UNCHANGED vars \/ \E e \in Root : CycleStep(e)) => UNCHANGED <<open, pr>>
    BY OnlyClaimsWrite DEF vars, githubVars
  <1> QED
    BY <1>1, <1>2, <1>3, <1>4, <1>5, NextCases, IssueSteps

\* A landed issue has no open pull request to hand off or to land, and authors
\* edit open issues only.
LEMMA LandedStays ==
  ASSUME TypeOK, LanePullRequestsOpen, [Next]_vars, NEW d \in Subject, Landed(d)
  PROVE  Landed(d)'
  <1> USE DEF Landed, TypeOK, ProviderTypeOK
  <1>1. CASE UNCHANGED <<open, body>>
    BY <1>1
  <1>2. ASSUME NEW s \in Subject, LandPullRequest(s) PROVE Landed(d)'
    BY <1>2 DEF LandPullRequest
  <1>3. ASSUME NEW s \in Subject,
               (\E e \in Root : ExecuteHandoff(e, s)) \/ \E b \in Rewritten : EditBody(s, b)
        PROVE  Landed(d)'
    BY <1>3 DEF ExecuteHandoff, EditBody, LanePullRequestsOpen
  <1>4. (UNCHANGED vars \/ \E e \in Root : CycleStep(e)) => UNCHANGED <<open, body>>
    BY OnlyClaimsWrite DEF vars, githubVars
  <1> QED
    BY <1>1, <1>2, <1>3, <1>4, NextCases, IssueSteps

LEMMA InitDependency == Init => DependencyInv
  BY DEF Init, ProviderInit, DependencyInv, LanePullRequestsOpen, ClaimedDependenciesLanded,
         Claims

LEMMA StepDependency ==
  ASSUME TypeOK, Ownership, DependencyInv, [Next]_vars
  PROVE  DependencyInv'
  <1>1. LanePullRequestsOpen /\ LanePullRequestsOpen'
    BY LanePullRequestsStayOpen DEF DependencyInv
  <1>2. \A s \in Subject : DependenciesLanded(s) => DependenciesLanded(s)'
    BY <1>1, LandedStays DEF DependenciesLanded
  <1> DEFINE Read(e, s) == pc[e] \in {"pullRequests", "head", "claim"} /\ Candidate(e, s)
  <1>3. \A e \in Root, s \in Subject : Read(e, s) => DependenciesLanded(s)
    BY DEF DependencyInv
  <1>4. ASSUME NEW s \in Subject, ref'[s] # None PROVE DependenciesLanded(s)'
    <2>1. CASE ref[s] # None
      BY <1>2, <2>1 DEF DependencyInv, ClaimedDependenciesLanded, Claims
    <2>2. ASSUME NEW e \in Root, CycleStep(e), ref[s] = None PROVE DependenciesLanded(s)'
      <3>1. CreateRef(e, s)
        BY <1>4, <2>2, OnlyClaimsWrite DEF CreateRef, TypeOK, ProviderTypeOK
      <3> QED
        BY <1>2, <1>3, <3>1 DEF CreateRef
    <2>3. UNCHANGED vars => ref'[s] = ref[s]
      BY DEF vars, githubVars
    <2> QED
      BY <1>4, <2>1, <2>2, <2>3, EnvironmentClaims, NextCases
  <1>5. ASSUME NEW f \in Root, NEW s \in Subject, Read(f, s)' PROVE DependenciesLanded(s)'
    <2>1. CASE Read(f, s)
      BY <1>2, <1>3, <2>1
    <2>2. ASSUME NEW e \in Root, CycleStep(e), f # e PROVE Read(f, s)
      BY <1>5, <2>2, OthersKept DEF Candidate
    <2>3. ASSUME CycleStep(f) PROVE Read(f, s) \/ DependenciesLanded(s)
      BY <1>5, <2>3, CandidateStays DEF Schedulable
    <2>4. UNCHANGED cycleVars => Read(f, s)
      BY <1>5 DEF cycleVars, Candidate
    <2> QED
      BY <1>2, <2>1, <2>2, <2>3, <2>4, NextCases DEF vars, Environment
  <1> QED
    BY <1>1, <1>4, <1>5 DEF DependencyInv, ClaimedDependenciesLanded, Claims

\* However the authors edit, the lanes land and the cycles of any number of roots
\* interleave: whatever is claimed depends on nothing but landed, closed issues.
THEOREM DependenciesLandFirst == Spec => []ClaimedDependenciesLanded
  <1>1. DependencyInv => ClaimedDependenciesLanded
    BY DEF DependencyInv
  <1>2. TypeOK /\ Ownership /\ DependencyInv /\ [Next]_vars => DependencyInv'
    BY StepDependency
  <1> QED
    BY <1>1, <1>2, InitTypeOK, StepType, InitOwnership, StepOwnership, InitDependency, PTL
    DEF Spec
-----------------------------------------------------------------------------
(***************************************************************************)
(* A pull request from elsewhere that stands while the cycle judges keeps  *)
(* its subject from being claimed.                                         *)
(***************************************************************************)

Passed == {"adopt", "head", "claim", "bind"}

\* The only way past the pull requests is to have read them.
LEMMA PassedByReading ==
  ASSUME TypeOK, NEW e \in Root, CycleStep(e), pc'[e] \in Passed
  PROVE  pc[e] \in Passed \/ \E s \in Subject : ReadPullRequests(e, s)
  <1>1. ASSUME \/ SnapshotRefs(e) \/ SnapshotIssues(e) \/ SnapshotOrphans(e)
               \/ FreshRefs(e) \/ FinishCandidates(e) \/ ValidateOutput(e)
               \/ \E proposal \in SUBSET Subject : Begin(e, proposal)
               \/ OutputRejected(e) \/ PublishOutput(e) \/ CycleFails(e)
               \/ \E s \in Subject : ContractRaises(e, s)
        PROVE  pc'[e] \notin Passed
    BY <1>1 DEF SnapshotRefs, SnapshotIssues, SnapshotOrphans, FreshRefs, FinishCandidates,
                ValidateOutput, Begin, Go, OutputRejected, PublishOutput, CycleFails,
                ContractRaises, EndCycle, TypeOK, Passed
  <1>2. ASSUME NEW s \in Subject, TakeCandidate(e, s) \/ FreshIssues(e, s) \/ ReadContract(e, s)
        PROVE  pc'[e] \notin Passed
    BY <1>2 DEF TakeCandidate, FreshIssues, ReadContract, Go, Leave, TypeOK, Passed
  <1>3. ASSUME NEW s \in Subject,
               \/ AdoptHeld(e, s) \/ AdoptPublished(e, s) \/ AdoptOrphan(e, s)
               \/ ClaimTaken(e, s) \/ BindOrder(e, s)
               \/ ClaimCreated(e, s) \/ ClaimAnswerLost(e, s)
        PROVE  pc[e] \in Passed
    BY <1>3 DEF AdoptHeld, AdoptPublished, AdoptOrphan, ClaimTaken, BindOrder,
                ClaimCreated, ClaimAnswerLost, CreateRef, Passed
  <1>4. ReadDefaultHead(e) => pc[e] \in Passed
    BY DEF ReadDefaultHead, Passed
  <1> QED
    BY <1>1, <1>2, <1>3, <1>4, CycleStepCases

\* What a cycle counts as its own grows past the read only.
LEMMA ClaimsPassed ==
  ASSUME TypeOK, [Next]_vars, NEW e \in Root
  PROVE  \/ pc[e] \in Passed
         \/ created'[e] \cup won'[e] \subseteq created[e] \cup won[e]
  <1>1. CASE UNCHANGED cycleVars
    BY <1>1 DEF cycleVars
  <1>2. ASSUME NEW f \in Root, CycleStep(f), e # f
        PROVE  won'[e] = won[e] /\ created'[e] = created[e]
    BY <1>2, OthersKept
  <1>3. ASSUME CycleStep(e)
        PROVE  \/ pc[e] \in Passed
               \/ created'[e] \cup won'[e] \subseteq created[e] \cup won[e]
    <2>1. ASSUME \/ SnapshotRefs(e) \/ SnapshotIssues(e) \/ SnapshotOrphans(e)
                 \/ FreshRefs(e) \/ FinishCandidates(e) \/ ValidateOutput(e)
                 \/ ReadDefaultHead(e)
                 \/ \E proposal \in SUBSET Subject : Begin(e, proposal)
          PROVE  UNCHANGED <<won, created>>
      BY <2>1 DEF SnapshotRefs, SnapshotIssues, SnapshotOrphans, FreshRefs, FinishCandidates,
                  ValidateOutput, ReadDefaultHead, Begin, Claimed
    <2>2. ASSUME \/ OutputRejected(e) \/ PublishOutput(e) \/ CycleFails(e)
                 \/ \E s \in Subject : ContractRaises(e, s)
          PROVE  won'[e] = {} /\ created'[e] = {}
      BY <2>2 DEF OutputRejected, PublishOutput, CycleFails, ContractRaises, EndCycle, TypeOK
    <2>3. ASSUME NEW s \in Subject,
                 \/ TakeCandidate(e, s) \/ FreshIssues(e, s) \/ ReadContract(e, s)
                 \/ ReadPullRequests(e, s)
          PROVE  UNCHANGED <<won, created>>
      BY <2>3 DEF TakeCandidate, FreshIssues, ReadContract, ReadPullRequests, Claimed
    <2>4. ASSUME NEW s \in Subject,
                 \/ AdoptHeld(e, s) \/ AdoptPublished(e, s) \/ AdoptOrphan(e, s)
                 \/ ClaimTaken(e, s) \/ BindOrder(e, s)
                 \/ ClaimCreated(e, s) \/ ClaimAnswerLost(e, s)
          PROVE  pc[e] \in Passed
      BY <2>4 DEF AdoptHeld, AdoptPublished, AdoptOrphan, ClaimTaken, BindOrder,
                  ClaimCreated, ClaimAnswerLost, CreateRef, Passed
    <2> QED
      BY <1>3, <2>1, <2>2, <2>3, <2>4, CycleStepCases
  <1> QED
    BY <1>1, <1>2, <1>3, NextCases DEF vars, Environment

LEMMA StepWindow ==
  ASSUME TypeOK, PassedHasNone, [Next /\ Remember]_windowVars
  PROVE  PassedHasNone'
  <1>1. CASE UNCHANGED windowVars
    BY <1>1 DEF PassedHasNone, windowVars, vars, cycleVars
  <1>2. ASSUME Next, Remember, NEW f \in Root, pc'[f] \in Passed, NEW s \in standing'[f]
        PROVE  FALSE
    <2>1. s \in Subject /\ Candidate(f, s)' /\ StillOpen(f, s)
      BY <1>2 DEF Remember
    <2>2. pc[f] \notin Passed
      BY <2>1 DEF StillOpen, PassedHasNone, Passed
    <2>3. ASSUME NEW e \in Root, CycleStep(e), e # f PROVE pc'[f] = pc[f]
      BY <2>3, OthersKept
    <2>4. ASSUME NEW t \in Subject, ReadPullRequests(f, t) PROVE FALSE
      <3>1. pc'[f] # "next"
        BY <1>2 DEF Passed
      <3>2. Candidate(f, t) /\ ~MatchingOpenPullRequest(t) /\ UNCHANGED <<outcome, pr>>
        BY <2>4, <3>1 DEF ReadPullRequests, Leave, Go, TypeOK, githubVars
      <3>3. s = t
        BY <2>1, <3>2, OneCandidate DEF Candidate
      <3> QED
        BY <2>1, <3>2, <3>3 DEF StillOpen, MatchingOpenPullRequest
    <2>5. UNCHANGED cycleVars => pc'[f] = pc[f]
      BY DEF cycleVars
    <2> QED
      BY <1>2, <2>2, <2>3, <2>4, <2>5, NextCases, PassedByReading DEF vars, Environment
  <1> QED
    BY <1>1, <1>2 DEF PassedHasNone, Passed

\* I4, for any number of roots and issues, whatever authors edit, open and close and
\* whichever answers are lost: a pull request from another branch that has been open
\* since the cycle took its subject up keeps it from being claimed or adopted.
THEOREM StandingPullRequestNeverPassed == WindowSpec => StandingPullRequestBlocks
  <1>1. WindowInit => Init /\ PassedHasNone
    BY DEF WindowInit, PassedHasNone
  <1>2. [Next /\ Remember]_windowVars => [Next]_vars
    BY DEF windowVars
  <1>3. TypeOK /\ PassedHasNone /\ [Next /\ Remember]_windowVars => PassedHasNone'
    BY StepWindow
  <1>4. TypeOK /\ PassedHasNone /\ [Next /\ Remember]_windowVars
          => [\A e \in Root : ((created'[e] \cup won'[e]) \ (created[e] \cup won[e]))
                                  \cap standing[e] = {}]_windowVars
    BY <1>2, ClaimsPassed DEF PassedHasNone, Passed
  <1> QED
    BY <1>1, <1>2, <1>3, <1>4, InitTypeOK, StepType, PTL
    DEF WindowSpec, StandingPullRequestBlocks
-----------------------------------------------------------------------------
(***************************************************************************)
(* One open claim per component.  Nobody edits, and no lane is handed off  *)
(* between the reads of the snapshot that missed its claim.                *)
(***************************************************************************)

MissedStay ==
    \A e \in Root, s \in Subject :
        pc[e] = "freshIssues" /\ ref[s] # None /\ s \notin seen[e] => body'[s] = body[s]

LEMMA InitComponents == Rewritten = {} /\ Init => ComponentInv
  <1> SUFFICES ASSUME Init PROVE ComponentInv
    OBVIOUS
  <1> USE DEF Init, ProviderInit
  <1>1. LanePullRequestsOpen /\ BodiesFollowLanes
    BY DEF LanePullRequestsOpen, BodiesFollowLanes
  <1>2. OrphansAreAdopted /\ CommittedWins /\ MissedClaimsWon
    BY DEF OrphansAreAdopted, CommittedWins, Committed, MissedClaimsWon
  <1>3. OneClaimPerComponent
    BY DEF OneClaimPerComponent, Claims
  <1> QED
    BY <1>1, <1>2, <1>3 DEF ComponentInv

\* Every body is readable, so the nodes of the graph are the open issues.
LEMMA AllReadable ==
  ASSUME BodiesFollowLanes
  PROVE  /\ \A s \in Subject : Readable(s)
         /\ OpenReadable = {s \in Subject : open[s]}
  BY DEF BodiesFollowLanes, Readable, Malformed, OpenReadable

LEMMA AllReadableNext ==
  ASSUME BodiesFollowLanes'
  PROVE  OpenReadable' = {s \in Subject : open'[s]}
  <1>1. \A s \in Subject : body'[s] # Malformed
    BY DEF BodiesFollowLanes, Malformed
  <1> QED
    BY <1>1 DEF OpenReadable, Readable

\* Who is in a component at all, and that belonging together is mutual.
LEMMA ConnectedFacts ==
  ASSUME BodiesFollowLanes, NEW s \in Subject, open[s]
  PROVE  /\ s \in Connected(s) /\ Connected(s) \subseteq Subject
         /\ \A t \in Connected(s) : open[t] /\ s \in Connected(t)
         /\ \A t \in Connected(s) : \A u \in Connected(t) : u \in Connected(s)
         /\ \A t \in Connected(s), u \in Subject :
                open[u] /\ <<t, u>> \in Depends => u \in Connected(s)
  <1>1. s \in OpenReadable /\ OpenReadable = {t \in Subject : open[t]}
    BY AllReadable
  <1>2. Connected(s) \subseteq OpenReadable
    BY DEF Connected, Component
  <1>3. s \in Connected(s)
    BY <1>1, ComponentHasSelf DEF Connected
  <1>4. \A t \in Connected(s) : s \in Connected(t)
    BY <1>1, ComponentSymmetric DEF Connected
  <1>5. \A t \in Connected(s) : \A u \in Connected(t) : u \in Connected(s)
    BY ComponentTransitive DEF Connected
  <1>6. \A t \in Connected(s), u \in Subject :
            open[u] /\ <<t, u>> \in Depends => u \in Connected(s)
    BY <1>1, ComponentHasNeighbours DEF Connected
  <1> QED
    BY <1>1, <1>2, <1>3, <1>4, <1>5, <1>6

\* Two firsts of one component are the same subject.
LEMMA FirstIsUnique ==
  ASSUME BodiesFollowLanes, NEW s \in Subject, NEW t \in Subject, open[s],
         FirstOfComponent(s), FirstOfComponent(t), t \in Connected(s)
  PROVE  s = t
  <1>1. t \in Eligible /\ s \in Eligible /\ s \in Connected(t)
    BY ConnectedFacts DEF FirstOfComponent
  <1>2. s <= t /\ t <= s
    BY <1>1 DEF FirstOfComponent
  <1> QED
    BY <1>2, SubjectAssumption

LEMMA StepBodies ==
  ASSUME TypeOK, Ownership, Rewritten = {}, LanePullRequestsOpen, BodiesFollowLanes, [Next]_vars
  PROVE  BodiesFollowLanes'
  <1> USE DEF BodiesFollowLanes, TypeOK, ProviderTypeOK
  <1>1. ASSUME UNCHANGED <<open, body>>, \A s \in Subject : ref[s] # None => ref'[s] # None
        PROVE  BodiesFollowLanes'
    BY <1>1
  <1>2. ASSUME NEW e \in Root, NEW t \in Subject, ExecuteHandoff(e, t) PROVE BodiesFollowLanes'
    <2>1. ref[t] # None
      BY <1>2 DEF ExecuteHandoff, Ownership, LocalHasWorktree, HeldIsClaimed, Holding
    <2> QED
      BY <1>2, <2>1 DEF ExecuteHandoff, ReplaceState
  <1>3. ASSUME NEW t \in Subject, LandPullRequest(t) PROVE BodiesFollowLanes'
    BY <1>3 DEF LandPullRequest, ReplaceState
  <1>4. ASSUME NEW e \in Root, CycleStep(e) PROVE BodiesFollowLanes'
    <2>1. \A t \in Subject : CreateRef(e, t) => \A s \in Subject : ref[s] # None => ref'[s] # None
      BY DEF CreateRef, Ownership, ClaimHasHead
    <2> QED
      BY <1>1, <1>4, <2>1, OnlyClaimsWrite
  <1>5. UNCHANGED vars => UNCHANGED <<open, body, ref>>
    BY DEF vars, githubVars
  <1>6. ASSUME Environment, NEW s \in Subject, NEW b \in Rewritten, EditBody(s, b) PROVE FALSE
    BY <1>6 DEF EditBody
  <1> QED
    BY <1>1, <1>2, <1>3, <1>4, <1>5, <1>6, NextCases, IssueSteps, EnvironmentClaims

LEMMA StepOrphans ==
  ASSUME TypeOK, OrphansAreAdopted, [Next]_vars
  PROVE  OrphansAreAdopted'
  <1> DEFINE Past(e, s) == pc[e] \in {"head", "claim"} /\ Candidate(e, s)
  <1> SUFFICES ASSUME NEW f \in Root, NEW s \in Subject, Past(f, s)'
               PROVE  ~IsOrphan(f, s)'
    BY DEF OrphansAreAdopted
  <1>1. ASSUME NEW e \in Root, CycleStep(e), f # e PROVE ~IsOrphan(f, s)'
    BY <1>1, OthersKept DEF Candidate, IsOrphan, OrphansAreAdopted
  <1>2. ASSUME CycleStep(f) PROVE ~IsOrphan(f, s)'
    BY <1>2, CandidateStays DEF IsOrphan, OrphansAreAdopted
  <1>3. UNCHANGED cycleVars => ~IsOrphan(f, s)'
    BY DEF cycleVars, Candidate, IsOrphan, OrphansAreAdopted
  <1> QED
    BY <1>1, <1>2, <1>3, NextCases DEF vars, Environment

LEMMA CommittedBefore ==
  ASSUME TypeOK, [Next]_vars, NEW f \in Root, NEW s \in Subject, Committed(f, s)'
  PROVE  \/ Committed(f, s)
         \/ /\ CycleStep(f) /\ UNCHANGED <<open, body, ref>>
            /\ pc[f] = "freshIssues" /\ s \in SnapshotWinners(f)
  <1>1. ASSUME NEW e \in Root, CycleStep(e), f # e PROVE Committed(f, s)
    BY <1>1, OthersKept DEF Committed, Candidate, IsOrphan
  <1>2. ASSUME CycleStep(f)
        PROVE  \/ Committed(f, s)
               \/ /\ UNCHANGED <<open, body, ref>>
                  /\ pc[f] = "freshIssues" /\ s \in SnapshotWinners(f)
    BY <1>2, CandidateStays, OnlyClaimsWrite DEF Committed, IsOrphan, StillAdmitted
  <1>3. UNCHANGED cycleVars => Committed(f, s)
    BY DEF cycleVars, Committed, Candidate, IsOrphan
  <1> QED
    BY <1>1, <1>2, <1>3, NextCases DEF vars, Environment

LEMMA MissedBefore ==
  ASSUME TypeOK, [Next]_vars, NEW f \in Root, NEW s \in Subject,
         pc'[f] = "freshIssues", ref'[s] # None, s \notin seen'[f]
  PROVE  pc[f] = "freshIssues" /\ s \notin seen[f]
  <1>1. ASSUME NEW e \in Root, CycleStep(e), f # e
        PROVE  pc[f] = "freshIssues" /\ s \notin seen[f]
    BY <1>1, OthersKept
  <1>2. ASSUME CycleStep(f) PROVE FALSE
    <2>1. FreshRefs(f) => seen'[f] = Claims
      BY DEF FreshRefs, TypeOK
    <2>2. ReadDefaultHead(f) => pc'[f] = "claim"
      BY DEF ReadDefaultHead, Go, TypeOK
    <2>3. \A t \in Subject :
              FreshIssues(f, t) \/ ReadContract(f, t) \/ ReadPullRequests(f, t)
                  => pc'[f] \in {"contract", "pullRequests", "adopt", "head", "next"}
      BY DEF FreshIssues, ReadContract, ReadPullRequests, AdmittedStep, Go, Leave, TypeOK
    <2>4. UNCHANGED ref /\ FreshRefs(f)
      BY <1>2, <2>2, <2>3, CandidateAdvances, OnlyClaimsWrite
    <2> QED
      BY <2>1, <2>4 DEF Claims
  <1>3. UNCHANGED cycleVars => pc[f] = "freshIssues" /\ s \notin seen[f]
    BY DEF cycleVars
  <1> QED
    BY <1>1, <1>2, <1>3, NextCases DEF vars, Environment

\* What a step makes of the graph and of its frontier.
LEMMA GraphKept ==
  ASSUME UNCHANGED <<open, body>>, NEW s \in Subject
  PROVE  /\ Connected(s)' = Connected(s)
         /\ FirstOfComponent(s) => FirstOfComponent(s)'
  <1>1. OpenReadable' = OpenReadable
    BY DEF OpenReadable, Readable
  <1>2. Eligible' = Eligible
    BY DEF Eligible, Schedulable, DependenciesLanded, Landed
  <1>3. Connected(s)' = Connected(s)
    BY <1>1 DEF Connected
  <1> QED
    BY <1>2, <1>3 DEF FirstOfComponent

LEMMA HandoffGraph ==
  ASSUME TypeOK, LanePullRequestsOpen, BodiesFollowLanes, BodiesFollowLanes',
         NEW e \in Root, NEW t \in Subject, ExecuteHandoff(e, t), NEW s \in Subject
  PROVE  /\ Connected(s)' = Connected(s)
         /\ s # t /\ FirstOfComponent(s) => FirstOfComponent(s)'
  <1> USE DEF ExecuteHandoff, TypeOK, ProviderTypeOK
  <1>1. OpenReadable' = OpenReadable
    <2>1. OpenReadable' = {u \in Subject : open'[u]}
      BY AllReadableNext
    <2> QED
      BY <2>1, AllReadable
  <1>2. Connected(s)' = Connected(s)
    BY <1>1 DEF Connected
  <1>3. \A d \in Subject : Landed(d)' <=> Landed(d)
    BY DEF Landed, LanePullRequestsOpen
  <1>4. Eligible' = Eligible \ {t}
    BY <1>3 DEF Eligible, Schedulable, DependenciesLanded, ReplaceState
  <1> QED
    BY <1>2, <1>4 DEF FirstOfComponent

LEMMA LandGraph ==
  ASSUME TypeOK, BodiesFollowLanes, BodiesFollowLanes', NEW t \in Subject, LandPullRequest(t),
         NEW s \in Subject, s # t, open[s]
  PROVE  /\ Connected(s)' \subseteq Connected(s)
         /\ t \notin Connected(s)
               => /\ Connected(s)' = Connected(s)
                  /\ FirstOfComponent(s) => FirstOfComponent(s)'
  <1> USE DEF LandPullRequest, TypeOK, ProviderTypeOK
  <1>1. /\ OpenReadable = {u \in Subject : open[u]}
        /\ OpenReadable' = OpenReadable \ {t}
    <2>1. OpenReadable' = {u \in Subject : open'[u]}
      BY AllReadableNext
    <2> QED
      BY <2>1, AllReadable
  <1>2. Connected(s)' = Component(s, OpenReadable \ {t}, Depends)
    BY <1>1 DEF Connected
  <1>3. Connected(s)' \subseteq Connected(s)
    BY <1>1, <1>2, ComponentShrinks DEF Connected
  <1>4. ASSUME t \notin Connected(s) PROVE Connected(s)' = Connected(s)
    <2>1. s \in OpenReadable /\ t \notin Component(s, OpenReadable, Depends)
      BY <1>1, <1>4 DEF Connected
    <2>2. Component(s, OpenReadable \ {t}, Depends) = Component(s, OpenReadable, Depends)
      BY <2>1, ComponentApart
    <2> QED
      BY <1>2, <2>2 DEF Connected
  <1>5. ASSUME t \notin Connected(s), FirstOfComponent(s) PROVE FirstOfComponent(s)'
    <2>1. \A d \in Subject : d # t => (Landed(d)' <=> Landed(d))
      BY DEF Landed
    <2>2. ~Landed(t)
      BY DEF Landed
    <2>3. s \in Eligible'
      BY <1>5, <2>1, <2>2 DEF FirstOfComponent, Eligible, Schedulable, DependenciesLanded
    <2>4. ASSUME NEW u \in Connected(s), u \in Eligible' PROVE u \in Eligible
      <3>1. u \in Subject /\ <<u, t>> \notin Depends /\ u # t
        BY <1>5, ConnectedFacts
      <3> QED
        BY <2>1, <2>4, <3>1 DEF Eligible, Schedulable, DependenciesLanded
    <2> QED
      BY <1>4, <1>5, <2>3, <2>4 DEF FirstOfComponent
  <1> QED
    BY <1>3, <1>4, <1>5

LEMMA ComponentSteps ==
  ASSUME TypeOK, Ownership, Rewritten = {}, ComponentInv, [Next]_vars
  PROVE  \/ UNCHANGED <<open, body>> /\ \A s \in Subject : ref'[s] = None <=> ref[s] = None
         \/ \E e \in Root, t \in Subject :
               /\ UNCHANGED <<open, body>>
               /\ Committed(e, t) /\ ref[t] = None /\ ref'[t] # None
               /\ \A u \in Subject \ {t} : ref'[u] = ref[u]
         \/ \E e \in Root, t \in Subject :
               ExecuteHandoff(e, t) /\ UNCHANGED ref /\ ref[t] # None
         \/ \E t \in Subject : LandPullRequest(t) /\ UNCHANGED ref /\ ref[t] # None
  <1>1. ASSUME NEW e \in Root, CycleStep(e), NEW t \in Subject, CreateRef(e, t)
        PROVE  /\ UNCHANGED <<open, body>>
               /\ Committed(e, t) /\ ref[t] = None /\ ref'[t] # None
               /\ \A u \in Subject \ {t} : ref'[u] = ref[u]
    BY <1>1 DEF CreateRef, Ownership, ClaimHasHead, ComponentInv, OrphansAreAdopted, Committed,
                TypeOK, ProviderTypeOK
  <1>2. ASSUME NEW e \in Root, NEW t \in Subject, ExecuteHandoff(e, t)
        PROVE  UNCHANGED ref /\ ref[t] # None
    BY <1>2 DEF ExecuteHandoff, Ownership, LocalHasWorktree, HeldIsClaimed, Holding
  <1>3. ASSUME NEW t \in Subject, LandPullRequest(t) PROVE UNCHANGED ref /\ ref[t] # None
    BY <1>3 DEF LandPullRequest
  <1>4. ASSUME Environment, NEW s \in Subject, NEW b \in Rewritten, EditBody(s, b) PROVE FALSE
    BY <1>4 DEF EditBody, TypeOK, ProviderTypeOK
  <1>5. UNCHANGED vars => UNCHANGED <<open, body, ref>>
    BY DEF vars, githubVars
  <1> QED
    BY <1>1, <1>2, <1>3, <1>4, <1>5, NextCases, OnlyClaimsWrite, IssueSteps, EnvironmentClaims

\* Only a claim that the cycle's frontier check had let through is made, and it is
\* the only one of its component.
LEMMA StepOneClaim ==
  ASSUME TypeOK, Ownership, Rewritten = {}, ComponentInv, [Next]_vars, BodiesFollowLanes'
  PROVE  OneClaimPerComponent'
  <1> USE DEF ComponentInv
  <1>1. \A s, t \in Subject :
            ref[s] # None /\ ref[t] # None /\ s # t /\ open[s] /\ open[t]
                => t \notin Connected(s)
    BY DEF OneClaimPerComponent, Claims, Connected
  <1> SUFFICES ASSUME NEW s \in Subject, NEW t \in Subject, ref'[s] # None, ref'[t] # None,
                      s # t, open'[s], open'[t], t \in Connected(s)'
               PROVE  FALSE
    BY DEF OneClaimPerComponent, Claims, Connected
  <1>2. CASE UNCHANGED <<open, body>> /\ \A u \in Subject : ref'[u] = None <=> ref[u] = None
    BY <1>1, <1>2, GraphKept
  <1>3. ASSUME NEW e \in Root, NEW u \in Subject, UNCHANGED <<open, body>>,
               Committed(e, u), ref[u] = None,
               \A v \in Subject \ {u} : ref'[v] = ref[v]
        PROVE  FALSE
    <2>1. open[s] /\ open[t] /\ t \in Connected(s) /\ s \in Connected(t)
      BY <1>3, GraphKept, ConnectedFacts
    <2>2. \A v \in Connected(u) : ref[v] = None
      BY <1>3 DEF CommittedWins
    <2> QED
      BY <1>1, <1>3, <2>1, <2>2
  <1>4. ASSUME NEW e \in Root, NEW u \in Subject, ExecuteHandoff(e, u), UNCHANGED ref PROVE FALSE
    <2>1. open' = open
      BY <1>4 DEF ExecuteHandoff
    <2> QED
      BY <1>1, <1>4, <2>1, HandoffGraph
  <1>5. ASSUME NEW u \in Subject, LandPullRequest(u), UNCHANGED ref PROVE FALSE
    <2>1. open[s] /\ open[t] /\ s # u
      BY <1>5 DEF LandPullRequest, TypeOK, ProviderTypeOK
    <2> QED
      BY <1>1, <1>5, <2>1, LandGraph
  <1> QED
    BY <1>2, <1>3, <1>4, <1>5, ComponentSteps

\* A claim the refs of a snapshot missed goes on being the first of its component
\* until the issues are read.
LEMMA StepMissed ==
  ASSUME TypeOK, Ownership, Rewritten = {}, ComponentInv, [Next]_vars, MissedStay,
         BodiesFollowLanes'
  PROVE  MissedClaimsWon'
  <1> USE DEF ComponentInv
  <1> SUFFICES ASSUME NEW f \in Root, NEW s \in Subject,
                      pc'[f] = "freshIssues", ref'[s] # None, s \notin seen'[f], open'[s]
               PROVE  FirstOfComponent(s)'
    BY DEF MissedClaimsWon
  <1>1. pc[f] = "freshIssues" /\ s \notin seen[f]
    BY MissedBefore
  <1>2. ref[s] # None /\ open[s] => FirstOfComponent(s)
    BY <1>1 DEF MissedClaimsWon
  <1>3. CASE UNCHANGED <<open, body>> /\ \A u \in Subject : ref'[u] = None <=> ref[u] = None
    BY <1>2, <1>3, GraphKept
  <1>4. ASSUME NEW e \in Root, NEW u \in Subject, UNCHANGED <<open, body>>,
               Committed(e, u), ref[u] = None,
               \A v \in Subject \ {u} : ref'[v] = ref[v]
        PROVE  FirstOfComponent(s)'
    <2>1. FirstOfComponent(u)
      BY <1>4 DEF CommittedWins
    <2> QED
      BY <1>2, <1>4, <2>1, GraphKept
  <1>5. ASSUME NEW e \in Root, NEW u \in Subject, ExecuteHandoff(e, u), UNCHANGED ref
        PROVE  FirstOfComponent(s)'
    <2>1. open' = open
      BY <1>5 DEF ExecuteHandoff
    <2>2. CASE s # u
      BY <1>2, <1>5, <2>1, <2>2, HandoffGraph
    <2>3. CASE s = u
      <3>1. body'[u] = body[u]
        BY <1>1, <1>5, <2>3 DEF MissedStay
      <3>2. body' = body
        BY <1>5, <3>1 DEF ExecuteHandoff, TypeOK, ProviderTypeOK
      <3> QED
        BY <1>2, <1>5, <2>1, <3>2, GraphKept
    <2> QED
      BY <2>2, <2>3
  <1>6. ASSUME NEW u \in Subject, LandPullRequest(u), UNCHANGED ref, ref[u] # None
        PROVE  FirstOfComponent(s)'
    <2>1. open[s] /\ s # u /\ open[u]
      BY <1>6 DEF LandPullRequest, TypeOK, ProviderTypeOK
    <2>2. u \notin Connected(s)
      BY <1>6, <2>1 DEF OneClaimPerComponent, Claims, Connected
    <2> QED
      BY <1>2, <1>6, <2>1, <2>2, LandGraph
  <1> QED
    BY <1>3, <1>4, <1>5, <1>6, ComponentSteps

\* The frontier check itself: what the refs showed is held against the candidate,
\* what they missed would have won in its place.
LEMMA FrontierCheck ==
  ASSUME TypeOK, ComponentInv, NEW f \in Root, NEW s \in Subject,
         pc[f] = "freshIssues", s \in SnapshotWinners(f), ref[s] = None
  PROVE  FirstOfComponent(s) /\ \A t \in Connected(s) : ref[t] = None
  <1> USE DEF ComponentInv
  <1>1. /\ s \in Eligible /\ open[s]
        /\ Connected(s) \cap LiveClaims(f) = {}
        /\ \A t \in Connected(s) \cap Eligible : s <= t
    BY DEF SnapshotWinners, Winners, Frontier, Connected, Eligible, Schedulable
  <1>2. FirstOfComponent(s)
    BY <1>1 DEF FirstOfComponent
  <1>3. ASSUME NEW t \in Connected(s), ref[t] # None PROVE FALSE
    <2>1. t \in Subject /\ open[t]
      BY <1>1, ConnectedFacts
    <2>2. t \notin seen[f]
      BY <1>1, <2>1 DEF LiveClaims
    <2>3. FirstOfComponent(t)
      BY <1>3, <2>1, <2>2 DEF MissedClaimsWon
    <2> QED
      BY <1>1, <1>2, <1>3, <2>1, <2>3, FirstIsUnique
  <1> QED
    BY <1>2, <1>3

LEMMA StepCommitted ==
  ASSUME TypeOK, Ownership, Rewritten = {}, ComponentInv, [Next]_vars, BodiesFollowLanes'
  PROVE  CommittedWins'
  <1> USE DEF ComponentInv
  <1> DEFINE Free(s) == \A t \in Connected(s) : ref[t] = None
  <1> SUFFICES ASSUME NEW f \in Root, NEW s \in Subject, Committed(f, s)', ref'[s] = None
               PROVE  FirstOfComponent(s)' /\ Free(s)'
    BY DEF CommittedWins
  <1>1. CASE /\ UNCHANGED <<open, body, ref>>
             /\ pc[f] = "freshIssues" /\ s \in SnapshotWinners(f)
    BY <1>1, FrontierCheck, GraphKept
  <1>2. ASSUME Committed(f, s) PROVE FirstOfComponent(s)' /\ Free(s)'
    <2>1. ref[s] = None => FirstOfComponent(s) /\ Free(s)
      BY <1>2 DEF CommittedWins
    <2>2. CASE UNCHANGED <<open, body>> /\ \A u \in Subject : ref'[u] = None <=> ref[u] = None
      BY <2>1, <2>2, GraphKept, ConnectedFacts DEF BodiesFollowLanes
    <2>3. ASSUME NEW e \in Root, NEW u \in Subject, UNCHANGED <<open, body>>,
                 Committed(e, u), ref[u] = None, ref'[u] # None,
                 \A v \in Subject \ {u} : ref'[v] = ref[v]
          PROVE  FirstOfComponent(s)' /\ Free(s)'
      <3>1. s # u /\ ref[s] = None
        BY <2>3
      <3>2. open[s] /\ FirstOfComponent(s) /\ FirstOfComponent(u) /\ Free(s)
        BY <2>1, <2>3, <3>1 DEF CommittedWins, BodiesFollowLanes
      <3>3. u \notin Connected(s)
        BY <3>1, <3>2, FirstIsUnique
      <3>4. \A t \in Connected(s) : ref'[t] = None
        BY <2>3, <3>2, <3>3, ConnectedFacts
      <3> QED
        BY <2>3, <3>2, <3>4, GraphKept
    <2>4. ASSUME NEW e \in Root, NEW u \in Subject, ExecuteHandoff(e, u), UNCHANGED ref,
                 ref[u] # None
          PROVE  FirstOfComponent(s)' /\ Free(s)'
      BY <2>1, <2>4, HandoffGraph
    <2>5. ASSUME NEW u \in Subject, LandPullRequest(u), UNCHANGED ref, ref[u] # None
          PROVE  FirstOfComponent(s)' /\ Free(s)'
      <3>1. open[s] /\ s # u /\ u \notin Connected(s)
        BY <2>1, <2>5 DEF BodiesFollowLanes
      <3> QED
        BY <2>1, <2>5, <3>1, LandGraph
    <2> QED
      BY <2>2, <2>3, <2>4, <2>5, ComponentSteps
  <1> QED
    BY <1>1, <1>2, CommittedBefore

LEMMA StepComponents ==
  ASSUME TypeOK, Ownership, Rewritten = {}, ComponentInv, [Next]_vars, MissedStay
  PROVE  ComponentInv'
  <1>1. LanePullRequestsOpen' /\ OrphansAreAdopted'
    BY LanePullRequestsStayOpen, StepOrphans DEF ComponentInv
  <1>2. BodiesFollowLanes'
    BY StepBodies DEF ComponentInv
  <1>3. OneClaimPerComponent' /\ MissedClaimsWon' /\ CommittedWins'
    BY <1>2, StepOneClaim, StepMissed, StepCommitted
  <1> QED
    BY <1>1, <1>2, <1>3 DEF ComponentInv

\* CLAIM_SCOPE, for any number of roots and issues and any dependencies: one
\* component never has two open claims, however the snapshots of the roots, their
\* claims and the landings interleave, if nobody edits issues and no lane gets from
\* its claim to its handoff between the two reads of a snapshot that missed it.
THEOREM ComponentsStaySingle ==
  ASSUME Rewritten = {}
  PROVE  Spec /\ LanesOutlastReads => []OneClaimPerComponent
  <1>1. ComponentInv => OneClaimPerComponent
    BY DEF ComponentInv
  <1>2. Init => ComponentInv
    BY InitComponents
  <1>3. TypeOK /\ Ownership /\ ComponentInv /\ [Next]_vars /\ [MissedStay]_vars => ComponentInv'
    <2>1. ComponentInv /\ UNCHANGED vars => ComponentInv'
      BY DEF vars, githubVars, cycleVars, ComponentInv, LanePullRequestsOpen, BodiesFollowLanes,
             OrphansAreAdopted, CommittedWins, Committed, MissedClaimsWon, OneClaimPerComponent,
             Candidate, IsOrphan, FirstOfComponent, Connected, Eligible, Schedulable,
             DependenciesLanded, Landed, OpenReadable, Readable, Claims
    <2> QED
      BY <2>1, StepComponents
  <1>4. LanesOutlastReads <=> [][MissedStay]_vars
    BY PTL DEF LanesOutlastReads, MissedStay
  <1> QED
    BY <1>1, <1>2, <1>3, <1>4, InitTypeOK, StepType, InitOwnership, StepOwnership, PTL DEF Spec
-----------------------------------------------------------------------------
(***************************************************************************)
(* Disjoint write surfaces.  The provider answers, nobody edits, and no    *)
(* two cycles are under way at once.                                       *)
(***************************************************************************)

LEMMA ConflictSymmetric ==
  ASSUME NEW b, NEW c, BoundaryConflict(b, c)
  PROVE  BoundaryConflict(c, b)
  BY DEF BoundaryConflict

LEMMA ReservationFields ==
  ASSUME NEW s, NEW b
  PROVE  Reservation(s, b).subject = s /\ Reservation(s, b).boundary = b
  BY DEF Reservation

LEMMA InitSurface == Init => SurfaceInv
  BY DEF Init, ProviderInit, SurfaceInv, LanesDisjoint, Claims, SnapshotComplete,
         ClaimsReserved, AdmittedApart

\* Without edits no lane changes what it declares, and none reopens.
LEMMA EnvironmentSurface ==
  ASSUME TypeOK, Ownership, Rewritten = {}, Environment
  PROVE  /\ Claims' = Claims
         /\ \A s \in Subject : open'[s] => open[s]
         /\ \A s \in Subject : body'[s].boundary = body[s].boundary
  <1> USE DEF TypeOK, ProviderTypeOK
  <1>1. Claims' = Claims
    BY EnvironmentClaims DEF Claims
  <1>2. ASSUME NEW t \in Subject,
               LandPullRequest(t) \/ \E e \in Root : ExecuteHandoff(e, t),
               NEW s \in Subject
        PROVE  (open'[s] => open[s]) /\ body'[s].boundary = body[s].boundary
    <2>1. /\ \/ open' = [open EXCEPT ![t] = FALSE]
             \/ open' = open
          /\ \E state \in {"landed", "awaiting_land"} :
                body' = [body EXCEPT ![t] = ReplaceState(body[t], state)]
      BY <1>2 DEF LandPullRequest, ExecuteHandoff
    <2>2. \A state : ReplaceState(body[t], state).boundary = body[t].boundary
      BY DEF ReplaceState
    <2> QED
      BY <2>1, <2>2
  <1>3. ASSUME NEW s \in Subject, NEW b \in Rewritten, EditBody(s, b) PROVE FALSE
    BY <1>3 DEF EditBody
  <1> QED
    BY <1>1, <1>2, <1>3, IssueSteps

LEMMA SurfaceKept ==
  ASSUME SurfaceInv, UNCHANGED cycleVars, Claims' = Claims,
         \A s \in Subject : open'[s] => open[s],
         \A s \in Subject : body'[s].boundary = body[s].boundary
  PROVE  SurfaceInv'
  <1> USE DEF cycleVars
  <1>0. Claims \subseteq Subject
    BY DEF Claims
  <1>1. LanesDisjoint'
    <2> SUFFICES ASSUME NEW s \in Claims, NEW t \in Claims, s # t, open'[s], open'[t]
                 PROVE  ~Blocks(body'[s].boundary, Reservation(t, body'[t].boundary))
      BY DEF LanesDisjoint
    <2> QED
      BY <1>0 DEF SurfaceInv, LanesDisjoint
  <1>2. ASSUME NEW e \in Root
        PROVE  SnapshotComplete(e)' /\ ClaimsReserved(e)' /\ AdmittedApart(e)'
    <2>1. SnapshotComplete(e) /\ ClaimsReserved(e) /\ AdmittedApart(e)
      BY DEF SurfaceInv
    <2>2. SnapshotComplete(e)'
      BY <1>0, <2>1 DEF SnapshotComplete
    <2>3. ClaimsReserved(e)'
      BY <1>0, <2>1 DEF ClaimsReserved, Candidate, IsOrphan
    <2>4. AdmittedApart(e)'
      BY <2>1 DEF AdmittedApart, Candidate, IsOrphan
    <2> QED
      BY <2>2, <2>3, <2>4
  <1> QED
    BY <1>1, <1>2 DEF SurfaceInv

\* A cycle keeps to itself what it decided, reserved and read; without overlap the
\* other cycles are idle throughout its steps.
LEMMA OthersIdle ==
  ASSUME TypeOK, CyclesApart, CyclesApart', NEW e \in Root, Run(e), NEW f \in Root \ {e}
  PROVE  pc'[f] = "idle"
  <1>1. pc[e] # "idle" \/ pc'[e] # "idle"
    <2>1. ASSUME NEW proposal \in SUBSET Subject, Begin(e, proposal) PROVE pc'[e] # "idle"
      BY <2>1 DEF Begin, TypeOK
    <2>2. Cycle(e) => pc[e] # "idle"
      BY DEF Cycle, SnapshotRefs, SnapshotIssues, SnapshotOrphans, FreshRefs, ReadDefaultHead,
             FinishCandidates, ValidateOutput, OutputRejected, PublishOutput, TakeCandidate,
             FreshIssues, ReadContract, ContractRaises, ReadPullRequests, AdoptHeld,
             AdoptPublished, AdoptOrphan, ClaimCreated, CreateRef, ClaimTaken, BindOrder
    <2> QED
      BY <2>1, <2>2 DEF Run, CycleFails
  <1>2. pc'[f] = pc[f]
    BY OthersKept DEF CycleStep
  <1> QED
    BY <1>1, <1>2 DEF CyclesApart

\* What a step of the running cycle leaves of the invariant to show.
LEMMA OwnSurface ==
  ASSUME TypeOK, CyclesApart, CyclesApart', NEW e \in Root, Run(e),
         LanesDisjoint', SnapshotComplete(e)', ClaimsReserved(e)', AdmittedApart(e)'
  PROVE  SurfaceInv'
  <1>1. ASSUME NEW f \in Root \ {e}
        PROVE  SnapshotComplete(f)' /\ ClaimsReserved(f)' /\ AdmittedApart(f)'
    BY OthersIdle DEF SnapshotComplete, ClaimsReserved, AdmittedApart
  <1> QED
    BY <1>1 DEF SurfaceInv

\* The snapshot reserves every open claim: the refs came before, and nothing was
\* claimed since.
LEMMA SnapshotSurface ==
  ASSUME TypeOK, SurfaceInv, NEW e \in Root,
         \/ SnapshotRefs(e) \/ SnapshotIssues(e) \/ SnapshotOrphans(e)
         \/ \E proposal \in SUBSET Subject : Begin(e, proposal)
  PROVE  SnapshotComplete(e)' /\ ClaimsReserved(e)' /\ AdmittedApart(e)'
  <1> USE DEF githubVars, Go, TypeOK
  <1>0. SnapshotComplete(e) /\ ClaimsReserved(e)
    BY DEF SurfaceInv
  <1>1. UNCHANGED <<open, body, ref>> /\ Claims' = Claims
    BY DEF SnapshotRefs, SnapshotIssues, SnapshotOrphans, Begin, Claims
  <1>2. ASSUME NEW proposal \in SUBSET Subject, Begin(e, proposal) PROVE pc'[e] = "refs"
    BY <1>2 DEF Begin
  <1>3. SnapshotRefs(e) => pc'[e] = "issues" /\ seen'[e] = Claims
    BY DEF SnapshotRefs
  <1>4. ASSUME SnapshotIssues(e)
        PROVE  /\ pc'[e] = "orphans"
               /\ \A t \in Claims : open[t] => Reservation(t, body[t].boundary) \in reserved'[e]
    BY <1>0, <1>4 DEF SnapshotIssues, SnapshotComplete, LiveClaims
  <1>5. ASSUME SnapshotOrphans(e)
        PROVE  /\ pc'[e] = "next"
               /\ \A t \in Claims : open[t] => Reservation(t, body[t].boundary) \in reserved'[e]
    BY <1>0, <1>5 DEF SnapshotOrphans, ClaimsReserved
  <1>6. SnapshotComplete(e)'
    BY <1>1, <1>2, <1>3, <1>4, <1>5 DEF SnapshotComplete
  <1>7. ClaimsReserved(e)'
    BY <1>1, <1>2, <1>3, <1>4, <1>5 DEF ClaimsReserved
  <1>8. AdmittedApart(e)'
    BY <1>2, <1>3, <1>4, <1>5 DEF AdmittedApart
  <1> QED
    BY <1>6, <1>7, <1>8

\* Steps that judge, adopt or finish add no claim and no reservation, and the
\* contract as read is compared with all that is reserved.
LEMMA JudgedSurface ==
  ASSUME TypeOK, SurfaceInv, OrphansAreAdopted, NEW e \in Root, NEW s \in Subject,
         \/ TakeCandidate(e, s) \/ FreshRefs(e) \/ FreshIssues(e, s)
         \/ ReadContract(e, s) \/ ReadPullRequests(e, s) \/ ReadDefaultHead(e)
         \/ FinishCandidates(e) \/ ValidateOutput(e)
         \/ AdoptHeld(e, s) \/ AdoptPublished(e, s) \/ ClaimTaken(e, s)
  PROVE  SnapshotComplete(e)' /\ ClaimsReserved(e)' /\ AdmittedApart(e)'
  <1> USE DEF githubVars, Go, Leave, Decided, Reads, TypeOK
  <1>0. SnapshotComplete(e) /\ ClaimsReserved(e) /\ AdmittedApart(e)
    BY DEF SurfaceInv
  <1> DEFINE Kept == /\ UNCHANGED <<open, body, ref>> /\ Claims' = Claims
                     /\ reserved' = reserved /\ orphans' = orphans
                     /\ pc[e] \notin {"idle", "refs", "issues", "bind"}
                     /\ pc'[e] \notin {"issues", "bind"}
  <1>1. Kept
    <2>1. ASSUME TakeCandidate(e, s) \/ FreshRefs(e) \/ FreshIssues(e, s)
                 \/ ReadContract(e, s) \/ ReadPullRequests(e, s)
          PROVE  Kept
      BY <2>1 DEF TakeCandidate, FreshRefs, FreshIssues, ReadContract, ReadPullRequests,
                  AdmittedStep, Claims
    <2>2. ASSUME ReadDefaultHead(e) \/ FinishCandidates(e) \/ ValidateOutput(e)
                 \/ AdoptHeld(e, s) \/ AdoptPublished(e, s) \/ ClaimTaken(e, s)
          PROVE  Kept
      BY <2>2 DEF ReadDefaultHead, FinishCandidates, ValidateOutput, AdoptHeld, AdoptPublished,
                  ClaimTaken, Claims
    <2> QED
      BY <2>1, <2>2
  <1>2. SnapshotComplete(e)'
    BY <1>1 DEF SnapshotComplete
  <1>3. ClaimsReserved(e)'
    BY <1>0, <1>1 DEF ClaimsReserved
  <1>4. ASSUME pc'[e] \in {"pullRequests", "head", "claim"}
        PROVE  \/ ReadContract(e, s)
               \/ /\ pc[e] \in {"pullRequests", "head"}
                  /\ UNCHANGED <<contract, outcome>>
    <2>1. ASSUME \/ TakeCandidate(e, s) \/ FreshRefs(e) \/ FreshIssues(e, s)
                 \/ FinishCandidates(e) \/ ValidateOutput(e)
                 \/ AdoptHeld(e, s) \/ AdoptPublished(e, s) \/ ClaimTaken(e, s)
          PROVE  FALSE
      BY <1>4, <2>1 DEF TakeCandidate, FreshRefs, FreshIssues, FinishCandidates, ValidateOutput,
                        AdoptHeld, AdoptPublished, ClaimTaken
    <2>2. ReadPullRequests(e, s) \/ ReadDefaultHead(e)
             => pc[e] \in {"pullRequests", "head"} /\ UNCHANGED <<contract, outcome>>
      BY <1>4 DEF ReadPullRequests, ReadDefaultHead
    <2> QED
      BY <2>1, <2>2
  <1>5. ASSUME ReadContract(e, s), pc'[e] = "pullRequests"
        PROVE  /\ Candidate(e, s) /\ UNCHANGED outcome
               /\ contract'[e] = body[s] /\ body[s].boundary # Undeclared
               /\ ~AdmissionConflict(body[s].boundary, ReservedAgainst(e, s))
    BY <1>5 DEF ReadContract, ContractVerdict
  <1>6. ~IsOrphan(e, s) => ReservedAgainst(e, s) = reserved[e]
    BY DEF ReservedAgainst
  <1>7. ReadContract(e, s) => pc'[e] \in {"next", "pullRequests"}
    BY DEF ReadContract
  <1>8. AdmittedApart(e)'
    <2> SUFFICES ASSUME pc'[e] \in {"pullRequests", "head", "claim"},
                        NEW t \in Subject, Candidate(e, t)', ~IsOrphan(e, t)'
                 PROVE  /\ contract'[e].boundary = body'[t].boundary
                        /\ body'[t].boundary # Undeclared
                        /\ ~AdmissionConflict(body'[t].boundary, reserved'[e])
      BY <1>1 DEF AdmittedApart
    <2>1. CASE ReadContract(e, s)
      <3>1. pc'[e] = "pullRequests"
        BY <1>7, <2>1
      <3>2. Candidate(e, t) /\ ~IsOrphan(e, t)
        BY <1>1, <1>5, <2>1, <3>1 DEF Candidate, IsOrphan
      <3>3. t = s
        BY <1>5, <2>1, <3>1, <3>2, OneCandidate
      <3> QED
        BY <1>1, <1>5, <1>6, <2>1, <3>1, <3>2, <3>3
    <2>2. CASE pc[e] \in {"pullRequests", "head"} /\ UNCHANGED <<contract, outcome>>
      <3>1. Candidate(e, t) /\ ~IsOrphan(e, t)
        BY <1>1, <2>2 DEF Candidate, IsOrphan
      <3> QED
        BY <1>0, <1>1, <2>2, <3>1 DEF AdmittedApart
    <2> QED
      BY <1>4, <2>1, <2>2
  <1> QED
    BY <1>2, <1>3, <1>8

LEMMA AdoptSurface ==
  ASSUME TypeOK, SurfaceInv, NEW e \in Root, NEW s \in Subject, AdoptOrphan(e, s)
  PROVE  SnapshotComplete(e)' /\ ClaimsReserved(e)' /\ AdmittedApart(e)'
  <1> USE DEF githubVars, Go, Decided, TypeOK
  <1>1. /\ UNCHANGED <<open, body, ref, outcome, orphans, reserved>> /\ Claims' = Claims
        /\ pc[e] = "adopt" /\ pc'[e] = "bind" /\ Candidate(e, s)
    BY DEF AdoptOrphan, Claims
  <1>2. IsOrphan(e, s)
    <2>1. orphans[e][s] = [body |-> body[s], head |-> ref[s]] /\ ref[s] # None
      BY DEF AdoptOrphan, SameIdentity, PrePrOrphan
    <2> QED
      BY <2>1 DEF IsOrphan, NoOrphan
  <1>3. ASSUME NEW t \in Subject, Candidate(e, t)' PROVE IsOrphan(e, t)'
    <2>1. Candidate(e, t)
      BY <1>1, <1>3 DEF Candidate
    <2>2. t = s
      BY <1>1, <2>1, OneCandidate
    <2> QED
      BY <1>1, <1>2, <2>2 DEF IsOrphan
  <1>4. ClaimsReserved(e)'
    BY <1>1 DEF SurfaceInv, ClaimsReserved
  <1> QED
    BY <1>1, <1>3, <1>4 DEF SnapshotComplete, AdmittedApart

LEMMA EndSurface ==
  ASSUME TypeOK, NEW e \in Root,
         \/ OutputRejected(e) \/ PublishOutput(e) \/ CycleFails(e)
         \/ \E s \in Subject : ContractRaises(e, s)
  PROVE  /\ SnapshotComplete(e)' /\ ClaimsReserved(e)' /\ AdmittedApart(e)'
         /\ UNCHANGED <<open, body, ref>>
  <1>1. pc'[e] = "idle" /\ UNCHANGED <<open, body, ref>>
    BY DEF OutputRejected, PublishOutput, CycleFails, ContractRaises, EndCycle, githubVars, TypeOK
  <1> QED
    BY <1>1 DEF SnapshotComplete, ClaimsReserved, AdmittedApart

\* The new claim collides with no open one, in either direction.
LEMMA ClaimSurface ==
  ASSUME TypeOK, SurfaceInv, OrphansAreAdopted, NEW e \in Root, NEW s \in Subject,
         ClaimCreated(e, s)
  PROVE  /\ SnapshotComplete(e)' /\ ClaimsReserved(e)' /\ AdmittedApart(e)'
         /\ LanesDisjoint'
  <1> USE DEF Go, Decided, Reads, TypeOK, ProviderTypeOK
  <1>1. /\ UNCHANGED <<open, body, outcome, orphans, reserved, contract>>
        /\ pc[e] = "claim" /\ pc'[e] = "bind" /\ Candidate(e, s)
        /\ \A t \in Subject \ {s} : ref'[t] = ref[t]
    BY DEF ClaimCreated, CreateRef
  <1>2. Claims' \subseteq Claims \cup {s}
    BY <1>1 DEF Claims
  <1>3. ~IsOrphan(e, s)
    BY <1>1 DEF OrphansAreAdopted
  <1>4. /\ contract[e].boundary = body[s].boundary /\ body[s].boundary # Undeclared
        /\ ~AdmissionConflict(body[s].boundary, reserved[e])
    BY <1>1, <1>3 DEF SurfaceInv, AdmittedApart
  <1>5. \A t \in Claims : open[t] => Reservation(t, body[t].boundary) \in reserved[e]
    BY <1>1 DEF SurfaceInv, ClaimsReserved
  <1>6. ASSUME NEW t \in Claims, open[t]
        PROVE  /\ ~Blocks(body[s].boundary, Reservation(t, body[t].boundary))
               /\ ~Blocks(body[t].boundary, Reservation(s, body[s].boundary))
    <2>1. ~Blocks(body[s].boundary, Reservation(t, body[t].boundary))
      BY <1>4, <1>5, <1>6 DEF AdmissionConflict
    <2>2. ~BoundaryConflict(body[s].boundary, body[t].boundary)
      BY <2>1, ReservationFields DEF Blocks
    <2>3. ~BoundaryConflict(body[t].boundary, body[s].boundary)
      BY <2>2, ConflictSymmetric
    <2> QED
      BY <1>4, <2>1, <2>3, ReservationFields DEF Blocks
  <1>7. LanesDisjoint'
    <2> SUFFICES ASSUME NEW t \in Claims', NEW u \in Claims', t # u, open[t], open[u]
                 PROVE  ~Blocks(body[t].boundary, Reservation(u, body[u].boundary))
      BY <1>1 DEF LanesDisjoint
    <2>1. CASE t = s
      BY <1>2, <1>6, <2>1
    <2>2. CASE u = s
      BY <1>2, <1>6, <2>2
    <2>3. CASE t # s /\ u # s
      BY <1>2, <2>3 DEF SurfaceInv, LanesDisjoint
    <2> QED
      BY <2>1, <2>2, <2>3
  <1>8. Candidate(e, s)' /\ ~IsOrphan(e, s)'
    BY <1>1, <1>3 DEF Candidate, IsOrphan
  <1>9. ClaimsReserved(e)'
    BY <1>1, <1>2, <1>5, <1>8 DEF ClaimsReserved
  <1>10. AdmittedApart(e)'
    <2> SUFFICES ASSUME NEW t \in Subject, Candidate(e, t)'
                 PROVE  contract'[e].boundary = body'[t].boundary /\ body'[t].boundary # Undeclared
      BY <1>1 DEF AdmittedApart
    <2>1. Candidate(e, t)
      BY <1>1 DEF Candidate
    <2>2. t = s
      BY <1>1, <2>1, OneCandidate
    <2> QED
      BY <1>1, <1>4, <2>2
  <1> QED
    BY <1>1, <1>7, <1>9, <1>10 DEF SnapshotComplete

LEMMA BindSurface ==
  ASSUME TypeOK, SurfaceInv, NEW e \in Root, NEW s \in Subject, BindOrder(e, s)
  PROVE  SnapshotComplete(e)' /\ ClaimsReserved(e)' /\ AdmittedApart(e)'
  <1> USE DEF githubVars, Leave, TypeOK
  <1>1. /\ UNCHANGED <<open, body, ref, orphans>> /\ Claims' = Claims
        /\ pc[e] = "bind" /\ pc'[e] = "next" /\ Candidate(e, s)
        /\ reserved[e] \subseteq reserved'[e]
        /\ ~IsOrphan(e, s) => Reservation(s, contract[e].boundary) \in reserved'[e]
    BY DEF BindOrder, Claims
  <1>2. ~IsOrphan(e, s) => contract[e].boundary = body[s].boundary
    BY <1>1 DEF SurfaceInv, AdmittedApart
  <1>3. ASSUME NEW t \in Claims, open[t]
        PROVE  Reservation(t, body[t].boundary) \in reserved'[e]
    <2>1. CASE Candidate(e, t) /\ ~IsOrphan(e, t)
      <3>1. t = s
        BY <1>1, <2>1, OneCandidate DEF Claims
      <3> QED
        BY <1>1, <1>2, <2>1, <3>1
    <2>2. CASE ~(Candidate(e, t) /\ ~IsOrphan(e, t))
      BY <1>1, <1>3, <2>2 DEF SurfaceInv, ClaimsReserved
    <2> QED
      BY <2>1, <2>2
  <1> QED
    BY <1>1, <1>3 DEF SnapshotComplete, ClaimsReserved, AdmittedApart

LEMMA StepSurface ==
  ASSUME TypeOK, Ownership, OrphansAreAdopted, Rewritten = {}, SurfaceInv,
         CyclesApart, CyclesApart', [Answered]_vars
  PROVE  SurfaceInv'
  <1>1. CASE UNCHANGED vars
    <2>1. UNCHANGED <<open, body, ref, cycleVars>>
      BY <1>1 DEF vars, githubVars
    <2> QED
      BY <2>1, SurfaceKept DEF Claims
  <1>2. CASE Environment
    BY <1>2, EnvironmentSurface, SurfaceKept DEF Environment
  <1>3. ASSUME NEW e \in Root, Run(e) PROVE SurfaceInv'
    <2>1. CycleStep(e)
      BY <1>3 DEF CycleStep
    <2>2. UNCHANGED <<open, body>>
      BY <2>1, OnlyClaimsWrite
    <2>3. UNCHANGED ref => LanesDisjoint'
      BY <2>2 DEF SurfaceInv, LanesDisjoint, Claims
    <2>4. ASSUME SnapshotComplete(e)', ClaimsReserved(e)', AdmittedApart(e)', UNCHANGED ref
          PROVE  SurfaceInv'
      BY <1>3, <2>3, <2>4, OwnSurface
    <2>5. ASSUME \/ SnapshotRefs(e) \/ SnapshotIssues(e) \/ SnapshotOrphans(e)
                 \/ \E proposal \in SUBSET Subject : Begin(e, proposal)
          PROVE  SurfaceInv'
      <3>1. UNCHANGED ref
        BY <2>5 DEF SnapshotRefs, SnapshotIssues, SnapshotOrphans, Begin, githubVars
      <3> QED
        BY <2>4, <2>5, <3>1, SnapshotSurface
    <2>6. ASSUME OutputRejected(e) \/ PublishOutput(e) \/ CycleFails(e)
                 \/ \E s \in Subject : ContractRaises(e, s)
          PROVE  SurfaceInv'
      BY <2>4, <2>6, EndSurface
    <2>7. ASSUME NEW s \in Subject,
                 \/ TakeCandidate(e, s) \/ FreshRefs(e) \/ FreshIssues(e, s)
                 \/ ReadContract(e, s) \/ ReadPullRequests(e, s) \/ ReadDefaultHead(e)
                 \/ FinishCandidates(e) \/ ValidateOutput(e)
                 \/ AdoptHeld(e, s) \/ AdoptPublished(e, s) \/ ClaimTaken(e, s)
          PROVE  SurfaceInv'
      <3>1. UNCHANGED ref
        BY <2>7 DEF TakeCandidate, FreshRefs, FreshIssues, ReadContract, ReadPullRequests,
                    ReadDefaultHead, FinishCandidates, ValidateOutput, AdoptHeld,
                    AdoptPublished, ClaimTaken, githubVars
      <3> QED
        BY <2>4, <2>7, <3>1, JudgedSurface
    <2>8. ASSUME NEW s \in Subject, AdoptOrphan(e, s) \/ BindOrder(e, s)
          PROVE  SurfaceInv'
      <3>1. UNCHANGED ref
        BY <2>8 DEF AdoptOrphan, BindOrder, githubVars
      <3> QED
        BY <2>4, <2>8, <3>1, AdoptSurface, BindSurface
    <2>9. ASSUME NEW s \in Subject, ClaimCreated(e, s) PROVE SurfaceInv'
      BY <1>3, <2>9, ClaimSurface, OwnSurface
    <2>10. Subject = {} => SurfaceInv'
      BY DEF SurfaceInv, LanesDisjoint, SnapshotComplete, ClaimsReserved, AdmittedApart, Claims
    <2> QED
      BY <1>3, <2>5, <2>6, <2>7, <2>8, <2>9, <2>10 DEF Run, Cycle
  <1> QED
    BY <1>1, <1>2, <1>3 DEF Answered

\* I3, for any number of roots and issues and any boundaries: while every call is
\* answered, nobody edits and cycles do not overlap (as those of a single root never
\* do), open claimed lanes have disjoint write surfaces.
THEOREM SurfacesStayDisjoint ==
  ASSUME Rewritten = {}
  PROVE  AnsweredSpec /\ []CyclesApart => []LanesDisjoint
  <1>1. SurfaceInv => LanesDisjoint
    BY DEF SurfaceInv
  <1>2. [Answered]_vars => [Next]_vars
    BY DEF Next
  <1>3. TypeOK /\ [Answered]_vars => TypeOK'
    BY <1>2, StepType
  <1>4. TypeOK /\ Ownership /\ [Answered]_vars => Ownership'
    BY <1>2, StepOwnership
  <1>5. TypeOK /\ OrphansAreAdopted /\ [Answered]_vars => OrphansAreAdopted'
    BY <1>2, StepOrphans
  <1>6. TypeOK /\ Ownership /\ OrphansAreAdopted /\ SurfaceInv
            /\ CyclesApart /\ CyclesApart' /\ [Answered]_vars => SurfaceInv'
    BY StepSurface
  <1>7. Init => OrphansAreAdopted
    BY DEF Init, OrphansAreAdopted, IsOrphan
  <1> QED
    BY <1>1, <1>3, <1>4, <1>5, <1>6, <1>7, InitTypeOK, InitOwnership, InitSurface, PTL
    DEF AnsweredSpec
-----------------------------------------------------------------------------
(***************************************************************************)
(* The decision.  The argument needs no induction along the forest: at     *)
(* every moment some labelling gives each subject the root its chain ends  *)
(* in, and two subjects have one label exactly when the linked edges       *)
(* connect them.                                                           *)
(***************************************************************************)
\* f labels every subject with the root of its tree, and trees are the connected
\* components of the edges linked so far.
Labels(f) ==
    /\ f \in [nodes -> nodes]
    /\ \A s \in nodes : f[parent[s]] = f[s]
    /\ \A s \in nodes : parent[s] = s => f[s] = s
    /\ \A s \in nodes : f[s] \in Component(s, nodes, linked)
    /\ \A e \in linked : f[e[1]] = f[e[2]]

\* The chains of parents end: d falls along them.
Falls(d) ==
    /\ d \in [nodes -> Nat]
    /\ \A s \in nodes : parent[s] # s => d[parent[s]] < d[s]

\* What find, running for the current item, will return.
Finds(f) ==
    /\ at # Nobody => item \in nodes \X nodes
    /\ stage = "dependency" /\ at # Nobody => item \in Inner /\ f[at] = f[item[2]]
    /\ stage = "subject" =>
        /\ at # Nobody /\ item \in Inner
        /\ f[at] = f[item[1]]
        /\ target \in nodes /\ parent[target] = target /\ f[item[2]] = target
    /\ stage \in {"exclude", "group"} /\ at # Nobody =>
        item[1] = item[2] /\ item \notin left /\ f[at] = f[item[1]]

\* Subjects the exclude and group loops still have to look up.
Unseen == {s \in nodes : <<s, s>> \in left \/ (at # Nobody /\ item[1] = s)}

\* What the loops have done so far.
Progress(f) ==
    /\ stage \in {"dependency", "subject"} =>
        /\ left \subseteq Inner /\ excluded = {} /\ groups = {}
        /\ Inner = linked \cup left \cup (IF at = Nobody THEN {} ELSE {item})
    /\ stage \in {"exclude", "group", "done"} /\ ~malformed => Inner = linked
    /\ stage = "exclude" =>
        /\ left \subseteq {<<s, s>> : s \in claimed} /\ groups = {}
        /\ at # Nobody => item[1] \in claimed
        /\ excluded = {f[s] : s \in claimed \ Unseen}
    /\ stage \in {"group", "done"} /\ ~malformed =>
        /\ left \subseteq {<<s, s>> : s \in nodes}
        /\ excluded = {f[s] : s \in claimed}
        /\ groups = {<<f[s], s>> : s \in {t \in eligible \ Unseen : f[t] \notin excluded}}
    /\ stage = "done" => at = Nobody /\ (malformed \/ left = {})
    /\ malformed => stage = "done" /\ groups = {}

DecisionInv ==
    /\ DecisionTypeOK
    /\ linked \subseteq Inner
    /\ \E d \in [nodes -> Nat] : Falls(d)
    /\ \E f \in [nodes -> nodes] : Labels(f) /\ Finds(f) /\ Progress(f)
-----------------------------------------------------------------------------
\* Connected components, over any nodes and edges.

\* A component stays inside every closed set its subject is in.
LEMMA ComponentInClosed ==
    ASSUME NEW N, NEW E, NEW s, NEW C \in SUBSET N, s \in C, Closed(C, N, E)
    PROVE  Component(s, N, E) \subseteq C
BY DEF Component

\* A component is itself closed.
LEMMA ComponentClosed ==
    ASSUME NEW N, NEW E, NEW s
    PROVE  Closed(Component(s, N, E), N, E)
<1> SUFFICES ASSUME NEW a \in N, NEW b \in N,
                    <<a, b>> \in E \/ <<b, a>> \in E,
                    a \in Component(s, N, E),
                    NEW C \in SUBSET N, s \in C, Closed(C, N, E)
             PROVE  b \in C
    BY DEF Closed, Component
<1>1. a \in C
    BY DEF Component
<1> QED
    BY <1>1 DEF Closed

\* Components nest along membership ...
LEMMA ComponentNests ==
    ASSUME NEW N, NEW E, NEW s, NEW t \in Component(s, N, E)
    PROVE  Component(t, N, E) \subseteq Component(s, N, E)
<1>1. Component(s, N, E) \in SUBSET N
    BY DEF Component
<1> QED
    BY <1>1, ComponentClosed, ComponentInClosed

\* More edges, larger components.
LEMMA ComponentMonotone ==
    ASSUME NEW N, NEW E, NEW F, E \subseteq F, NEW s
    PROVE  Component(s, N, E) \subseteq Component(s, N, F)
<1>1. ASSUME NEW C \in SUBSET N, Closed(C, N, F)
      PROVE  Closed(C, N, E)
    BY <1>1 DEF Closed
<1> QED
    BY <1>1 DEF Component

\* Edges that leave the nodes connect nothing.
LEMMA ComponentInner ==
    ASSUME NEW N, NEW E, NEW F, \A a, b \in N : <<a, b>> \in E <=> <<a, b>> \in F, NEW s
    PROVE  Component(s, N, E) = Component(s, N, F)
<1>1. \A C : Closed(C, N, E) <=> Closed(C, N, F)
    BY DEF Closed
<1> QED
    BY <1>1 DEF Component
-----------------------------------------------------------------------------
\* Two subjects have one label exactly when the linked edges connect them.
LEMMA SameLabel ==
    ASSUME linked \subseteq Inner, NEW f, Labels(f), NEW s \in nodes, NEW t \in nodes
    PROVE  f[s] = f[t] <=> t \in Component(s, nodes, linked)
<1>1. ASSUME f[s] = f[t] PROVE t \in Component(s, nodes, linked)
    <2>1. f[s] \in Component(s, nodes, linked) /\ f[t] \in Component(t, nodes, linked)
        BY DEF Labels
    <2>2. t \in Component(f[t], nodes, linked)
        BY <2>1, ComponentSymmetric
    <2> QED
        BY <1>1, <2>1, <2>2, ComponentNests
<1>2. ASSUME t \in Component(s, nodes, linked) PROVE f[s] = f[t]
    <2> DEFINE C == {u \in nodes : f[u] = f[s]}
    <2>1. Closed(C, nodes, linked)
        BY DEF Closed, Labels
    <2> QED
        BY <1>2, <2>1, ComponentInClosed
<1> QED
    BY <1>1, <1>2
-----------------------------------------------------------------------------
\* Initially every subject is the root of its own tree.
LEMMA DecisionInitInv == DecisionInit => DecisionInv
<1> SUFFICES ASSUME DecisionInit PROVE DecisionInv
    OBVIOUS
<1> DEFINE f == [s \in nodes |-> s]
           d == [s \in nodes |-> 0]
<1>1. DecisionTypeOK /\ linked \subseteq Inner
    BY IssueAssumption, DependencyAssumption DEF DecisionInit, DecisionTypeOK, Inner, Pair
<1>2. d \in [nodes -> Nat] /\ Falls(d)
    BY DEF DecisionInit, Falls
<1>3. f \in [nodes -> nodes] /\ Labels(f)
    BY ComponentHasSelf DEF DecisionInit, Labels
<1>4. Finds(f)
    BY DEF DecisionInit, Finds
<1>5. Progress(f)
    BY DEF DecisionInit, Progress, Inner
<1> QED
    BY <1>1, <1>2, <1>3, <1>4, <1>5 DEF DecisionInv

\* One step of find, of a loop or between two loops keeps the invariant.
LEMMA DecisionStepInv == DecisionInv /\ [DecisionNext]_decisionVars => DecisionInv'
<1> SUFFICES ASSUME DecisionInv, [DecisionNext]_decisionVars PROVE DecisionInv'
    OBVIOUS
<1>d. PICK d \in [nodes -> Nat] : Falls(d)
    BY DEF DecisionInv
<1>f. PICK f \in [nodes -> nodes] : Labels(f) /\ Finds(f) /\ Progress(f)
    BY DEF DecisionInv
<1>t. DecisionTypeOK /\ linked \subseteq Inner
    BY DEF DecisionInv
<1> USE IssueAssumption, DependencyAssumption
<1>1. CASE Halve
    <2>1. /\ at \in nodes /\ parent \in [nodes -> nodes]
          /\ parent[at] \in nodes /\ parent[parent[at]] \in nodes /\ parent[at] # at
        BY <1>1, <1>t DEF Halve, DecisionTypeOK
    <2>2. /\ UNCHANGED <<snapshot, stage, left, linked, item, target, excluded, groups>>
          /\ nodes' = nodes /\ edges' = edges /\ claimed' = claimed
          /\ eligible' = eligible /\ malformed' = malformed
          /\ parent' = [parent EXCEPT ![at] = parent[parent[at]]]
          /\ at' = parent[parent[at]]
        BY <1>1 DEF Halve, snapshot
    <2>3. Inner' = Inner
        BY <2>2 DEF Inner
    <2>4. DecisionTypeOK' /\ linked' \subseteq Inner'
        BY <2>1, <2>2, <2>3, <1>t DEF DecisionTypeOK
    <2>5. Falls(d)'
        BY <2>1, <2>2, <1>d DEF Falls
    <2>6. parent[parent[at]] # at
        BY <2>1, <1>d DEF Falls
    <2>7. Labels(f)'
        BY <2>1, <2>2, <2>6, <1>f DEF Labels
    <2>8. f[at'] = f[at] /\ at' # Nobody /\ at # Nobody
        <3>1. f[parent[at]] = f[at] /\ f[parent[parent[at]]] = f[parent[at]]
            BY <2>1, <1>f DEF Labels
        <3>2. Nobody \notin nodes
            BY <1>t DEF DecisionTypeOK
        <3> QED
            BY <2>1, <2>2, <3>1, <3>2
    <2>9. Finds(f)'
        BY <2>1, <2>2, <2>3, <2>8, <1>f DEF Finds
    <2>10. Unseen' = Unseen
        BY <2>2, <2>8 DEF Unseen
    <2>11. Progress(f)'
        BY <2>2, <2>3, <2>8, <2>10, <1>f DEF Progress
    <2> QED
        BY <2>2, <2>4, <2>5, <2>7, <2>9, <2>11 DEF DecisionInv
<1>2. CASE \E i \in left : Take(i)
    <2> PICK i \in left : Take(i)
        BY <1>2
    <2>2. /\ nodes' = nodes /\ edges' = edges /\ claimed' = claimed
          /\ eligible' = eligible /\ malformed' = malformed
          /\ stage' = stage /\ parent' = parent /\ linked' = linked /\ target' = target
          /\ excluded' = excluded /\ groups' = groups
          /\ at = Nobody /\ stage \in {"dependency", "exclude", "group"}
          /\ item' = i /\ left' = left \ {i} /\ at' = i[2]
        BY DEF Take, snapshot
    <2>3. Inner' = Inner
        BY <2>2 DEF Inner
    <2>m. ~malformed
        BY <2>2, <1>f DEF Progress
    <2>4. i \in nodes \X nodes /\ (stage = "dependency" => i \in Inner)
          /\ (stage # "dependency" => i[1] = i[2])
          /\ (stage = "exclude" => i[1] \in claimed)
        BY <2>2, <2>m, <1>f, <1>t DEF Progress, Inner, DecisionTypeOK, Pair
    <2>5. DecisionTypeOK' /\ linked' \subseteq Inner'
        BY <2>2, <2>3, <2>4, <1>t DEF DecisionTypeOK, Pair
    <2>6. Falls(d)' /\ Labels(f)'
        BY <2>2, <1>d, <1>f DEF Falls, Labels
    <2>7. Finds(f)'
        BY <2>2, <2>3, <2>4, <1>f DEF Finds
    <2>9. at' # Nobody
        BY <2>2, <2>4, <1>t DEF DecisionTypeOK
    <2>8. ASSUME stage # "dependency" PROVE Unseen' = Unseen
        <3>1. i = <<i[1], i[1]>> /\ i[1] \in nodes
            BY <2>4, <2>8
        <3>2. \A s \in nodes : <<s, s>> \in left <=> <<s, s>> \in left' \/ item'[1] = s
            BY <2>2, <3>1
        <3> QED
            BY <2>2, <2>9, <3>2 DEF Unseen
    <2>10. Progress(f)'
        BY <2>2, <2>3, <2>4, <2>8, <2>9, <2>m, <1>f DEF Progress
    <2> QED
        BY <2>2, <2>5, <2>6, <2>7, <2>10 DEF DecisionInv
<1>3. CASE FoundDependency
    <2>2. /\ nodes' = nodes /\ edges' = edges /\ claimed' = claimed
          /\ eligible' = eligible /\ malformed' = malformed
          /\ stage = "dependency" /\ stage' = "subject" /\ parent' = parent
          /\ linked' = linked /\ left' = left /\ item' = item
          /\ excluded' = excluded /\ groups' = groups
          /\ at # Nobody /\ parent[at] = at /\ target' = at /\ at' = item[1]
        BY <1>3 DEF FoundDependency, AtRoot, snapshot
    <2>3. Inner' = Inner
        BY <2>2 DEF Inner
    <2>4. /\ item \in Inner /\ item[1] \in nodes /\ at \in nodes /\ item[1] # Nobody
          /\ f[item[2]] = at
        BY <2>2, <1>f, <1>t DEF Finds, Labels, DecisionTypeOK
    <2>5. DecisionTypeOK' /\ linked' \subseteq Inner'
        BY <2>2, <2>3, <2>4, <1>t DEF DecisionTypeOK
    <2>6. Falls(d)' /\ Labels(f)'
        BY <2>2, <1>d, <1>f DEF Falls, Labels
    <2>7. Finds(f)'
        BY <2>2, <2>3, <2>4, <1>f DEF Finds
    <2>8. Progress(f)'
        BY <2>2, <2>3, <2>4, <1>f DEF Progress
    <2> QED
        BY <2>2, <2>5, <2>6, <2>7, <2>8 DEF DecisionInv
<1>4. CASE FoundSubject
    <2>2. /\ nodes' = nodes /\ edges' = edges /\ claimed' = claimed
          /\ eligible' = eligible /\ malformed' = malformed
          /\ stage = "subject" /\ stage' = "dependency"
          /\ left' = left /\ item' = item /\ target' = target
          /\ excluded' = excluded /\ groups' = groups
          /\ parent[at] = at /\ at' = Nobody
          /\ parent' = [parent EXCEPT ![at] = target] /\ linked' = linked \cup {item}
        BY <1>4 DEF FoundSubject, AtRoot, snapshot
    <2>3. Inner' = Inner
        BY <2>2 DEF Inner
    <2>4. /\ at \in nodes /\ target \in nodes /\ item \in Inner
          /\ item[1] \in nodes /\ item[2] \in nodes /\ item = <<item[1], item[2]>>
          /\ parent[target] = target
          /\ f[at] = at /\ f[target] = target
          /\ f[item[1]] = at /\ f[item[2]] = target
        BY <2>2, <1>f, <1>t DEF Finds, Labels, DecisionTypeOK
    <2>5. DecisionTypeOK' /\ linked' \subseteq Inner'
        BY <2>2, <2>3, <2>4, <1>t DEF DecisionTypeOK, Inner
    <2>g. PICK g : g = [s \in nodes |-> IF f[s] = at THEN target ELSE f[s]]
        OBVIOUS
    <2>c. PICK c : c = [s \in nodes |-> IF f[s] = at THEN d[s] + d[target] + 1 ELSE d[s]]
        OBVIOUS
    <2>6. c \in [nodes' -> Nat] /\ (at # target => Falls(c)')
        <3>1. c \in [nodes' -> Nat]
            BY <2>2, <2>4, <2>c
        <3>2. ASSUME at # target, NEW s \in nodes, parent'[s] # s PROVE c[parent'[s]] < c[s]
            <4>1. CASE s = at
                BY <2>2, <2>4, <2>c, <3>2, <4>1, <1>t DEF DecisionTypeOK
            <4>2. CASE s # at
                <5>1. parent'[s] = parent[s] /\ parent[s] \in nodes /\ f[parent[s]] = f[s]
                    BY <2>2, <2>4, <4>2, <1>f, <1>t DEF Labels, DecisionTypeOK
                <5>2. d[parent[s]] < d[s] /\ d[s] \in Nat /\ d[parent[s]] \in Nat /\ d[target] \in Nat
                    BY <5>1, <3>2, <2>4, <1>d DEF Falls
                <5> QED
                    BY <2>c, <5>1, <5>2
            <4> QED
                BY <4>1, <4>2
        <3> QED
            BY <2>2, <3>1, <3>2 DEF Falls
    <2>7. at = target => Falls(d)'
        BY <2>2, <2>4, <1>d, <1>t DEF Falls, DecisionTypeOK
    <2>8. g \in [nodes' -> nodes'] /\ Labels(g)'
        <3>1. g \in [nodes -> nodes]
            BY <2>4, <2>g
        <3>2. \A s \in nodes : g[parent'[s]] = g[s]
            <4> TAKE s \in nodes
            <4>1. CASE s = at
                BY <2>2, <2>4, <2>g, <4>1, <1>t DEF DecisionTypeOK
            <4>2. CASE s # at
                BY <2>2, <2>4, <2>g, <4>2, <1>f, <1>t DEF Labels, DecisionTypeOK
            <4> QED
                BY <4>1, <4>2
        <3>3. \A s \in nodes : parent'[s] = s => g[s] = s
            BY <2>2, <2>4, <2>g, <1>f, <1>t DEF Labels, DecisionTypeOK
        <3>4. \A s \in nodes : g[s] \in Component(s, nodes, linked')
            <4> TAKE s \in nodes
            <4>1. \A u : Component(u, nodes, linked) \subseteq Component(u, nodes, linked')
                BY <2>2, ComponentMonotone
            <4>2. f[s] \in Component(s, nodes, linked')
                BY <4>1, <1>f DEF Labels
            <4>3. CASE f[s] # at
                BY <2>g, <4>2, <4>3
            <4>4. CASE f[s] = at
                <5>1. at \in Component(item[1], nodes, linked')
                      /\ target \in Component(item[2], nodes, linked')
                    BY <2>4, <4>1, <1>f DEF Labels
                <5>2. item[1] \in Component(s, nodes, linked')
                    BY <5>1, <4>2, <4>4, <2>4, ComponentSymmetric, ComponentNests
                <5>3. item[2] \in Component(s, nodes, linked')
                    <6>1. <<item[1], item[2]>> \in linked'
                        BY <2>2, <2>4
                    <6> QED
                        BY <5>2, <6>1, <2>4, ComponentClosed DEF Closed
                <5> QED
                    BY <2>g, <5>1, <5>3, <4>4, ComponentNests
            <4> QED
                BY <4>3, <4>4
        <3>5. \A e \in linked' : g[e[1]] = g[e[2]]
            BY <2>2, <2>4, <2>g, <1>f, <1>t DEF Labels, Inner
        <3> QED
            BY <2>2, <3>1, <3>2, <3>3, <3>4, <3>5 DEF Labels
    <2>9. Finds(g)'
        BY <2>2 DEF Finds
    <2>10. Progress(g)'
        BY <2>2, <2>3, <2>4, <1>f, <1>t DEF Progress, DecisionTypeOK
    <2>11. \E x \in [nodes' -> Nat] : Falls(x)'
        BY <2>2, <2>6, <2>7, <1>d
    <2>12. \E x \in [nodes' -> nodes'] : Labels(x)' /\ Finds(x)' /\ Progress(x)'
        BY <2>8, <2>9, <2>10
    <2> QED
        BY <2>5, <2>11, <2>12 DEF DecisionInv
<1>5. CASE FoundClaimed
    <2>2. /\ nodes' = nodes /\ edges' = edges /\ claimed' = claimed
          /\ eligible' = eligible /\ malformed' = malformed
          /\ stage = "exclude" /\ stage' = stage /\ parent' = parent /\ linked' = linked
          /\ left' = left /\ item' = item /\ target' = target /\ groups' = groups
          /\ at # Nobody /\ parent[at] = at /\ at' = Nobody
          /\ excluded' = excluded \cup {at}
        BY <1>5 DEF FoundClaimed, AtRoot, snapshot
    <2>3. Inner' = Inner
        BY <2>2 DEF Inner
    <2>4. /\ at \in nodes /\ item[1] \in claimed /\ f[item[1]] = at
          /\ excluded = {f[s] : s \in claimed \ Unseen}
          /\ left \subseteq {<<s, s>> : s \in claimed}
        BY <2>2, <1>f, <1>t DEF Finds, Labels, Progress, DecisionTypeOK
    <2>5. DecisionTypeOK' /\ linked' \subseteq Inner'
        BY <2>2, <2>3, <2>4, <1>t DEF DecisionTypeOK
    <2>6. Falls(d)' /\ Labels(f)' /\ Finds(f)'
        BY <2>2, <1>d, <1>f DEF Falls, Labels, Finds
    <2>7. excluded' = {f[s] : s \in claimed \ Unseen'}
        <3>1. \A s \in claimed : s \in Unseen' => s \in Unseen
            BY <2>2 DEF Unseen
        <3>2. \A s \in claimed : s \in Unseen => s \in Unseen' \/ s = item[1]
            BY <2>2 DEF Unseen
        <3>3. item[1] \notin Unseen'
            <4>1. item = <<item[1], item[1]>> /\ item \notin left
                BY <2>2, <1>f DEF Finds
            <4> QED
                BY <4>1, <2>2 DEF Unseen
        <3> QED
            BY <3>1, <3>2, <3>3, <2>2, <2>4
    <2>8. Progress(f)'
        BY <2>2, <2>3, <2>4, <2>7, <1>f DEF Progress
    <2> QED
        BY <2>2, <2>5, <2>6, <2>8 DEF DecisionInv
<1>6. CASE FoundMember
    <2>2. /\ nodes' = nodes /\ edges' = edges /\ claimed' = claimed
          /\ eligible' = eligible /\ malformed' = malformed
          /\ stage = "group" /\ stage' = stage /\ parent' = parent /\ linked' = linked
          /\ left' = left /\ item' = item /\ target' = target /\ excluded' = excluded
          /\ at # Nobody /\ parent[at] = at /\ at' = Nobody
          /\ groups' = IF at \notin excluded /\ item[1] \in eligible
                       THEN groups \cup {<<at, item[1]>>} ELSE groups
        BY <1>6 DEF FoundMember, AtRoot, snapshot
    <2>3. Inner' = Inner /\ ~malformed
        BY <2>2, <1>f DEF Inner, Progress
    <2>4. /\ at \in nodes /\ item[1] \in nodes /\ f[item[1]] = at
          /\ item = <<item[1], item[1]>> /\ item \notin left
        BY <2>2, <1>f, <1>t DEF Finds, Labels, DecisionTypeOK
    <2>5. DecisionTypeOK' /\ linked' \subseteq Inner'
        BY <2>2, <2>3, <2>4, <1>t DEF DecisionTypeOK
    <2>6. Falls(d)' /\ Labels(f)' /\ Finds(f)'
        BY <2>2, <1>d, <1>f DEF Falls, Labels, Finds
    <2>7. groups' = {<<f[s], s>> : s \in {t \in eligible \ Unseen' : f[t] \notin excluded}}
        <3>1. Unseen = Unseen' \cup {item[1]} /\ item[1] \notin Unseen'
            BY <2>2, <2>4 DEF Unseen
        <3>2. groups = {<<f[s], s>> : s \in {t \in eligible \ Unseen : f[t] \notin excluded}}
            BY <2>2, <2>3, <1>f DEF Progress
        <3> QED
            BY <2>2, <2>4, <3>1, <3>2
    <2>8. Progress(f)'
        BY <2>2, <2>3, <2>7, <1>f DEF Progress
    <2> QED
        BY <2>2, <2>5, <2>6, <2>8 DEF DecisionInv
<1>7. CASE NextStage
    <2>2. /\ nodes' = nodes /\ edges' = edges /\ claimed' = claimed
          /\ eligible' = eligible /\ malformed' = malformed
          /\ parent' = parent /\ linked' = linked /\ item' = item /\ target' = target
          /\ excluded' = excluded /\ groups' = groups
          /\ at = Nobody /\ at' = at /\ left = {}
          /\ \/ stage = "dependency" /\ stage' = "exclude" /\ left' = {<<s, s>> : s \in claimed}
             \/ stage = "exclude" /\ stage' = "group" /\ left' = {<<s, s>> : s \in nodes}
             \/ stage = "group" /\ stage' = "done" /\ left' = {}
        BY <1>7 DEF NextStage, snapshot
    <2>3. Inner' = Inner /\ ~malformed
        BY <2>2, <1>f DEF Inner, Progress
    <2>4. DecisionTypeOK' /\ linked' \subseteq Inner'
        BY <2>2, <2>3, <1>t DEF DecisionTypeOK, Pair
    <2>5. Falls(d)' /\ Labels(f)' /\ Finds(f)'
        BY <2>2, <1>d, <1>f DEF Falls, Labels, Finds
    <2>6. Progress(f)'
        <3>1. CASE stage = "dependency"
            <4>1. Unseen' = claimed
                BY <2>2, <3>1, <1>t, ZenonT(30) DEF Unseen, DecisionTypeOK
            <4>2. Inner = linked /\ excluded = {} /\ groups = {}
                BY <2>2, <3>1, <1>f DEF Progress
            <4> QED
                BY <2>2, <2>3, <3>1, <4>1, <4>2 DEF Progress
        <3>2. CASE stage = "exclude"
            <4>1. Unseen' = nodes /\ Unseen = {}
                BY <2>2, <3>2 DEF Unseen
            <4>2. Inner = linked /\ excluded = {f[s] : s \in claimed} /\ groups = {}
                BY <2>2, <2>3, <3>2, <4>1, <1>f DEF Progress
            <4>3. {t \in eligible \ Unseen' : f[t] \notin excluded} = {}
                BY <4>1, <1>t DEF DecisionTypeOK
            <4> QED
                BY <2>2, <2>3, <3>2, <4>2, <4>3 DEF Progress
        <3>3. CASE stage = "group"
            <4>1. Unseen' = Unseen
                BY <2>2, <3>3 DEF Unseen
            <4> QED
                BY <2>2, <2>3, <3>3, <4>1, <1>f DEF Progress
        <3> QED
            BY <2>2, <3>1, <3>2, <3>3
    <2> QED
        BY <2>2, <2>4, <2>5, <2>6 DEF DecisionInv
<1>8. CASE UNCHANGED decisionVars
    <2>1. /\ nodes' = nodes /\ edges' = edges /\ claimed' = claimed
          /\ eligible' = eligible /\ malformed' = malformed
          /\ stage' = stage /\ left' = left /\ parent' = parent /\ linked' = linked
          /\ item' = item /\ at' = at /\ target' = target
          /\ excluded' = excluded /\ groups' = groups
        BY <1>8 DEF decisionVars, snapshot
    <2>2. Inner' = Inner /\ Unseen' = Unseen
        BY <2>1 DEF Inner, Unseen
    <2>3. DecisionTypeOK' /\ linked' \subseteq Inner'
        BY <2>1, <2>2, <1>t DEF DecisionTypeOK
    <2>4. Falls(d)' /\ Labels(f)' /\ Finds(f)' /\ Progress(f)'
        BY <2>1, <2>2, <1>d, <1>f DEF Falls, Labels, Finds, Progress
    <2> QED
        BY <2>1, <2>3, <2>4 DEF DecisionInv
<1> QED
    BY <1>1, <1>2, <1>3, <1>4, <1>5, <1>6, <1>7, <1>8 DEF DecisionNext
-----------------------------------------------------------------------------
\* The labelling invariant holds throughout the call.
LEMMA DecisionInvariance == DecisionSpec => []DecisionInv
BY DecisionInitInv, DecisionStepInv, PTL DEF DecisionSpec

\* Every step of the decision keeps the types of its state.
THEOREM DecisionTypeCorrect == DecisionSpec => []DecisionTypeOK
<1>1. DecisionInv => DecisionTypeOK
    BY DEF DecisionInv
<1> QED
    BY <1>1, DecisionInvariance, PTL

\* When the loops are over, the groups are the frontier by component.
LEMMA GroupsDecide == DecisionInv => Decides
<1> SUFFICES ASSUME DecisionInv, stage = "done"
             PROVE  /\ DecidedFrontier = Frontier(nodes, edges, claimed, eligible, malformed)
                    /\ DecidedWinners = Winners(nodes, edges, claimed, eligible, malformed)
    BY DEF Decides
<1>t. DecisionTypeOK /\ linked \subseteq Inner
    BY DEF DecisionInv
<1>f. PICK f \in [nodes -> nodes] : Labels(f) /\ Finds(f) /\ Progress(f)
    BY DEF DecisionInv
<1> DEFINE F == Frontier(nodes, edges, claimed, eligible, malformed)
<1>1. CASE malformed
    <2>1. groups = {}
        BY <1>1, <1>f DEF Progress
    <2>2. F = {} /\ Winners(nodes, edges, claimed, eligible, malformed) = {}
        BY <1>1 DEF Frontier, Winners
    <2> QED
        BY <2>1, <2>2 DEF DecidedFrontier, DecidedWinners
<1>2. CASE ~malformed
    <2>1. Inner = linked /\ excluded = {f[s] : s \in claimed}
          /\ left = {} /\ at = Nobody
          /\ groups = {<<f[s], s>> : s \in {t \in eligible \ Unseen : f[t] \notin excluded}}
        BY <1>2, <1>f DEF Progress
    <2>2. groups = {<<f[s], s>> : s \in {t \in eligible : f[t] \notin excluded}}
        <3>1. Unseen = {}
            BY <2>1 DEF Unseen
        <3> QED
            BY <2>1, <3>1
    <2>3. \A s : Component(s, nodes, edges) = Component(s, nodes, linked)
        <3>1. \A a, b \in nodes : <<a, b>> \in edges <=> <<a, b>> \in linked
            BY <2>1 DEF Inner
        <3> QED
            BY <3>1, ComponentInner
    <2>4. \A s, t \in nodes : f[s] = f[t] <=> t \in Component(s, nodes, edges)
        BY <2>3, <1>f, <1>t, SameLabel
    <2>5. \A s \in eligible : f[s] \notin excluded <=> Component(s, nodes, edges) \cap claimed = {}
        BY <2>1, <2>4, <1>t DEF DecisionTypeOK
    <2>6. F = {s \in eligible : f[s] \notin excluded}
        BY <2>5, <1>2, <1>t DEF Frontier, DecisionTypeOK
    <2>7. groups = {<<f[s], s>> : s \in F}
        BY <2>2, <2>6
    <2>8. DecidedFrontier = F
        <3>1. \A s \in F : <<f[s], s>> \in groups /\ <<f[s], s>>[2] = s
            BY <2>7
        <3>2. \A g \in groups : g[2] \in F
            BY <2>7
        <3> HIDE DEF F
        <3> QED
            BY <3>1, <3>2 DEF DecidedFrontier
    <2>9. DecidedWinners = {s \in F : \A t \in F : f[t] = f[s] => s <= t}
        <3> DEFINE First(p) == \A q \in groups : q[1] = p[1] => p[2] <= q[2]
        <3>1. \A s \in F : <<f[s], s>> \in groups
            BY <2>7
        <3>2. \A p \in groups : p[2] \in F /\ p = <<f[p[2]], p[2]>>
            BY <2>7
        <3>3. \A p \in groups : First(p) <=> \A t \in F : f[t] = f[p[2]] => p[2] <= t
            <4> TAKE p \in groups
            <4> HIDE DEF F
            <4>1. ASSUME First(p), NEW t \in F, f[t] = f[p[2]] PROVE p[2] <= t
                <5>1. <<f[t], t>> \in groups /\ <<f[t], t>>[1] = p[1] /\ <<f[t], t>>[2] = t
                    BY <3>1, <3>2, <4>1
                <5> QED
                    BY <4>1, <5>1
            <4>2. ASSUME \A t \in F : f[t] = f[p[2]] => p[2] <= t, NEW q \in groups, q[1] = p[1]
                  PROVE  p[2] <= q[2]
                <5>1. q[2] \in F /\ f[q[2]] = q[1] /\ f[p[2]] = p[1]
                    BY <3>2
                <5> QED
                    BY <4>2, <5>1
            <4> QED
                BY <4>1, <4>2
        <3>4. DecidedWinners = {p[2] : p \in {p \in groups : First(p)}}
            BY DEF DecidedWinners
        <3> HIDE DEF F, First
        <3> QED
            BY <3>1, <3>2, <3>3, <3>4
    <2>10. \A s \in F : \A t \in nodes :
               t \in F /\ f[t] = f[s] <=> t \in Component(s, nodes, edges) \cap eligible
        BY <2>4, <2>6, <1>t DEF DecisionTypeOK
    <2>11. DecidedWinners = Winners(nodes, edges, claimed, eligible, malformed)
        BY <2>6, <2>9, <2>10, <1>t DEF Winners, DecisionTypeOK
    <2> QED
        BY <2>8, <2>11
<1> QED
    BY <1>1, <1>2

\* The union-find decides the frontier and the winners of ScheduleDomain, for any
\* number of issues, any dependency graph and any order of linking.
THEOREM DecisionIsCorrect == DecisionSpec => []Decides
BY DecisionInvariance, GroupsDecide, PTL
=============================================================================
