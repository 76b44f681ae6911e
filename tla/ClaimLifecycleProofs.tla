------------------------ MODULE ClaimLifecycleProofs ------------------------
(***************************************************************************)
(* For any number of sweepers, executor roots and issues, with any races   *)
(* and failures: the sweep's types, and that nothing is flipped or freed   *)
(* whose classified head is not preserved.                                 *)
(***************************************************************************)
EXTENDS ClaimLifecycle, TLAPS

\* What the lanes keep of the shared state: facts about its values first.
LEMMA ProviderValues ==
    /\ 0 \in Commit
    /\ \A n \in Commit : n < MaxCommits => n + 1 \in Commit
    /\ \A n \in Commit : n # None
    /\ \A n \in 0 .. MaxEdits : n < MaxEdits => n + 1 \in 0 .. MaxEdits
    /\ Malformed \in Body
    /\ \A b \in Body : b.boundary \in Boundary \cup {Undeclared}
    /\ \A b \in Body, state \in State : ReplaceState(b, state) \in Body
  <1>1. MaxCommits \in Nat /\ MaxEdits \in Nat
    BY BoundsAssumption
  <1>2. Commit \subseteq Nat
    BY <1>1 DEF Commit
  <1>3. 0 \in Commit /\ \A n \in Commit : n < MaxCommits => n + 1 \in Commit
    BY <1>1 DEF Commit
  <1>4. \A n \in Commit : n # None
    BY <1>2, NoneAssumption
  <1>5. \A n \in 0 .. MaxEdits : n < MaxEdits => n + 1 \in 0 .. MaxEdits
    BY <1>1
  <1>6. Malformed \in Body
    BY DEF Body
  <1>7. \A b \in Body : b.boundary \in Boundary \cup {Undeclared}
    BY DEF Body, Contract, Malformed
  <1>8. \A b \in Body, state \in State : ReplaceState(b, state) \in Body
    BY <1>7 DEF ReplaceState, Body, Contract
  <1> QED
    BY <1>3, <1>4, <1>5, <1>6, <1>7, <1>8

LEMMA ProviderInitType == ProviderInit => ProviderTypeOK
  <1> SUFFICES ASSUME ProviderInit PROVE ProviderTypeOK
    OBVIOUS
  <1> USE DEF ProviderInit
  <1>1. body \in [Subject -> Body]
    <2> SUFFICES ASSUME NEW s \in Subject
                 PROVE  [state |-> "ready", boundary |-> Declared[s]] \in Body
      OBVIOUS
    <2> QED
      BY BoundaryAssumption DEF Body, Contract, State
  <1> QED
    BY <1>1, ProviderValues, BoundsAssumption DEF ProviderTypeOK

LEMMA LaneType ==
  ASSUME ProviderTypeOK, Lane
  PROVE  ProviderTypeOK'
  <1> USE DEF ProviderTypeOK, githubVars, rootVars
  <1>1. ASSUME NEW e \in Root, PromoteOrders(e) PROVE ProviderTypeOK'
    BY <1>1 DEF PromoteOrders
  <1>2. ASSUME NEW e \in Root, NEW s \in Subject, StartSession(e, s) PROVE ProviderTypeOK'
    BY <1>2 DEF StartSession
  <1>3. ASSUME NEW e \in Root, NEW s \in Subject, LoseSession(e, s) PROVE ProviderTypeOK'
    BY <1>3 DEF LoseSession
  <1>4. ASSUME NEW e \in Root, NEW s \in Subject, DropOrder(e, s) PROVE ProviderTypeOK'
    BY <1>4 DEF DropOrder
  <1>5. ASSUME NEW e \in Root, NEW s \in Subject, PushCommit(e, s) PROVE ProviderTypeOK'
    BY <1>5, ProviderValues DEF PushCommit
  <1>6. ASSUME NEW e \in Root, NEW s \in Subject, OpenPullRequest(e, s) PROVE ProviderTypeOK'
    BY <1>6 DEF OpenPullRequest
  <1>7. ASSUME NEW e \in Root, NEW s \in Subject, ExecuteHandoff(e, s) PROVE ProviderTypeOK'
    <2>1. ReplaceState(body[s], "awaiting_land") \in Body
      BY ProviderValues DEF State
    <2> QED
      BY <1>7, <2>1 DEF ExecuteHandoff
  <1>8. ASSUME NEW s \in Subject, LandPullRequest(s) PROVE ProviderTypeOK'
    <2>1. ReplaceState(body[s], "landed") \in Body
      BY ProviderValues DEF State
    <2> QED
      BY <1>8, <2>1 DEF LandPullRequest
  <1> QED
    BY <1>1, <1>2, <1>3, <1>4, <1>5, <1>6, <1>7, <1>8 DEF Lane

LEMMA ProviderKept ==
  ASSUME ProviderTypeOK, UNCHANGED <<githubVars, rootVars>>
  PROVE  ProviderTypeOK'
  BY DEF ProviderTypeOK, githubVars, rootVars
-----------------------------------------------------------------------------

LEMMA Values ==
    /\ 0 \in Job
    /\ \A n \in Job : n < MaxRuns => n + 1 \in Job
    /\ \A n \in 0 .. MaxFailures : n < MaxFailures => n + 1 \in 0 .. MaxFailures
    /\ Resting.subject = None /\ Resting.call = "idle"
  BY LimitsAssumption DEF Job, Resting

\* A sweeper that is not idle works on one issue, from one head.
LEMMA Working ==
  ASSUME TypeOK, NEW w \in Sweeper, sweep[w].call \in Call
  PROVE  sweep[w] \in Sweep
  BY DEF TypeOK, Resting, Call

LEMMA InitTypeOK == Init => TypeOK
  <1> SUFFICES ASSUME Init PROVE TypeOK
    OBVIOUS
  <1>1. ProviderTypeOK
    BY ProviderInitType DEF Init
  <1>2. runs \in Job /\ failures \in 0 .. MaxFailures
    BY LimitsAssumption DEF Init, Job
  <1>3. failed \in [Commit -> Job]
    BY Values DEF Init
  <1> QED
    BY <1>1, <1>2, <1>3 DEF Init, TypeOK

LEMMA GoesType ==
  ASSUME TypeOK, NEW w \in Sweeper, NEW call \in Call, sweep[w] \in Sweep, Goes(w, call)
  PROVE  sweep' \in [Sweeper -> Sweep \cup {Resting}]
  BY DEF TypeOK, Goes, Sweep

LEMMA RestsType ==
  ASSUME TypeOK, NEW w \in Sweeper, Rests(w)
  PROVE  sweep' \in [Sweeper -> Sweep \cup {Resting}]
  BY DEF TypeOK, Rests

LEMMA EmitType ==
  ASSUME TypeOK, NEW e \in Root, NEW s \in Subject, NEW event \in Commit \X Job,
         Emit(e, s, event)
  PROVE  /\ repairs' \in [Root -> [Subject -> SUBSET (Commit \X Job)]]
         /\ recent' \in [Root -> [Subject -> BOOLEAN]]
  BY DEF TypeOK, Emit

\* What a sweep reads changes nothing but the sweep.
LEMMA ReadingType ==
  ASSUME TypeOK, sweep' \in [Sweeper -> Sweep \cup {Resting}],
         UNCHANGED <<githubVars, rootVars, claimVars, ledgerVars, runVars, failures>>
  PROVE  TypeOK'
  BY ProviderKept DEF TypeOK, claimVars, ledgerVars, runVars

LEMMA StartType ==
  ASSUME TypeOK, NEW w \in Sweeper, Starts(w)
  PROVE  TypeOK'
  <1>1. PICK s \in Subject : ReadRefs(w, s) \/ RepairPending(w, s)
    BY DEF Starts
  <1>2. ref[s] \in Commit /\ Malformed \in Body
    BY <1>1, ProviderValues DEF ReadRefs, RepairPending, Claims, TypeOK, ProviderTypeOK
  <1>3. CASE ReadRefs(w, s)
    <2>1. [Resting EXCEPT !.call = "issue", !.subject = s, !.head = ref[s]] \in Sweep
      BY <1>2 DEF Resting, Sweep, Call
    <2> QED
      BY <1>3, <2>1, ReadingType DEF ReadRefs, TypeOK
  <1>4. CASE RepairPending(w, s)
    <2>1. [Resting EXCEPT !.call = "adopt", !.by = "repair", !.subject = s, !.head = ref[s]]
            \in Sweep
      BY <1>2 DEF Resting, Sweep, Call
    <2> QED
      BY <1>4, <2>1, ReadingType DEF RepairPending, TypeOK
  <1> QED
    BY <1>1, <1>3, <1>4

LEMMA SweepType ==
  ASSUME TypeOK, NEW w \in Sweeper, Sweeps(w)
  PROVE  TypeOK'
  <1>1. sweep[w] \in Sweep
    <2>1. sweep[w].call \in Call
      BY DEF Sweeps, At, Call, ReadIssue, ClassifyClaim, AdoptRefused, AdoptAgain, AdoptClaim,
             AdoptExhausted, ReadFailure, Preserve, ReadState, FlipReady, ReadBack, FreeBranch,
             WriteReceipt
    <2> QED
      BY <2>1, Working
  <1>2. /\ sweep[w].subject \in Subject /\ sweep[w].head \in Commit /\ sweep[w].body \in Body
        /\ body[sweep[w].subject] \in Body
    BY <1>1 DEF Sweep, TypeOK, ProviderTypeOK
  <1>3. \A call \in Call : Goes(w, call) => sweep' \in [Sweeper -> Sweep \cup {Resting}]
    BY <1>1, GoesType
  <1>4. \A call \in Call :
          sweep' = [sweep EXCEPT ![w].call = call, ![w].body = body[sweep[w].subject]]
            => sweep' \in [Sweeper -> Sweep \cup {Resting}]
    <2> SUFFICES ASSUME NEW call \in Call,
                        sweep' = [sweep EXCEPT ![w].call = call,
                                               ![w].body = body[sweep[w].subject]]
                 PROVE  sweep' \in [Sweeper -> Sweep \cup {Resting}]
      OBVIOUS
    <2> DEFINE new == [sweep[w] EXCEPT !.call = call, !.body = body[sweep[w].subject]]
    <2>1. new \in Sweep
      BY <1>1, <1>2 DEF Sweep
    <2>2. sweep' = [sweep EXCEPT ![w] = new]
      BY DEF TypeOK
    <2> HIDE DEF new
    <2> QED
      BY <2>1, <2>2 DEF TypeOK
  <1>5. CASE ReadIssue(w) \/ ReadState(w)
    BY <1>4, <1>5, RestsType, ReadingType DEF ReadIssue, ReadState, Call
  <1>6. CASE ClassifyClaim(w) \/ ReadFailure(w) \/ ReadBack(w)
    BY <1>3, <1>6, RestsType, ReadingType DEF ClassifyClaim, ReadFailure, ReadBack, Call
  <1>7. Refused(w) => sweep' \in [Sweeper -> Sweep \cup {Resting}]
    BY <1>3, RestsType DEF Refused, Call
  <1>8. CASE AdoptRefused(w) \/ AdoptAgain(w)
    BY <1>7, <1>8, RestsType, ReadingType DEF AdoptRefused, AdoptAgain
  <1>9. ASSUME NEW event \in Commit \X Job, Emit(Home[w], sweep[w].subject, event),
               UNCHANGED <<githubVars, rootVars, claimVars, runVars, failures>>,
               sweep' \in [Sweeper -> Sweep \cup {Resting}]
        PROVE  TypeOK'
    <2>1. Home[w] \in Root
      BY HomeAssumption
    <2> QED
      BY <1>2, <1>9, <2>1, EmitType, ProviderKept DEF TypeOK, claimVars, runVars
  <1>10. CASE AdoptClaim(w)
    <2>1. <<sweep[w].head, failed[sweep[w].head]>> \in Commit \X Job
      BY <1>2 DEF TypeOK
    <2> QED
      BY <1>9, <1>10, <2>1, RestsType DEF AdoptClaim
  <1>11. CASE AdoptExhausted(w)
    <2>1. <<sweep[w].head, 0>> \in Commit \X Job
      BY <1>2, Values
    <2> QED
      BY <1>7, <1>9, <1>11, <2>1 DEF AdoptExhausted
  <1>12. CASE Preserve(w)
    <2>1. sweep' \in [Sweeper -> Sweep \cup {Resting}]
      BY <1>3, <1>12 DEF Preserve, Call
    <2>2. salvage' \in [Subject -> SUBSET Commit]
      BY <1>2, <1>12 DEF Preserve, TypeOK
    <2>3. ProviderTypeOK'
      BY <1>12, ProviderKept DEF Preserve, TypeOK
    <2> QED
      BY <1>12, <2>1, <2>2, <2>3 DEF Preserve, TypeOK, ledgerVars, runVars
  <1>13. CASE FlipReady(w)
    <2>1. sweep' \in [Sweeper -> Sweep \cup {Resting}]
      BY <1>3, <1>13 DEF FlipReady, Call
    <2>2. Flipped(sweep[w].body) \in Body
      BY <1>2, ProviderValues DEF Flipped, State
    <2>3. ProviderTypeOK'
      BY <1>13, <2>2 DEF FlipReady, TypeOK, ProviderTypeOK, rootVars
    <2> QED
      BY <1>13, <2>1, <2>3 DEF FlipReady, TypeOK, claimVars, ledgerVars, runVars
  <1>14. CASE FreeBranch(w)
    <2>1. sweep' \in [Sweeper -> Sweep \cup {Resting}]
      BY <1>3, <1>14, RestsType DEF FreeBranch, Call
    <2>2. ref' \in [Subject -> Commit \cup {None}] /\ pr' \in [Subject -> {"none", "lane", "foreign"}]
      BY <1>2, <1>14 DEF FreeBranch, TypeOK, ProviderTypeOK
    <2>3. ProviderTypeOK'
      BY <1>14, <2>2 DEF FreeBranch, TypeOK, ProviderTypeOK, rootVars
    <2> QED
      BY <1>14, <2>1, <2>3 DEF FreeBranch, TypeOK, claimVars, ledgerVars, runVars
  <1>15. CASE WriteReceipt(w)
    <2>1. receipts' \in [Subject -> SUBSET Commit]
      BY <1>2, <1>15 DEF WriteReceipt, TypeOK
    <2>2. ProviderTypeOK'
      BY <1>15, ProviderKept DEF WriteReceipt, TypeOK
    <2> QED
      BY <1>15, <2>1, <2>2, RestsType DEF WriteReceipt, TypeOK, ledgerVars, runVars
  <1> QED
    BY <1>5, <1>6, <1>8, <1>10, <1>11, <1>12, <1>13, <1>14, <1>15 DEF Sweeps

\* The steps of the lanes, as this module takes them.
LEMMA LaneMovesType ==
  ASSUME TypeOK, NEW s \in Subject, LaneMoves(s) \/ Rerun(s)
  PROVE  TypeOK'
  <1> USE DEF claimVars, ledgerVars, runVars, sweepVars
  <1>1. CASE LandVerified(s)
    <2>1. ProviderTypeOK'
      BY <1>1, LaneType DEF LandVerified, Lane, TypeOK
    <2> QED
      BY <1>1, <2>1 DEF LandVerified, TypeOK
  <1>2. CASE ConcludeRun(s) \/ Rerun(s)
    <2>1. ProviderTypeOK'
      BY <1>2, ProviderKept DEF ConcludeRun, Rerun, TypeOK
    <2>2. /\ failed' \in [Commit -> Job] /\ passed' \in [Commit -> BOOLEAN]
          /\ runs' \in Job
      BY <1>2, Values, ZenonT(30) DEF ConcludeRun, Rerun, TypeOK
    <2> QED
      BY <1>2, <2>1, <2>2 DEF ConcludeRun, Rerun, TypeOK
  <1>3. ASSUME NEW e \in Root, ClaimLane(e, s) PROVE TypeOK'
    <2>1. ProviderTypeOK'
      BY <1>3 DEF ClaimLane, TypeOK, ProviderTypeOK
    <2> QED
      BY <1>3, <2>1 DEF ClaimLane, TypeOK
  <1>4. ASSUME NEW e \in Root, SessionStarts(e, s) PROVE TypeOK'
    <2>1. ProviderTypeOK'
      BY <1>4, LaneType DEF SessionStarts, Lane, TypeOK
    <2> QED
      BY <1>4, <2>1 DEF SessionStarts, TypeOK
  <1>5. ASSUME NEW e \in Root, SessionSpeaks(e, s) \/ WindowPasses(e, s) PROVE TypeOK'
    <2>1. ProviderTypeOK'
      BY <1>5, ProviderKept DEF SessionSpeaks, WindowPasses, TypeOK
    <2>2. recent' \in [Root -> [Subject -> BOOLEAN]]
      <3>1. CASE SessionSpeaks(e, s)
        BY <3>1 DEF SessionSpeaks, TypeOK
      <3>2. CASE WindowPasses(e, s)
        BY <3>2 DEF WindowPasses, TypeOK
      <3> QED
        BY <1>5, <3>1, <3>2
    <2> QED
      BY <1>5, <2>1, <2>2 DEF SessionSpeaks, WindowPasses, TypeOK
  <1>6. ASSUME NEW e \in Root, Cook(e, s) PROVE TypeOK'
    <2>1. ProviderTypeOK'
      BY <1>6, LaneType DEF Cook, Lane, TypeOK
    <2> QED
      BY <1>6, <2>1 DEF Cook, TypeOK
  <1> QED
    BY <1>1, <1>2, <1>3, <1>4, <1>5, <1>6 DEF LaneMoves

LEMMA StepType == TypeOK /\ [Next]_vars => TypeOK'
  <1> SUFFICES ASSUME TypeOK, [Next]_vars PROVE TypeOK'
    OBVIOUS
  <1>1. CASE UNCHANGED vars
    BY <1>1, ProviderKept DEF vars, TypeOK, claimVars, ledgerVars, runVars, sweepVars
  <1>2. ASSUME NEW w \in Sweeper, SweepFails(w) PROVE TypeOK'
    <2>1. ProviderTypeOK' /\ failures' \in 0 .. MaxFailures
      BY <1>2, Values, ProviderKept DEF SweepFails, TypeOK
    <2> QED
      BY <1>2, <2>1, RestsType DEF SweepFails, TypeOK, claimVars, ledgerVars, runVars
  <1>3. ASSUME NEW e \in Root, Promote(e) PROVE TypeOK'
    <2>1. ProviderTypeOK'
      BY <1>3, LaneType DEF Promote, Lane, TypeOK
    <2> QED
      BY <1>3, <2>1 DEF Promote, TypeOK, claimVars, ledgerVars, runVars, sweepVars
  <1> QED
    BY <1>1, <1>2, <1>3, StartType, SweepType, LaneMovesType DEF Next

\* Every variable of the sweeps, the ledgers and the provider keeps its type,
\* whatever sweepers, lanes and failures interleave.
THEOREM TypeCorrect == Spec => []TypeOK
  BY InitTypeOK, StepType, PTL DEF Spec
-----------------------------------------------------------------------------
\* No step takes a salvage branch away.
LEMMA SalvageGrows ==
  ASSUME TypeOK, [Next]_vars, NEW s \in Subject
  PROVE  salvage[s] \subseteq salvage'[s]
  <1>1. UNCHANGED salvage \/ \E w \in Sweeper : Preserve(w)
    BY ZenonT(30) DEF Next, vars, Starts, ReadRefs, RepairPending, Sweeps, ReadIssue, ClassifyClaim,
           AdoptRefused, AdoptAgain, AdoptClaim, AdoptExhausted, ReadFailure, ReadState,
           FlipReady, ReadBack, FreeBranch, WriteReceipt, SweepFails, Promote, LaneMoves,
           Rerun, ConcludeRun, LandVerified, ClaimLane, SessionStarts, SessionSpeaks,
           WindowPasses, Cook, claimVars
  <1>2. ASSUME NEW w \in Sweeper, Preserve(w) PROVE salvage[s] \subseteq salvage'[s]
    BY <1>2 DEF Preserve, TypeOK
  <1> QED
    BY <1>1, <1>2

\* A sweeper reaches the release only through the call that preserves the head,
\* and stays with the claim it classified.
LEMMA ReleaseEntered ==
  ASSUME TypeOK, NEW w \in Sweeper, Starts(w) \/ Sweeps(w) \/ SweepFails(w), Releasing(w)'
  PROVE  /\ (sweep[w] \in Sweep /\ Releasing(w)) \/ Preserve(w)
         /\ sweep'[w].subject = sweep[w].subject /\ sweep'[w].head = sweep[w].head
  <1> USE DEF Releasing
  <1>1. ASSUME Rests(w) PROVE FALSE
    BY <1>1 DEF Rests, Resting, TypeOK
  <1>2. ASSUME sweep[w] \in Sweep, NEW call \in {"adopt", "failure", "salvage"}, Goes(w, call)
        PROVE  FALSE
    BY <1>2 DEF Goes, TypeOK, Sweep
  <1>3. ASSUME Starts(w) PROVE FALSE
    <2>1. PICK s \in Subject : ReadRefs(w, s) \/ RepairPending(w, s)
      BY <1>3 DEF Starts
    <2>2. ReadRefs(w, s) => sweep'[w].call = "issue"
      BY DEF ReadRefs, Resting, TypeOK
    <2>3. RepairPending(w, s) => sweep'[w].call = "adopt"
      BY DEF RepairPending, Resting, TypeOK
    <2> QED
      BY <2>1, <2>2, <2>3
  <1>4. ASSUME SweepFails(w) PROVE FALSE
    BY <1>1, <1>4 DEF SweepFails
  <1>5. CASE Sweeps(w)
    <2>1. sweep[w].call \in Call
      BY <1>5 DEF Sweeps, At, Call, ReadIssue, ClassifyClaim, AdoptRefused, AdoptAgain,
             AdoptClaim, AdoptExhausted, ReadFailure, Preserve, ReadState, FlipReady, ReadBack,
             FreeBranch, WriteReceipt
    <2>2. sweep[w] \in Sweep
      BY <2>1, Working
    <2>3. ASSUME NEW call \in Call, Goes(w, call)
          PROVE  sweep'[w].subject = sweep[w].subject /\ sweep'[w].head = sweep[w].head
      BY <2>2, <2>3 DEF Goes, TypeOK, Sweep
    <2>4. ASSUME ReadIssue(w) PROVE FALSE
      BY <1>1, <2>2, <2>4 DEF ReadIssue, TypeOK, Sweep
    <2>5. ASSUME ClassifyClaim(w) PROVE FALSE
      BY <1>1, <1>2, <2>2, <2>5 DEF ClassifyClaim
    <2>6. ASSUME AdoptRefused(w) \/ AdoptAgain(w) \/ AdoptClaim(w) \/ AdoptExhausted(w)
          PROVE  FALSE
      BY <1>1, <1>2, <2>2, <2>6
      DEF AdoptRefused, AdoptAgain, AdoptClaim, AdoptExhausted, Refused
    <2>7. ASSUME ReadFailure(w) PROVE FALSE
      BY <1>1, <1>2, <2>2, <2>7 DEF ReadFailure
    <2>8. CASE Preserve(w)
      BY <2>2, <2>3, <2>8 DEF Preserve, Call
    <2>9. CASE ReadState(w)
      <3>1. sweep' = [sweep EXCEPT ![w].call = "flip", ![w].body = body[sweep[w].subject]]
        BY <1>1, <2>9 DEF ReadState
      <3>2. sweep'[w] = [sweep[w] EXCEPT !.call = "flip", !.body = body[sweep[w].subject]]
        BY <3>1 DEF TypeOK
      <3>3. sweep'[w].subject = sweep[w].subject /\ sweep'[w].head = sweep[w].head
        BY <2>2, <3>2 DEF Sweep
      <3> QED
        BY <2>2, <2>9, <3>3 DEF ReadState, At
    <2>10. CASE FlipReady(w) \/ ReadBack(w) \/ FreeBranch(w)
      BY <1>1, <2>2, <2>3, <2>10 DEF FlipReady, ReadBack, FreeBranch, At, Call
    <2>11. ASSUME WriteReceipt(w) PROVE FALSE
      BY <1>1, <2>11 DEF WriteReceipt
    <2> QED
      BY <1>5, <2>4, <2>5, <2>6, <2>7, <2>8, <2>9, <2>10, <2>11 DEF Sweeps
  <1> QED
    BY <1>3, <1>4, <1>5

\* A step of another sweeper or of a lane leaves a sweeper where it is.
LEMMA OtherSweepers ==
  ASSUME TypeOK, [Next]_vars, NEW w \in Sweeper
  PROVE  Starts(w) \/ Sweeps(w) \/ SweepFails(w) \/ sweep'[w] = sweep[w]
  <1>1. ASSUME NEW v \in Sweeper \ {w}, Starts(v) \/ Sweeps(v) \/ SweepFails(v)
        PROVE  sweep'[w] = sweep[w]
    BY <1>1 DEF Starts, ReadRefs, RepairPending, Sweeps, ReadIssue, ClassifyClaim,
           AdoptRefused, AdoptAgain, AdoptClaim, AdoptExhausted, ReadFailure, Preserve,
           ReadState, FlipReady, ReadBack, FreeBranch, WriteReceipt, SweepFails, Refused,
           Goes, Rests, TypeOK
  <1>2. ASSUME \/ \E e \in Root : Promote(e)
               \/ \E s \in Subject : LaneMoves(s) \/ Rerun(s)
               \/ UNCHANGED vars
        PROVE  UNCHANGED sweep
    BY <1>2 DEF vars, Promote, LaneMoves, Rerun, ConcludeRun, LandVerified, ClaimLane,
           SessionStarts, SessionSpeaks, WindowPasses, Cook, sweepVars
  <1> QED
    BY <1>1, <1>2 DEF Next

LEMMA StepPreserved == TypeOK /\ PreservedBeforeFlip /\ [Next]_vars => PreservedBeforeFlip'
  <1> SUFFICES ASSUME TypeOK, PreservedBeforeFlip, [Next]_vars,
                      NEW w \in Sweeper, Releasing(w)'
               PROVE  sweep'[w].head \in salvage'[sweep'[w].subject]
    BY DEF PreservedBeforeFlip
  <1>1. CASE sweep'[w] = sweep[w]
    <2>1. Releasing(w)
      BY <1>1 DEF Releasing
    <2>2. sweep[w].subject \in Subject
      BY <2>1, Working DEF Releasing, Call, Sweep
    <2> QED
      BY <1>1, <2>1, <2>2, SalvageGrows DEF PreservedBeforeFlip
  <1>2. CASE Starts(w) \/ Sweeps(w) \/ SweepFails(w)
    <2>1. /\ (sweep[w] \in Sweep /\ Releasing(w)) \/ Preserve(w)
          /\ sweep'[w].subject = sweep[w].subject /\ sweep'[w].head = sweep[w].head
      BY <1>2, ReleaseEntered
    <2>2. CASE sweep[w] \in Sweep /\ Releasing(w)
      BY <2>1, <2>2, SalvageGrows DEF PreservedBeforeFlip, Sweep
    <2>3. CASE Preserve(w)
      <3>1. sweep[w].subject \in Subject
        BY <2>3, Working DEF Preserve, At, Call, Sweep
      <3> QED
        BY <2>1, <2>3, <3>1 DEF Preserve, TypeOK
    <2> QED
      BY <2>1, <2>2, <2>3
  <1> QED
    BY <1>1, <1>2, OtherSweepers

\* Whatever number of sweepers of however many roots race over a claim, crash and
\* resume: no issue is flipped and no name freed before the head the claim was
\* classified at is on its salvage branch.
THEOREM NothingFlippedUnpreserved == Spec => []PreservedBeforeFlip
  <1>1. Init => PreservedBeforeFlip
    BY DEF Init, PreservedBeforeFlip, Releasing, Resting
  <1> QED
    BY <1>1, InitTypeOK, StepType, StepPreserved, PTL DEF Spec
-----------------------------------------------------------------------------
\* What the lanes promise the sweeps: a lane's pull request is open only with its issue,
\* and nothing is begun for a subject before its dependencies have landed.
Begun(s) == ref[s] # None \/ \E e \in Root : s \in ordersNext[e] \/ s \in active[e] \/ live[e][s]

LanesInOrder ==
    \A s \in Subject : /\ pr[s] = "lane" => open[s]
                       /\ Begun(s) => DependenciesLanded(s)

\* What stays true of a claim while sweeper w is at it, although others sweep it too: its
\* name carries the head that was listed or nothing, its issue is open from its reading on,
\* its pull request its own from the classification on, and the flip that was read back lasts.
HeldClaim(w) ==
    LET s == sweep[w].subject
    IN  sweep[w].call # "idle" =>
            /\ ref[s] \in {sweep[w].head, None}
            /\ sweep[w].call # "issue" => open[s]
            /\ sweep[w].call \notin {"issue", "classify"} => pr[s] # "foreign"
            /\ sweep[w].call = "delete" => body[s].state = "ready"

SweepStep(w) == Starts(w) \/ Sweeps(w) \/ SweepFails(w)

LEMMA QuietIsNext == [QuietNext]_vars => [Next]_vars
  BY DEF QuietNext, Next

\* All that a sweeper changes of a claim is the body of the issue it flips and the name it deletes.
LEMMA SweepEffects ==
  ASSUME TypeOK, NEW w \in Sweeper, SweepStep(w)
  PROVE  /\ UNCHANGED <<open, ordersNext, active, live>>
         /\ body' = body \/ FlipReady(w)
         /\ (ref' = ref /\ pr' = pr) \/ FreeBranch(w)
  BY DEF SweepStep, Starts, ReadRefs, RepairPending, Sweeps, ReadIssue, ClassifyClaim,
         AdoptRefused, AdoptAgain, AdoptClaim, AdoptExhausted, ReadFailure, Preserve, ReadState,
         FlipReady, ReadBack, FreeBranch, WriteReceipt, SweepFails, githubVars, rootVars

LEMMA FlipEffects ==
  ASSUME TypeOK, NEW w \in Sweeper, FlipReady(w), NEW s \in Subject
  PROVE  (s # sweep[w].subject /\ body'[s] = body[s]) \/ (s = sweep[w].subject /\ body'[s].state = "ready")
  BY DEF FlipReady, Flipped, ReplaceState, TypeOK, ProviderTypeOK

LEMMA FreeEffects ==
  ASSUME TypeOK, NEW w \in Sweeper, FreeBranch(w), NEW s \in Subject
  PROVE  /\ ref'[s] \in {ref[s], None} /\ pr'[s] \in {pr[s], "none"}
         /\ ref'[s] # ref[s] => s = sweep[w].subject /\ sweep[w].call = "delete" /\ pr'[s] # "lane"
         /\ ref[s] = None \/ ref'[s] # None \/ (pr[s] = "lane" => pr'[s] = "none")
  BY DEF FreeBranch, At, TypeOK, ProviderTypeOK

\* A lane's step changes nothing of another subject and nothing of the sweeps.
LEMMA LaneEffects ==
  ASSUME TypeOK, NEW t \in Subject, LaneMoves(t), NEW s \in Subject, s # t
  PROVE  open'[s] = open[s] /\ body'[s] = body[s] /\ ref'[s] = ref[s] /\ pr'[s] = pr[s]
  <1> USE DEF TypeOK, ProviderTypeOK, githubVars, rootVars
  <1>1. CASE ConcludeRun(t)
    BY <1>1 DEF ConcludeRun
  <1>2. CASE LandVerified(t)
    BY <1>2 DEF LandVerified, LandPullRequest
  <1>3. ASSUME NEW e \in Root, ClaimLane(e, t) \/ SessionSpeaks(e, t) \/ WindowPasses(e, t)
        PROVE  open'[s] = open[s] /\ body'[s] = body[s] /\ ref'[s] = ref[s] /\ pr'[s] = pr[s]
    BY <1>3 DEF ClaimLane, SessionSpeaks, WindowPasses
  <1>4. ASSUME NEW e \in Root, SessionStarts(e, t)
        PROVE  open'[s] = open[s] /\ body'[s] = body[s] /\ ref'[s] = ref[s] /\ pr'[s] = pr[s]
    BY <1>4 DEF SessionStarts, StartSession
  <1>5. ASSUME NEW e \in Root, Cook(e, t)
        PROVE  open'[s] = open[s] /\ body'[s] = body[s] /\ ref'[s] = ref[s] /\ pr'[s] = pr[s]
    BY <1>5 DEF Cook, LoseSession, DropOrder, PushCommit, OpenPullRequest, ExecuteHandoff
  <1> QED
    BY <1>1, <1>2, <1>3, <1>4, <1>5 DEF LaneMoves

LEMMA PromoteEffects ==
  ASSUME NEW e \in Root, Promote(e)
  PROVE  UNCHANGED <<open, body, ref, pr, live>>
  BY DEF Promote, PromoteOrders, githubVars

\* What may happen to a claim a sweeper is at.
LEMMA WhileHeld ==
  ASSUME TypeOK, [QuietNext]_vars, NEW w \in Sweeper, sweep[w].call # "idle"
  PROVE  LET s == sweep[w].subject
         IN  /\ s \in Subject /\ open'[s] = open[s] /\ ref'[s] \in {ref[s], None}
             /\ pr'[s] = "foreign" => pr[s] = "foreign"
             /\ body[s].state = "ready" => body'[s].state = "ready"
  <1> DEFINE s == sweep[w].subject
             Calm == /\ s \in Subject /\ open'[s] = open[s] /\ ref'[s] \in {ref[s], None}
                     /\ pr'[s] = "foreign" => pr[s] = "foreign"
                     /\ body[s].state = "ready" => body'[s].state = "ready"
  <1>0. s \in Subject
    BY DEF TypeOK, Sweep, Resting
  <1>1. CASE UNCHANGED vars
    BY <1>0, <1>1 DEF vars, githubVars
  <1>2. ASSUME NEW v \in Sweeper, SweepStep(v) PROVE Calm
    <2>1. open'[s] = open[s]
      BY <1>2, SweepEffects
    <2>2. ref'[s] \in {ref[s], None} /\ pr'[s] \in {pr[s], "none"}
      BY <1>0, <1>2, SweepEffects, FreeEffects
    <2>3. body[s].state = "ready" => body'[s].state = "ready"
      BY <1>0, <1>2, SweepEffects, FlipEffects
    <2> QED
      BY <1>0, <2>1, <2>2, <2>3
  <1>3. ASSUME NEW e \in Root, Promote(e) PROVE Calm
    BY <1>0, <1>3, PromoteEffects
  <1>4. ASSUME NEW t \in Subject, ~Busy(t), LaneMoves(t) PROVE Calm
    <2>1. s # t
      BY <1>4 DEF Busy
    <2> QED
      BY <1>0, <1>4, <2>1, LaneEffects
  <1> QED
    BY <1>1, <1>2, <1>3, <1>4 DEF QuietNext, SweepStep
-----------------------------------------------------------------------------
\* Nothing begins but by a claim.
LEMMA BegunByClaim ==
  ASSUME TypeOK, [QuietNext]_vars, NEW s \in Subject, Begun(s)'
  PROVE  Begun(s) \/ \E e \in Root : ClaimLane(e, s)
  <1> USE DEF Begun
  <1>1. CASE UNCHANGED vars
    BY <1>1 DEF vars, githubVars, rootVars
  <1>2. ASSUME NEW w \in Sweeper, SweepStep(w) PROVE Begun(s)
    <2>1. ref'[s] \in {ref[s], None} /\ UNCHANGED <<ordersNext, active, live>>
      BY <1>2, SweepEffects, FreeEffects
    <2> QED
      BY <2>1
  <1>3. ASSUME NEW e \in Root, Promote(e) PROVE Begun(s)
    BY <1>3 DEF Promote, PromoteOrders, githubVars, TypeOK, ProviderTypeOK
  <1>4. ASSUME NEW t \in Subject, LaneMoves(t) PROVE Begun(s) \/ \E e \in Root : ClaimLane(e, s)
    <2> USE DEF TypeOK, ProviderTypeOK, githubVars, rootVars
    <2>1. CASE ConcludeRun(t) \/ LandVerified(t)
      BY <2>1 DEF ConcludeRun, LandVerified, LandPullRequest
    <2>2. ASSUME NEW e \in Root, ClaimLane(e, t) PROVE Begun(s) \/ ClaimLane(e, s)
      BY <2>2 DEF ClaimLane
    <2>3. ASSUME NEW e \in Root, SessionSpeaks(e, t) \/ WindowPasses(e, t) PROVE Begun(s)
      BY <2>3 DEF SessionSpeaks, WindowPasses
    <2>4. ASSUME NEW e \in Root, SessionStarts(e, t) PROVE Begun(s)
      BY <2>4 DEF SessionStarts, StartSession
    <2>5. ASSUME NEW e \in Root, LoseSession(e, t) PROVE Begun(s)
      BY <2>5 DEF LoseSession
    <2>8. ASSUME NEW e \in Root, DropOrder(e, t) PROVE Begun(s)
      <3>1. \A f \in Root : active'[f] \subseteq active[f]
        BY <2>8 DEF DropOrder
      <3> QED
        BY <2>8, <3>1 DEF DropOrder
    <2>6. ASSUME NEW e \in Root, PushCommit(e, t) PROVE Begun(s)
      BY <2>6 DEF PushCommit
    <2>7. ASSUME NEW e \in Root, OpenPullRequest(e, t) \/ ExecuteHandoff(e, t) PROVE Begun(s)
      BY <2>7 DEF OpenPullRequest, ExecuteHandoff
    <2> QED
      BY <1>4, <2>1, <2>2, <2>3, <2>4, <2>5, <2>6, <2>7, <2>8 DEF LaneMoves, Cook
  <1> QED
    BY <1>1, <1>2, <1>3, <1>4 DEF QuietNext, SweepStep

\* What has landed stays landed: no handoff and no flip reaches a closed issue.
LEMMA LandedStays ==
  ASSUME TypeOK, LanesInOrder, \A w \in Sweeper : HeldClaim(w), [QuietNext]_vars,
         NEW d \in Subject, Landed(d)
  PROVE  Landed(d)'
  <1> USE DEF Landed
  <1>1. CASE UNCHANGED vars
    BY <1>1 DEF vars, githubVars
  <1>2. ASSUME NEW w \in Sweeper, SweepStep(w) PROVE Landed(d)'
    <2>1. open' = open
      BY <1>2, SweepEffects
    <2>2. CASE body' = body
      BY <2>1, <2>2
    <2>3. CASE FlipReady(w)
      <3>1. open[sweep[w].subject]
        BY <2>3 DEF HeldClaim, FlipReady, At
      <3> QED
        BY <2>1, <2>3, <3>1, FlipEffects
    <2> QED
      BY <1>2, <2>2, <2>3, SweepEffects
  <1>3. ASSUME NEW e \in Root, Promote(e) PROVE Landed(d)'
    BY <1>3, PromoteEffects
  <1>4. ASSUME NEW t \in Subject, LaneMoves(t) PROVE Landed(d)'
    <2>1. CASE t # d
      BY <1>4, <2>1, LaneEffects
    <2>2. CASE t = d
      <3>1. ~open[d] /\ pr[d] # "lane"
        BY DEF LanesInOrder
      <3> QED
        BY <1>4, <2>2, <3>1
           DEF LaneMoves, ConcludeRun, LandVerified, ClaimLane, SessionStarts, StartSession,
               SessionSpeaks, WindowPasses, Cook, LoseSession, DropOrder, PushCommit,
               OpenPullRequest, ExecuteHandoff, githubVars
    <2> QED
      BY <2>1, <2>2
  <1> QED
    BY <1>1, <1>2, <1>3, <1>4 DEF QuietNext, SweepStep

\* A lane's pull request is open with its issue.
LEMMA LanePullRequestsStay ==
  ASSUME TypeOK, LanesInOrder, [QuietNext]_vars, NEW s \in Subject, pr'[s] = "lane"
  PROVE  open'[s]
  <1>1. CASE UNCHANGED vars
    BY <1>1 DEF vars, githubVars, LanesInOrder
  <1>2. ASSUME NEW w \in Sweeper, SweepStep(w) PROVE open'[s]
    BY <1>2, SweepEffects, FreeEffects DEF LanesInOrder
  <1>3. ASSUME NEW e \in Root, Promote(e) PROVE open'[s]
    BY <1>3, PromoteEffects DEF LanesInOrder
  <1>4. ASSUME NEW t \in Subject, LaneMoves(t) PROVE open'[s]
    <2>1. CASE t # s
      BY <1>4, <2>1, LaneEffects DEF LanesInOrder
    <2>2. CASE t = s
      <3> USE DEF TypeOK, ProviderTypeOK, githubVars, rootVars, LanesInOrder
      <3>1. CASE ConcludeRun(s)
        BY <3>1 DEF ConcludeRun
      <3>2. CASE LandVerified(s)
        BY <3>2 DEF LandVerified, LandPullRequest
      <3>3. ASSUME NEW e \in Root, ClaimLane(e, s) \/ SessionSpeaks(e, s) \/ WindowPasses(e, s)
            PROVE  open'[s]
        BY <3>3 DEF ClaimLane, SessionSpeaks, WindowPasses
      <3>4. ASSUME NEW e \in Root, SessionStarts(e, s) PROVE open'[s]
        BY <3>4 DEF SessionStarts, StartSession
      <3>5. ASSUME NEW e \in Root, Cook(e, s) PROVE open'[s]
        BY <3>5 DEF Cook, LoseSession, DropOrder, PushCommit, OpenPullRequest, ExecuteHandoff
      <3> QED
        BY <1>4, <2>2, <3>1, <3>2, <3>3, <3>4, <3>5 DEF LaneMoves
    <2> QED
      BY <2>1, <2>2
  <1> QED
    BY <1>1, <1>2, <1>3, <1>4 DEF QuietNext, SweepStep

LEMMA StepLanes ==
  ASSUME TypeOK, LanesInOrder, \A w \in Sweeper : HeldClaim(w), [QuietNext]_vars
  PROVE  LanesInOrder'
  <1>1. ASSUME NEW s \in Subject, Begun(s)' PROVE DependenciesLanded(s)'
    <2>1. DependenciesLanded(s)
      <3>1. CASE Begun(s)
        BY <3>1 DEF LanesInOrder
      <3>2. ASSUME NEW e \in Root, ClaimLane(e, s) PROVE DependenciesLanded(s)
        BY <3>2 DEF ClaimLane, Schedulable
      <3> QED
        BY <1>1, <3>1, <3>2, BegunByClaim
    <2> QED
      BY <2>1, LandedStays DEF DependenciesLanded
  <1> QED
    BY <1>1, LanePullRequestsStay DEF LanesInOrder
-----------------------------------------------------------------------------
\* Where a sweeper's own step takes it within a claim.
LEMMA OwnCall ==
  ASSUME TypeOK, NEW w \in Sweeper, Sweeps(w), sweep'[w].call # "idle"
  PROVE  /\ sweep[w].call # "idle"
         /\ sweep'[w].subject = sweep[w].subject /\ sweep'[w].head = sweep[w].head
         /\ sweep'[w].call # "issue"
         /\ sweep[w].call = "issue" =>
                sweep'[w].call = "classify" /\ Sweepable(sweep[w].subject) /\ UNCHANGED <<open, pr>>
         /\ sweep[w].call = "classify" =>
                sweep'[w].call # "delete" /\ pr[sweep[w].subject] = "lane" /\ UNCHANGED pr
         /\ sweep'[w].call = "classify" => sweep[w].call = "issue"
         /\ sweep'[w].call = "delete" => body[sweep[w].subject].state = "ready" /\ UNCHANGED body
  <1> DEFINE s == sweep[w].subject
  <1>1. sweep[w] \in Sweep
    <2>1. sweep[w].call \in Call
      BY DEF Sweeps, At, Call, ReadIssue, ClassifyClaim, AdoptRefused, AdoptAgain,
             AdoptClaim, AdoptExhausted, ReadFailure, Preserve, ReadState, FlipReady, ReadBack,
             FreeBranch, WriteReceipt
    <2> QED
      BY <2>1, Working
  <1>2. ASSUME Rests(w) PROVE FALSE
    BY <1>2 DEF Rests, Resting, TypeOK
  <1>3. ASSUME NEW call \in Call, Goes(w, call)
        PROVE  sweep'[w].subject = s /\ sweep'[w].head = sweep[w].head /\ sweep'[w].call = call
    BY <1>1, <1>3 DEF Goes, TypeOK, Sweep
  <1>4. ASSUME NEW call \in Call, sweep' = [sweep EXCEPT ![w].call = call, ![w].body = body[s]]
        PROVE  sweep'[w].subject = s /\ sweep'[w].head = sweep[w].head /\ sweep'[w].call = call
    <2>1. sweep'[w] = [sweep[w] EXCEPT !.call = call, !.body = body[s]]
      BY <1>4 DEF TypeOK
    <2> QED
      BY <1>1, <2>1 DEF Sweep
  <1> HIDE DEF s
  <1>5. CASE ReadIssue(w)
    BY <1>2, <1>4, <1>5 DEF ReadIssue, At, Call, s, githubVars
  <1>6. CASE ClassifyClaim(w)
    <2>1. Goes(w, "adopt") \/ Goes(w, "failure")
      BY <1>2, <1>6 DEF ClassifyClaim
    <2>2. Class(Home[w], s, sweep[w].head, sweep[w].body.state) \in {"dead_claim", "released_residue"}
      BY <1>2, <1>6 DEF ClassifyClaim, s
    <2>3. pr[s] # "none" /\ pr[s] # "foreign"
      BY <2>2 DEF Class, MatchingOpenPullRequest
    <2>4. s \in Subject /\ pr[s] = "lane"
      BY <1>1, <2>3 DEF s, Sweep, TypeOK, ProviderTypeOK
    <2>5. sweep[w].call = "classify" /\ UNCHANGED pr
      BY <1>6 DEF ClassifyClaim, At, githubVars
    <2> QED
      BY <1>3, <2>1, <2>4, <2>5 DEF Call, s
  <1>7. CASE AdoptRefused(w) \/ AdoptAgain(w) \/ AdoptClaim(w) \/ AdoptExhausted(w)
    <2>1. Goes(w, "failure") /\ sweep[w].call = "adopt"
      BY <1>2, <1>7 DEF AdoptRefused, AdoptAgain, AdoptClaim, AdoptExhausted, Refused, At
    <2> QED
      BY <1>3, <2>1 DEF Call, s
  <1>8. CASE ReadFailure(w) \/ Preserve(w) \/ FlipReady(w) \/ FreeBranch(w)
    BY <1>2, <1>3, <1>8 DEF ReadFailure, Preserve, FlipReady, FreeBranch, At, Call, s
  <1>9. CASE ReadState(w)
    BY <1>2, <1>4, <1>9 DEF ReadState, At, Call, s
  <1>10. CASE ReadBack(w)
    BY <1>2, <1>3, <1>10 DEF ReadBack, At, Call, s, githubVars
  <1>11. CASE WriteReceipt(w)
    BY <1>2, <1>11 DEF WriteReceipt
  <1> QED
    BY <1>5, <1>6, <1>7, <1>8, <1>9, <1>10, <1>11 DEF Sweeps

LEMMA StepHeld ==
  ASSUME TypeOK, LanesInOrder, \A w \in Sweeper : HeldClaim(w), [QuietNext]_vars, NEW w \in Sweeper
  PROVE  HeldClaim(w)'
  <1> SUFFICES ASSUME sweep'[w].call # "idle" PROVE HeldClaim(w)'
    BY DEF HeldClaim
  <1>1. CASE sweep'[w] = sweep[w]
    <2>1. sweep[w].call # "idle"
      BY <1>1
    <2> QED
      BY <1>1, <2>1, WhileHeld DEF HeldClaim
  <1>2. ASSUME NEW s \in Subject, ReadRefs(w, s) PROVE HeldClaim(w)'
    <2>1. sweep'[w].call = "issue" /\ sweep'[w].subject = s /\ sweep'[w].head = ref[s] /\ ref' = ref
      BY <1>2 DEF ReadRefs, Resting, TypeOK, githubVars
    <2> QED
      BY <2>1 DEF HeldClaim
  <1>3. ASSUME NEW s \in Subject, RepairPending(w, s) PROVE HeldClaim(w)'
    <2>1. /\ sweep'[w].call = "adopt" /\ sweep'[w].subject = s /\ sweep'[w].head = ref[s]
          /\ UNCHANGED <<ref, open, pr>> /\ pr[s] = "lane"
      BY <1>3 DEF RepairPending, Resting, TypeOK, githubVars
    <2> QED
      BY <2>1 DEF HeldClaim, LanesInOrder
  <1>4. CASE Sweeps(w)
    <2> DEFINE s == sweep[w].subject
    <2>1. /\ sweep[w].call # "idle" /\ sweep'[w].subject = s /\ sweep'[w].head = sweep[w].head
          /\ sweep'[w].call # "issue"
      BY <1>4, OwnCall
    <2>2. /\ open'[s] = open[s] /\ ref'[s] \in {ref[s], None}
          /\ pr'[s] = "foreign" => pr[s] = "foreign"
          /\ body[s].state = "ready" => body'[s].state = "ready"
      BY <2>1, WhileHeld
    <2>3. ref'[s] \in {sweep[w].head, None}
      BY <2>1, <2>2 DEF HeldClaim
    <2>4. open'[s]
      BY <1>4, <2>1, <2>2, OwnCall DEF HeldClaim, Sweepable
    <2>5. sweep'[w].call # "classify" => pr'[s] # "foreign"
      BY <1>4, <2>1, <2>2, OwnCall DEF HeldClaim
    <2>6. sweep'[w].call = "delete" => body'[s].state = "ready"
      BY <1>4, <2>2, OwnCall
    <2> HIDE DEF s
    <2> QED
      BY <2>1, <2>3, <2>4, <2>5, <2>6 DEF HeldClaim
  <1>5. ASSUME SweepFails(w) PROVE FALSE
    BY <1>5 DEF SweepFails, Rests, Resting, TypeOK
  <1> QED
    BY <1>1, <1>2, <1>3, <1>4, <1>5, OtherSweepers, QuietIsNext DEF Starts
-----------------------------------------------------------------------------
QuietInv ==
    /\ TypeOK /\ PreservedBeforeFlip
    /\ LanesInOrder /\ \A w \in Sweeper : HeldClaim(w)

LEMMA InitQuiet == Init => QuietInv
  <1> SUFFICES ASSUME Init PROVE QuietInv
    OBVIOUS
  <1>1. TypeOK
    BY InitTypeOK
  <1>2. PreservedBeforeFlip /\ \A w \in Sweeper : HeldClaim(w)
    BY DEF Init, PreservedBeforeFlip, Releasing, Resting, HeldClaim
  <1>3. LanesInOrder
    BY DEF Init, ProviderInit, LanesInOrder, Begun
  <1> QED
    BY <1>1, <1>2, <1>3 DEF QuietInv

LEMMA StepQuiet == QuietInv /\ [QuietNext]_vars => QuietInv'
  BY QuietIsNext, StepType, StepPreserved, StepLanes, StepHeld DEF QuietInv

\* Only the deletion of a release frees a name.
LEMMA FreedByRelease ==
  ASSUME TypeOK, [QuietNext]_vars, NEW s \in Subject, Freed(s)
  PROVE  \E w \in Sweeper : FreeBranch(w) /\ sweep[w].subject = s /\ sweep[w].call = "delete"
  <1> USE DEF Freed
  <1>1. CASE UNCHANGED vars
    BY <1>1 DEF vars, githubVars
  <1>2. ASSUME NEW w \in Sweeper, SweepStep(w)
        PROVE  FreeBranch(w) /\ sweep[w].subject = s /\ sweep[w].call = "delete"
    BY <1>2, SweepEffects, FreeEffects
  <1>3. ASSUME NEW e \in Root, Promote(e) PROVE FALSE
    BY <1>3, PromoteEffects
  <1>4. ASSUME NEW t \in Subject, LaneMoves(t) PROVE FALSE
    <2>1. t = s
      BY <1>4, LaneEffects
    <2>2. ASSUME NEW e \in Root, PushCommit(e, s) PROVE FALSE
      BY <2>2, ProviderValues DEF PushCommit, TypeOK, ProviderTypeOK
    <2>3. ASSUME NEW e \in Root, ClaimLane(e, s) PROVE FALSE
      BY <2>3 DEF ClaimLane
    <2> QED
      BY <1>4, <2>1, <2>2, <2>3
         DEF LaneMoves, ConcludeRun, LandVerified, LandPullRequest, SessionStarts, StartSession,
             SessionSpeaks, WindowPasses, Cook, LoseSession, DropOrder, OpenPullRequest,
             ExecuteHandoff, githubVars
  <1> QED
    BY <1>1, <1>2, <1>3, <1>4 DEF QuietNext, SweepStep

\* A name that is freed carried nothing that is not kept, and its subject is one the next
\* claim cycle admits: open, ready, its dependencies landed, no pull request of it left,
\* however many sweepers of however many roots work on the claim at once
\* (release_dead_claim, sweep_dead_claims).
THEOREM NamesFreedSafely == QuietSpec => FreedSafely
  <1>1. ASSUME QuietInv, [QuietNext]_vars, NEW s \in Subject, Freed(s)
        PROVE  ref[s] \in salvage[s] /\ Schedulable(s)' /\ ~MatchingOpenPullRequest(s)'
    <2>1. PICK w \in Sweeper : FreeBranch(w) /\ sweep[w].subject = s /\ sweep[w].call = "delete"
      BY <1>1, FreedByRelease DEF QuietInv
    <2>2. ref[s] = sweep[w].head /\ open[s] /\ pr[s] # "foreign" /\ body[s].state = "ready"
      BY <1>1, <2>1 DEF QuietInv, HeldClaim, Freed
    <2>3. ref[s] \in salvage[s]
      BY <1>1, <2>1, <2>2 DEF QuietInv, PreservedBeforeFlip, Releasing
    <2>4. DependenciesLanded(s)
      BY <1>1 DEF QuietInv, LanesInOrder, Begun, Freed
    <2>5. UNCHANGED <<open, body>>
      BY <2>1 DEF FreeBranch
    <2>6. Schedulable(s)'
      BY <2>2, <2>4, <2>5 DEF Schedulable, DependenciesLanded, Landed
    <2>7. pr'[s] = "none"
      BY <1>1, <2>1, <2>2 DEF FreeBranch, QuietInv, TypeOK, ProviderTypeOK, Freed
    <2> QED
      BY <2>3, <2>6, <2>7 DEF MatchingOpenPullRequest
  <1>2. QuietInv /\ [QuietNext]_vars =>
          [\A s \in Subject : Freed(s) =>
             ref[s] \in salvage[s] /\ Schedulable(s)' /\ ~MatchingOpenPullRequest(s)']_vars
    BY <1>1
  <1> QED
    BY <1>2, InitQuiet, StepQuiet, PTL DEF QuietSpec, FreedSafely
=============================================================================
