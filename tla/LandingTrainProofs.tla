-------------------------- MODULE LandingTrainProofs --------------------------
(***************************************************************************)
(* For any number of pull requests, any dependencies and any stacking of   *)
(* their first heads, with land jobs, owners, failures and the reconciler  *)
(* in any order: the types, and that no marker names an unmerged head, no  *)
(* push of the train takes an owner's commit away, and pushes are bounded  *)
(* by merges.                                                              *)
(***************************************************************************)
EXTENDS LandingTrain, TLAPS

LEMMA Values ==
    /\ Resting \in Job
    /\ \A n \in 0 .. MaxPushes : n < MaxPushes => n + 1 \in 0 .. MaxPushes
    /\ \A n \in 0 .. MaxFailures : n < MaxFailures => n + 1 \in 0 .. MaxFailures
    /\ Pull \subseteq Nat /\ 0 \notin Pull
  BY PullAssumption, BoundsAssumption DEF Resting, Job

LEMMA InitTypeOK == Init => TypeOK
  <1> SUFFICES ASSUME Init PROVE TypeOK
    OBVIOUS
  <1>1. PICK f \in Stackings : head = [p \in Pull |-> FirstHead(p, f)]
                            /\ pr = [p \in Pull |-> IF p \in Late /\ f[p] = {} THEN "absent" ELSE "open"]
    BY DEF Init
  <1>2. \A p \in Pull : FirstHead(p, f) \in BranchHead /\ FirstHead(p, f).pull = p
    BY StackingsAssumption DEF FirstHead, BranchHead, HeadId
  <1>3. pushes \in 0 .. MaxPushes /\ failures \in 0 .. MaxFailures
    BY BoundsAssumption DEF Init
  <1>4. issue \in [Pull -> Issue]
    BY DEF Init, Issue
  <1>5. job \in [Pull -> Job]
    BY Values DEF Init
  <1>6. main \in Seq(BranchHead)
    BY DEF Init
  <1> QED
    BY <1>1, <1>2, <1>3, <1>4, <1>5, <1>6 DEF Init, TypeOK

LEMMA JobType ==
  ASSUME TypeOK, NEW p \in Pull, NEW new \in Job, job' = [job EXCEPT ![p] = new]
  PROVE  job' \in [Pull -> Job] /\ job'[p] = new
  BY DEF TypeOK

\* Records of a job and of an issue, changed.
LEMMA JobStep ==
  ASSUME NEW j \in Job, NEW step \in Step
  PROVE  [j EXCEPT !.at = step] \in Job
  BY DEF Job

LEMMA JobMerged ==
  ASSUME NEW j \in Job, NEW tip \in Nat
  PROVE  [j EXCEPT !.at = "branch", !.tip = tip] \in Job
  BY DEF Job, Step

LEMMA IssueMarked ==
  ASSUME NEW i \in Issue, NEW version \in Nat, NEW merge \in Nat
  PROVE  [i EXCEPT !.state = "landed", !.version = version, !.merge = merge] \in Issue
  BY DEF Issue

LEMMA GoesType ==
  ASSUME TypeOK, NEW p \in Pull, NEW step \in Step, Goes(p, step)
  PROVE  job' \in [Pull -> Job] /\ job'[p] = [job[p] EXCEPT !.at = step]
  <1>1. [job[p] EXCEPT !.at = step] \in Job
    BY JobStep DEF TypeOK
  <1>2. job' = [job EXCEPT ![p] = [job[p] EXCEPT !.at = step]]
    BY DEF Goes, TypeOK
  <1> QED
    BY <1>1, <1>2, JobType

LEMMA RestsType ==
  ASSUME TypeOK, NEW p \in Pull, Rests(p)
  PROVE  job' \in [Pull -> Job] /\ job'[p] = Resting
  BY Values DEF TypeOK, Rests

\* A job that only reads, and moves on or rests, changes nothing but itself.
LEMMA ReadingType ==
  ASSUME TypeOK, job' \in [Pull -> Job],
         UNCHANGED <<main, pullVars, issue, runVars, rootVars, pushes, failures>>
  PROVE  TypeOK'
  BY DEF TypeOK, pullVars, runVars, rootVars

LEMMA IssueType ==
  ASSUME TypeOK, NEW p \in Pull, NEW version \in Nat, NEW merge \in Nat,
         Marked(p, version, merge)
  PROVE  issue' \in [Pull -> Issue]
  <1>1. [issue[p] EXCEPT !.state = "landed", !.version = version, !.merge = merge] \in Issue
    BY IssueMarked DEF TypeOK
  <1>2. issue' = [issue EXCEPT ![p] =
                    [issue[p] EXCEPT !.state = "landed", !.version = version, !.merge = merge]]
    BY DEF Marked, TypeOK
  <1> QED
    BY <1>1, <1>2 DEF TypeOK

LEMMA ClosedType ==
  ASSUME TypeOK, NEW p, issue' = [issue EXCEPT ![p].open = FALSE]
  PROVE  issue' \in [Pull -> Issue]
  <1>1. issue \in [Pull -> Issue]
    BY DEF TypeOK
  <1>2. \A i \in Issue : [i EXCEPT !.open = FALSE] \in Issue
    BY DEF Issue
  <1>3. CASE p \in Pull
    <2>1. [issue[p] EXCEPT !.open = FALSE] \in Issue
      BY <1>1, <1>2, <1>3
    <2>2. issue' = [issue EXCEPT ![p] = [issue[p] EXCEPT !.open = FALSE]]
      OBVIOUS
    <2> QED
      BY <1>1, <2>1, <2>2
  <1>4. CASE p \notin Pull
    <2>1. issue' = issue
      BY <1>1, <1>4
    <2> QED
      BY <1>1, <2>1
  <1> QED
    BY <1>3, <1>4

\* land_pull_request.
LEMMA LandType ==
  ASSUME TypeOK, NEW p \in Pull, Land(p)
  PROVE  TypeOK'
  <1> USE DEF pullVars, runVars, rootVars
  <1>1. CASE Admit(p) \/ ReadBranch(p)
    BY <1>1, GoesType, RestsType, ReadingType DEF Admit, ReadBranch, Step
  <1>2. CASE Merge(p)
    <2>1. CASE Mergeable(p)
      <3>1. main' = Append(main, head[p]) /\ Tip \in Nat
            /\ job' = [job EXCEPT ![p].at = "branch", ![p].tip = Tip + 1]
            /\ pr' = [pr EXCEPT ![p] = "merged"]
        BY <1>2, <2>1, SMTT(30) DEF Merge, Tip, TypeOK
      <3>2. [job[p] EXCEPT !.at = "branch", !.tip = Tip + 1] \in Job
        <4>1. Tip + 1 \in Nat /\ job[p] \in Job
          BY <3>1 DEF TypeOK
        <4> QED
          BY <4>1, JobMerged
      <3>3. job' = [job EXCEPT ![p] = [job[p] EXCEPT !.at = "branch", !.tip = Tip + 1]]
        BY <3>1 DEF TypeOK
      <3>4. main' \in Seq(BranchHead)
        BY <3>1 DEF TypeOK
      <3> QED
        BY <1>2, <3>1, <3>2, <3>3, <3>4, JobType DEF Merge, TypeOK
    <2>2. CASE ~Mergeable(p)
      BY <1>2, <2>2, RestsType, ReadingType DEF Merge
    <2> QED
      BY <2>1, <2>2
  <1>3. CASE MarkLanded(p)
    <2>1. job[p].version \in Nat /\ job[p].tip \in Nat
      BY DEF TypeOK, Job
    <2> QED
      BY <1>3, <2>1, GoesType, IssueType DEF MarkLanded, TypeOK, Step
  <1>4. CASE CloseIssue(p)
    BY <1>4, GoesType, ClosedType DEF CloseIssue, TypeOK, Step
  <1> QED
    BY <1>1, <1>2, <1>3, <1>4 DEF Land

\* landing_train.
LEMMA JobBatch ==
  ASSUME NEW j \in Job, NEW tip \in Nat, NEW todo \in SUBSET Pull
  PROVE  [j EXCEPT !.at = "member", !.tip = tip, !.todo = todo, !.done = todo] \in Job
  BY DEF Job, Step

LEMMA JobTodo ==
  ASSUME NEW j \in Job, NEW step \in Step, NEW todo \in SUBSET Pull
  PROVE  /\ [j EXCEPT !.at = step, !.todo = todo] \in Job
         /\ [j EXCEPT !.todo = todo] \in Job
         /\ [j EXCEPT !.at = step, !.todo = todo, !.target = 0] \in Job
  BY DEF Job

LEMMA JobListed ==
  ASSUME NEW j \in Job, NEW listed \in SUBSET BranchHead
  PROVE  [j EXCEPT !.at = "batch", !.listed = listed] \in Job
  BY DEF Job, Step

LEMMA JobTarget ==
  ASSUME NEW j \in Job, NEW step \in Step, NEW target \in Pull, NEW nudging \in BOOLEAN
  PROVE  /\ [j EXCEPT !.at = step, !.target = target] \in Job
         /\ [j EXCEPT !.at = step, !.target = target, !.nudging = nudging] \in Job
  BY DEF Job

LEMMA JobOnto ==
  ASSUME NEW j \in Job, NEW onto \in Nat
  PROVE  [j EXCEPT !.at = "push", !.onto = onto] \in Job
  BY DEF Job, Step

LEMMA JobNudged ==
  ASSUME NEW j \in Job, NEW q \in Pull
  PROVE  [j EXCEPT !.at = "nudge", !.todo = @ \ {q}, !.done = @ \cup {q}, !.target = 0,
                   !.onto = 0, !.nudging = FALSE] \in Job
  BY DEF Job, Step

\* What a job lists are heads, of subjects there are.
LEMMA ListedType ==
  ASSUME TypeOK, NEW p \in Pull
  PROVE  /\ job[p] \in Job /\ job[p].listed \subseteq BranchHead /\ Tip \in Nat
         /\ job[p].todo \subseteq Pull
         /\ \A h \in BranchHead : h.pull \in Pull /\ h.version \in Nat /\ h.work \in Nat
                                  /\ h.base \in Nat /\ h.stack \subseteq HeadId
         /\ \A S \in SUBSET BranchHead : Pulls(S) \subseteq Pull
  <1>1. job[p] \in Job /\ Tip \in Nat
    BY DEF TypeOK, Tip
  <1>2. job[p].listed \subseteq BranchHead /\ job[p].todo \subseteq Pull
    BY <1>1 DEF Job
  <1>3. \A h \in BranchHead : h.pull \in Pull /\ h.version \in Nat /\ h.work \in Nat
                                  /\ h.base \in Nat /\ h.stack \subseteq HeadId
    BY DEF BranchHead
  <1> QED
    BY <1>1, <1>2, <1>3 DEF Pulls

LEMMA ListedHead ==
  ASSUME TypeOK, NEW p \in Pull, NEW q \in Pulls(job[p].listed)
  PROVE  Listed(p, q) \in job[p].listed /\ Listed(p, q).pull = q /\ q \in Pull
         /\ Listed(p, q) \in BranchHead
  BY ListedType DEF Pulls, Listed

LEMMA PushedType ==
  ASSUME TypeOK, NEW p \in Pull, job[p].target \in Pull, Pushed(p)
  PROVE  job' \in [Pull -> Job]
  <1> DEFINE new == [job[p] EXCEPT !.at = "nudge", !.todo = @ \ {job[p].target},
                                   !.done = @ \cup {job[p].target}, !.target = 0,
                                   !.onto = 0, !.nudging = FALSE]
  <1>1. new \in Job
    BY JobNudged, ListedType
  <1>2. CASE job[p].nudging
    <2>1. job' = [job EXCEPT ![p] = new]
      BY <1>2 DEF Pushed, TypeOK
    <2> QED
      BY <1>1, <2>1, JobType
  <1>3. CASE ~job[p].nudging
    BY <1>3, RestsType DEF Pushed
  <1> QED
    BY <1>2, <1>3

LEMMA TrainType ==
  ASSUME TypeOK, ReadingsHold, NEW p \in Pull, Train(p)
  PROVE  TypeOK'
  <1> DEFINE j == job[p]
  <1>1. j \in Job /\ j.listed \subseteq BranchHead /\ j.todo \subseteq Pull /\ Tip \in Nat
    BY ListedType
  <1>2. Pulls(Carried(p)) \subseteq Pull /\ Pulls(Selectable(p)) \subseteq Pull
        /\ Dependents(p) \subseteq Pull
    BY <1>1, ListedType DEF Carried, Selectable, Dependents, Pulls
  <1>3. CASE ListPulls(p)
    <2> DEFINE listed == {head[q] : q \in {r \in Pull : pr[r] = "open"}}
               new == [j EXCEPT !.at = "batch", !.listed = listed]
    <2>1. listed \subseteq BranchHead
      BY DEF TypeOK
    <2>2. new \in Job
      BY <1>1, <2>1, JobListed
    <2>3. job' = [job EXCEPT ![p] = new]
      BY <1>3 DEF ListPulls, TypeOK
    <2> QED
      BY <1>3, <2>2, <2>3, JobType, ReadingType DEF ListPulls
  <1>4. CASE Batch(p)
    <2>1. CASE BatchAdmitted(p)
      <3> DEFINE members == Pulls(Carried(p))
                 new == [j EXCEPT !.at = "member", !.tip = Tip, !.todo = members,
                                  !.done = members]
      <3>1. new \in Job
        BY <1>1, <1>2, JobBatch
      <3>2. job' = [job EXCEPT ![p] = new]
        BY <1>4, <2>1 DEF Batch, TypeOK
      <3> QED
        BY <1>4, <3>1, <3>2, JobType, ReadingType DEF Batch
    <2>2. CASE ~BatchAdmitted(p)
      BY <1>4, <2>2, GoesType, ReadingType DEF Batch, Step
    <2> QED
      BY <2>1, <2>2
  <1>5. CASE MarkMember(p)
    <2>1. PICK q \in Pull : /\ Oldest(q, j.todo)
                            /\ Marked(q, MemberVersion(p, q), j.tip)
                            /\ job' = [job EXCEPT ![p].at = "memberPull", ![p].target = q]
      BY <1>5 DEF MarkMember
    <2>2. MemberVersion(p, q) \in Nat
      <3>1. PICK h \in j.listed : h.pull = q
        BY <1>5, <2>1 DEF ReadingsHold, JobReadings, MarkMember, At, Oldest
      <3>2. q \in Pulls(j.listed)
        BY <3>1 DEF Pulls
      <3> QED
        BY <3>2, ListedHead, ListedType DEF MemberVersion
    <2>3. j.tip \in Nat
      BY <1>1 DEF Job
    <2>4. [j EXCEPT !.at = "memberPull", !.target = q] \in Job
      BY <1>1, JobTarget DEF Step
    <2>5. job' = [job EXCEPT ![p] = [j EXCEPT !.at = "memberPull", !.target = q]]
      BY <2>1 DEF TypeOK
    <2>6. job' \in [Pull -> Job] /\ issue' \in [Pull -> Issue]
      BY <2>1, <2>2, <2>3, <2>4, <2>5, JobType, IssueType
    <2> QED
      BY <1>5, <2>6 DEF MarkMember, TypeOK, pullVars, runVars, rootVars
  <1>6. CASE CloseMemberPull(p)
    <2>1. pr' \in [Pull -> {"absent", "open", "merged", "closed"}]
      BY <1>6 DEF CloseMemberPull, TypeOK
    <2> QED
      BY <1>6, <2>1, GoesType DEF CloseMemberPull, TypeOK, Step, runVars, rootVars
  <1>7. CASE CloseMemberIssue(p)
    <2> DEFINE rest == j.todo \ {j.target}
               step == IF rest = {} THEN "dependents" ELSE "member"
               new == [j EXCEPT !.at = step, !.todo = rest, !.target = 0]
    <2>1. new \in Job
      BY <1>1, JobTodo DEF Step
    <2>2. job' = [job EXCEPT ![p] = new]
      BY <1>7 DEF CloseMemberIssue, TypeOK
    <2>3. issue' \in [Pull -> Issue]
      BY <1>7, ClosedType DEF CloseMemberIssue
    <2> QED
      BY <1>7, <2>1, <2>2, <2>3, JobType
      DEF CloseMemberIssue, TypeOK, pullVars, runVars, rootVars
  <1>8. CASE ReadDependents(p)
    <2> DEFINE new == [j EXCEPT !.at = "nudge", !.todo = Dependents(p) \ j.done]
    <2>1. new \in Job
      BY <1>1, <1>2, JobTodo DEF Step
    <2>2. job' = [job EXCEPT ![p] = new]
      BY <1>8 DEF ReadDependents, TypeOK
    <2> QED
      BY <1>8, <2>1, <2>2, JobType, ReadingType DEF ReadDependents
  <1>9. CASE Nudge(p)
    <2>1. ASSUME NEW q \in Pull,
                 job' = [job EXCEPT ![p].at = "fetch", ![p].target = q, ![p].nudging = TRUE]
          PROVE  job' \in [Pull -> Job]
      <3>1. job' = [job EXCEPT ![p] = [j EXCEPT !.at = "fetch", !.target = q, !.nudging = TRUE]]
        BY <2>1 DEF TypeOK
      <3> QED
        BY <1>1, <3>1, JobTarget, JobType DEF Step
    <2>2. ASSUME NEW q \in Pull, job' = [job EXCEPT ![p].todo = @ \ {q}]
          PROVE  job' \in [Pull -> Job]
      <3>1. job' = [job EXCEPT ![p] = [j EXCEPT !.todo = j.todo \ {q}]]
        BY <2>2 DEF TypeOK
      <3>2. [j EXCEPT !.todo = j.todo \ {q}] \in Job
        BY <1>1, JobTodo DEF Step
      <3> QED
        BY <3>1, <3>2, JobType
    <2> QED
      BY <1>9, <2>1, <2>2, GoesType, ReadingType DEF Nudge, Step
  <1>10. CASE Select(p)
    <2>1. ASSUME NEW q \in Pull,
                 job' = [job EXCEPT ![p].at = "fetch", ![p].target = q, ![p].nudging = FALSE]
          PROVE  job' \in [Pull -> Job]
      <3>1. job' = [job EXCEPT ![p] = [j EXCEPT !.at = "fetch", !.target = q, !.nudging = FALSE]]
        BY <2>1 DEF TypeOK
      <3> QED
        BY <1>1, <3>1, JobTarget, JobType DEF Step
    <2> QED
      BY <1>10, <2>1, RestsType, ReadingType DEF Select
  <1>11. CASE Fetch(p)
    <2>1. ASSUME job' = [job EXCEPT ![p].at = "push", ![p].onto = Tip]
          PROVE  job' \in [Pull -> Job]
      <3>1. job' = [job EXCEPT ![p] = [j EXCEPT !.at = "push", !.onto = Tip]]
        BY <2>1 DEF TypeOK
      <3> QED
        BY <1>1, <3>1, JobOnto, JobType
    <2> QED
      BY <1>11, <2>1, RestsType, ReadingType DEF Fetch
  <1>12. ASSUME At(p, "push") PROVE j.target \in Pulls(j.listed) /\ j.target \in Pull
    BY <1>12, ListedHead DEF ReadingsHold, JobReadings, At
  <1>13. CASE FailBack(p)
    <2> DEFINE h == Listed(p, j.target)
    <2>1. At(p, "push") /\ h \in BranchHead
      BY <1>12, <1>13, ListedHead DEF FailBack
    <2>2. Id(h) \in HeadId
      BY <2>1, ListedType DEF Id, HeadId
    <2>3. job' \in [Pull -> Job]
      BY <1>12, <1>13, <2>1, PushedType DEF FailBack
    <2> QED
      BY <1>13, <2>2, <2>3 DEF FailBack, TypeOK, pullVars, rootVars
  <1>14. CASE PushRebased(p)
    <2>1. At(p, "push")
      BY <1>14 DEF PushRebased
    <2>2. CASE LeaseHolds(p)
      <3> DEFINE q == j.target
                 h == Listed(p, q)
                 version == head[q].version + 1
                 new == [h EXCEPT !.version = version, !.base = j.onto, !.stack = {}]
      <3>1. q \in Pull /\ h \in BranchHead /\ h.pull = q
        BY <1>12, <2>1, ListedHead
      <3>2. head[q].version \in Nat /\ j.onto \in Nat
        BY <1>1, <3>1, ListedType DEF TypeOK, Job
      <3>3. new \in BranchHead /\ new.pull = q
        <4>1. version \in Nat
          BY <3>2
        <4> HIDE DEF version, h
        <4> QED
          BY <3>1, <3>2, <4>1 DEF BranchHead
      <3>4. head' = [head EXCEPT ![q] = new] /\ Pushed(p)
        BY <1>14, <2>2 DEF PushRebased, LeaseHolds, Pushed
      <3>5. head' \in [Pull -> BranchHead] /\ \A r \in Pull : head'[r].pull = r
        <4> HIDE DEF new
        <4> QED
          BY <3>1, <3>3, <3>4 DEF TypeOK
      <3>6. job' \in [Pull -> Job]
        BY <3>1, <3>4, PushedType
      <3> QED
        BY <1>14, <3>5, <3>6 DEF PushRebased, TypeOK, runVars, rootVars
    <2>3. CASE ~LeaseHolds(p)
      BY <1>14, <2>3, RestsType, ReadingType DEF PushRebased, pullVars
    <2> QED
      BY <2>2, <2>3
  <1> QED
    BY <1>3, <1>4, <1>5, <1>6, <1>7, <1>8, <1>9, <1>10, <1>11, <1>13, <1>14 DEF Train

\* The owner's two ways to push.
LEMMA HeadOpened ==
  ASSUME NEW h \in BranchHead, NEW onto \in Nat
  PROVE  [h EXCEPT !.base = onto] \in BranchHead /\ [h EXCEPT !.base = onto].pull = h.pull
  BY DEF BranchHead

LEMMA HeadCommitted ==
  ASSUME NEW h \in BranchHead, NEW version \in Nat, NEW work \in Nat
  PROVE  /\ [h EXCEPT !.version = version, !.work = work] \in BranchHead
         /\ [h EXCEPT !.version = version, !.work = work].pull = h.pull
  BY DEF BranchHead

LEMMA HeadType ==
  ASSUME TypeOK, NEW p \in Pull, NEW new \in BranchHead, new.pull = p,
         head' = [head EXCEPT ![p] = new]
  PROVE  head' \in [Pull -> BranchHead] /\ \A q \in Pull : head'[q].pull = q
  BY DEF TypeOK

\* Owners, verify runs, failures and the reconciler.
LEMMA OtherType ==
  ASSUME TypeOK, NEW p \in Pull,
         Handoff(p) \/ OwnerPush(p) \/ Verify(p) \/ JobFails(p) \/ Reconcile(p)
  PROVE  TypeOK'
  <1> USE DEF pullVars, runVars, rootVars
  <1>1. head[p] \in BranchHead /\ head[p].pull = p /\ Tip \in Nat
    BY DEF TypeOK, Tip
  <1>2. CASE Handoff(p)
    <2>1. head' = [head EXCEPT ![p] = [head[p] EXCEPT !.base = Tip]]
      BY <1>2 DEF Handoff, TypeOK
    <2>2. head' \in [Pull -> BranchHead] /\ \A q \in Pull : head'[q].pull = q
      <3> DEFINE new == [head[p] EXCEPT !.base = Tip]
      <3>1. new \in BranchHead /\ new.pull = p
        BY <1>1, HeadOpened
      <3> HIDE DEF new
      <3> QED
        BY <2>1, <3>1, HeadType DEF new
    <2>3. issue' \in [Pull -> Issue]
      <3> DEFINE flipped == [issue[p] EXCEPT !.state = "awaiting_land"]
      <3>1. issue \in [Pull -> Issue]
        BY DEF TypeOK
      <3>2. flipped \in Issue
        BY <3>1 DEF Issue
      <3>3. issue' = [issue EXCEPT ![p] = flipped]
        BY <1>2 DEF Handoff
      <3> HIDE DEF flipped
      <3> QED
        BY <3>1, <3>2, <3>3
    <2>4. pr' \in [Pull -> {"absent", "open", "merged", "closed"}]
      BY <1>2 DEF Handoff, TypeOK
    <2> QED
      BY <1>2, <2>2, <2>3, <2>4 DEF Handoff, TypeOK
  <1>3. CASE OwnerPush(p)
    <2> DEFINE version == head[p].version + 1
               work == head[p].work + 1
               committed == [head[p] EXCEPT !.version = version, !.work = work]
               replayed == [head[p] EXCEPT !.version = version, !.work = work,
                                           !.base = Tip, !.stack = {}]
    <2>1. version \in Nat /\ work \in Nat
      BY <1>1, ListedType
    <2>4. committed \in BranchHead /\ committed.pull = p
      <3> HIDE DEF version, work
      <3> QED
        BY <1>1, <2>1, HeadCommitted
    <2>5. replayed \in BranchHead /\ replayed.pull = p
      <3> HIDE DEF version, work
      <3> QED
        BY <1>1, <2>1 DEF BranchHead
    <2>6. \/ head' = [head EXCEPT ![p] = committed]
          \/ head' = [head EXCEPT ![p] = replayed]
      BY <1>3 DEF OwnerPush, TypeOK
    <2>2. head' \in [Pull -> BranchHead] /\ \A q \in Pull : head'[q].pull = q
      <3> HIDE DEF committed, replayed
      <3> QED
        BY <2>4, <2>5, <2>6, HeadType
    <2>3. pushes' \in 0 .. MaxPushes
      BY <1>3, Values DEF OwnerPush, TypeOK
    <2> QED
      BY <1>3, <2>2, <2>3 DEF OwnerPush, TypeOK
  <1>4. Id(head[p]) \in HeadId
    BY <1>1, ListedType DEF Id, HeadId
  <1>5. CASE VerifyPasses(p)
    <2> DEFINE new == [Resting EXCEPT !.at = "admit", !.version = head[p].version]
    <2>1. new \in Job
      BY <1>1, Values, ListedType DEF Job, Step, Resting
    <2>2. job' \in [Pull -> Job]
      BY <1>5, <2>1, JobType DEF VerifyPasses
    <2> QED
      BY <1>4, <1>5, <2>2 DEF VerifyPasses, TypeOK
  <1>6. CASE VerifyFails(p)
    BY <1>4, <1>6 DEF VerifyFails, TypeOK
  <1>7. CASE JobFails(p)
    <2>1. failures' \in 0 .. MaxFailures
      BY <1>7, Values DEF JobFails, TypeOK
    <2> QED
      BY <1>7, <2>1, RestsType DEF JobFails, TypeOK
  <1>8. CASE Reconcile(p)
    BY <1>1, <1>8 DEF Reconcile, TypeOK
  <1> QED
    BY <1>2, <1>3, <1>5, <1>6, <1>7, <1>8 DEF Verify

LEMMA StepType == TypeOK /\ ReadingsHold /\ [Next]_vars => TypeOK'
  <1> SUFFICES ASSUME TypeOK, ReadingsHold, [Next]_vars PROVE TypeOK'
    OBVIOUS
  <1>1. CASE UNCHANGED vars
    BY <1>1 DEF vars, TypeOK, pullVars, runVars, rootVars
  <1> QED
    BY <1>1, LandType, TrainType, OtherType DEF Next
-----------------------------------------------------------------------------
(***************************************************************************)
(* What a job has read, as a relation of the job with the default branch   *)
(* and the heads: a step of anyone else only lets these grow.              *)
(***************************************************************************)
Chosen(j, q) == CHOOSE h \in j.listed : h.pull = q
Merged(id, n, m) == \E i \in 1 .. n : Holds(m[i], id)

HeadsRead(j, hd, m) ==
    /\ \A g, h \in j.listed : g.pull = h.pull => g = h
    /\ \A h \in j.listed :
        /\ h.version <= h.work + h.base /\ h.base <= Len(m)
        /\ h.version <= hd[h.pull].version
        /\ h.version = hd[h.pull].version => h.work = hd[h.pull].work

Landing(p, j, m) ==
    j.at \in {"branch", "mark"} => j.tip \in 1 .. Len(m) /\ Id(m[j.tip]) = <<p, j.version>>
Finishing(j, m) ==
    j.at \in {"member", "memberPull", "memberIssue"} =>
        /\ j.tip <= Len(m)
        /\ \A q \in j.todo : \E h \in j.listed : h.pull = q /\ Merged(Id(h), j.tip, m)
Nudging(j) == j.at \in {"nudge", "select", "fetch", "push"} => j.todo \subseteq Pulls(j.listed)
Rebasing(j, m) ==
    /\ j.at \in {"fetch", "push"} =>
            j.target \in Pulls(j.listed) /\ Chosen(j, j.target).base < Len(m)
    /\ j.at = "push" => Chosen(j, j.target).base < j.onto /\ j.onto <= Len(m)

Reads(p, j, m) == Landing(p, j, m) /\ Finishing(j, m) /\ Nudging(j) /\ Rebasing(j, m)

MainGrows == Len(main) <= Len(main') /\ \A i \in 1 .. Len(main) : main'[i] = main[i]
HeadsGrow == \A r \in Pull : /\ head[r].version <= head'[r].version
                             /\ head[r].version = head'[r].version => head[r].work = head'[r].work

LEMMA ReadingsAre ==
    /\ ReadingsHold <=>
            \A p \in Pull : HeadsRead(job[p], head, main) /\ Reads(p, job[p], main)
    /\ ReadingsHold' <=>
            \A p \in Pull : HeadsRead(job'[p], head', main') /\ Reads(p, job'[p], main')
  <1>1. \A p \in Pull : ListedHeads(p) <=> HeadsRead(job[p], head, main)
    BY DEF ListedHeads, HeadsRead, Tip
  <1>2. \A p \in Pull : ListedHeads(p)' <=> HeadsRead(job'[p], head', main')
    BY DEF ListedHeads, HeadsRead, Tip
  <1>3. \A p \in Pull : JobReadings(p) <=> Reads(p, job[p], main)
    BY DEF JobReadings, Reads, Landing, Finishing, Nudging, Rebasing, Listed, Chosen,
           OnMain, Merged, Tip
  <1>4. \A p \in Pull : JobReadings(p)' <=> Reads(p, job'[p], main')
    BY DEF JobReadings, Reads, Landing, Finishing, Nudging, Rebasing, Listed, Chosen,
           OnMain, Merged, Tip
  <1> QED
    BY <1>1, <1>2, <1>3, <1>4 DEF ReadingsHold

\* A step of Next, for one subject.
Acts(p) ==
    \/ Handoff(p) \/ OwnerPush(p)
    \/ Verify(p) \/ Land(p) \/ Train(p) \/ JobFails(p)
    \/ Reconcile(p)

LEMMA StepGrows ==
  ASSUME TypeOK, ReadingsHold, NEW p \in Pull, Acts(p)
  PROVE  MainGrows /\ HeadsGrow
  <1>1. main \in Seq(BranchHead) /\ \A r \in Pull : head[r] \in BranchHead
    BY DEF TypeOK
  <1>2. \A r \in Pull : head[r].version \in Nat
    BY <1>1, ListedType
  <1>3. ASSUME main' = main PROVE MainGrows
    BY <1>1, <1>3 DEF MainGrows
  <1>4. ASSUME head' = head PROVE HeadsGrow
    BY <1>2, <1>4 DEF HeadsGrow
  <1>5. CASE Merge(p)
    <2>1. MainGrows
      <3>1. CASE main' = Append(main, head[p])
        BY <1>1, <3>1 DEF MainGrows
      <3> QED
        BY <1>3, <1>5, <3>1 DEF Merge
    <2> QED
      BY <1>4, <1>5, <2>1 DEF Merge
  <1>6. CASE Handoff(p)
    <2>1. \A r \in Pull : head'[r].version = head[r].version /\ head'[r].work = head[r].work
      BY <1>1, <1>6 DEF Handoff, TypeOK, BranchHead
    <2> QED
      BY <1>2, <1>3, <1>6, <2>1 DEF Handoff, HeadsGrow
  <1>7. CASE OwnerPush(p)
    <2>1. \A r \in Pull : \/ head'[r] = head[r]
                          \/ head'[r].version = head[r].version + 1
      BY <1>1, <1>7 DEF OwnerPush, TypeOK, BranchHead
    <2> QED
      BY <1>2, <1>3, <1>7, <2>1 DEF OwnerPush, HeadsGrow
  <1>8. CASE PushRebased(p)
    <2>1. CASE LeaseHolds(p)
      <3> DEFINE q == job[p].target
                 h == Listed(p, q)
                 version == head[q].version + 1
                 new == [h EXCEPT !.version = version, !.base = job[p].onto, !.stack = {}]
      <3>1. q \in Pull /\ h \in BranchHead
        BY <1>8, ListedHead DEF PushRebased, At, ReadingsHold, JobReadings
      <3>2. head' = [head EXCEPT ![q] = new]
        BY <1>8, <2>1 DEF PushRebased, LeaseHolds, Pushed
      <3>3. new.version = version
        <4> HIDE DEF h, version
        <4> QED
          BY <3>1 DEF BranchHead
      <3>4. \A r \in Pull : head'[r] = head[r] \/ head'[r].version = head[r].version + 1
        <4> HIDE DEF new
        <4> QED
          BY <3>1, <3>2, <3>3 DEF TypeOK
      <3> QED
        BY <1>2, <1>3, <1>8, <3>4 DEF PushRebased, HeadsGrow
    <2> QED
      BY <1>3, <1>4, <1>8, <2>1 DEF PushRebased
  <1> QED
    BY <1>3, <1>4, <1>5, <1>6, <1>7, <1>8
    DEF Acts, Verify, VerifyPasses, VerifyFails, Land, Admit, ReadBranch, MarkLanded, CloseIssue,
        Train, ListPulls, Batch, MarkMember, CloseMemberPull, CloseMemberIssue,
        ReadDependents, Nudge, Select, Fetch, FailBack, JobFails, Reconcile, pullVars

\* What is merged stays merged, at the place where it was.
LEMMA MergedStays ==
  ASSUME TypeOK, TypeOK', MainGrows, NEW id, NEW n \in 0 .. Len(main)
  PROVE  Merged(id, n, main) <=> Merged(id, n, main')
  <1>1. Len(main) \in Nat
    BY DEF TypeOK
  <1>2. \A i \in 1 .. n : main'[i] = main[i]
    BY <1>1 DEF MainGrows
  <1> QED
    BY <1>2 DEF Merged

\* A job that does not move itself finds what it read as good as before.
LEMMA ReadingsStay ==
  ASSUME TypeOK, TypeOK', MainGrows, HeadsGrow, NEW p \in Pull, NEW j \in Job
  PROVE  /\ HeadsRead(j, head, main) => HeadsRead(j, head', main')
         /\ Reads(p, j, main) => Reads(p, j, main')
  <1>1. Len(main) \in Nat /\ Len(main') \in Nat /\ Len(main) <= Len(main')
    BY DEF TypeOK, MainGrows
  <1>2. /\ j.listed \subseteq BranchHead /\ j.tip \in Nat /\ j.onto \in Nat
        /\ \A h \in j.listed : /\ h \in BranchHead /\ h.pull \in Pull /\ h.version \in Nat
                              /\ h.work \in Nat /\ h.base \in Nat
    BY DEF Job, BranchHead
  <1>3. \A r \in Pull : head[r].version \in Nat /\ head'[r].version \in Nat
    BY DEF TypeOK, BranchHead
  <1>4. HeadsRead(j, head, main) => HeadsRead(j, head', main')
    <2> SUFFICES ASSUME HeadsRead(j, head, main), NEW h \in j.listed
                 PROVE  /\ h.base <= Len(main') /\ h.version <= head'[h.pull].version
                        /\ h.version = head'[h.pull].version => h.work = head'[h.pull].work
      BY DEF HeadsRead
    <2>1. /\ h.base <= Len(main) /\ h.version <= head[h.pull].version
          /\ h.version = head[h.pull].version => h.work = head[h.pull].work
      BY DEF HeadsRead
    <2>2. /\ head[h.pull].version <= head'[h.pull].version
          /\ head[h.pull].version = head'[h.pull].version =>
                head[h.pull].work = head'[h.pull].work
      BY <1>2 DEF HeadsGrow
    <2> QED
      BY <1>1, <1>2, <1>3, <2>1, <2>2
  <1>5. Landing(p, j, main) => Landing(p, j, main')
    BY <1>1, <1>2 DEF Landing, MainGrows
  <1>6. Finishing(j, main) => Finishing(j, main')
    <2> SUFFICES ASSUME Finishing(j, main), j.at \in {"member", "memberPull", "memberIssue"}
                 PROVE  /\ j.tip <= Len(main')
                        /\ \A q \in j.todo : \E h \in j.listed :
                                h.pull = q /\ Merged(Id(h), j.tip, main')
      BY DEF Finishing
    <2>1. j.tip \in 0 .. Len(main)
      BY <1>1, <1>2 DEF Finishing
    <2> QED
      BY <1>1, <2>1, MergedStays DEF Finishing
  <1>7. Rebasing(j, main) => Rebasing(j, main')
    <2> SUFFICES ASSUME Rebasing(j, main), j.at \in {"fetch", "push"}
                 PROVE  Rebasing(j, main')
      BY DEF Rebasing
    <2>1. Chosen(j, j.target) \in j.listed
      BY DEF Rebasing, Chosen, Pulls
    <2>2. Chosen(j, j.target).base \in Nat
      BY <1>2, <2>1
    <2> QED
      BY <1>1, <1>2, <2>2 DEF Rebasing
  <1> QED
    BY <1>4, <1>5, <1>6, <1>7 DEF Reads

\* Bounds of the heads: an owner's push adds to both sides, a push of the train
\* replaces the listed base by a later main.
LEMMA BoundsStep ==
  ASSUME TypeOK, TypeOK', PushesBounded, ReadingsHold, MainGrows, NEW p \in Pull, Acts(p)
  PROVE  PushesBounded'
  <1>1. Tip \in Nat /\ Tip' \in Nat /\ Tip <= Tip'
    BY DEF TypeOK, MainGrows, Tip
  <1>2. \A r \in Pull : /\ head[r] \in BranchHead /\ head[r].version \in Nat
                        /\ head[r].work \in Nat /\ head[r].base \in Nat
    BY DEF TypeOK, BranchHead
  <1>3. ASSUME NEW r \in Pull, head'[r] = head[r]
        PROVE  head'[r].version <= head'[r].work + head'[r].base /\ head'[r].base <= Tip'
    BY <1>1, <1>2, <1>3 DEF PushesBounded
  <1>4. CASE head' = head
    BY <1>3, <1>4 DEF PushesBounded
  <1>5. CASE Handoff(p)
    <2>1. \A r \in Pull : \/ head'[r] = head[r]
                          \/ /\ head'[r].version = head[r].version
                             /\ head'[r].work = head[r].work /\ head'[r].base = Tip
      BY <1>2, <1>5 DEF Handoff, TypeOK, BranchHead
    <2> QED
      BY <1>1, <1>2, <1>3, <2>1 DEF PushesBounded
  <1>6. CASE OwnerPush(p)
    <2> DEFINE version == head[p].version + 1
               work == head[p].work + 1
               committed == [head[p] EXCEPT !.version = version, !.work = work]
               replayed == [head[p] EXCEPT !.version = version, !.work = work,
                                           !.base = Tip, !.stack = {}]
    <2>1. PICK new : new \in {committed, replayed} /\ head' = [head EXCEPT ![p] = new]
      BY <1>6 DEF OwnerPush, TypeOK
    <2>2. /\ new.version = version /\ new.work = work
          /\ new.base = head[p].base \/ new.base = Tip
      <3> HIDE DEF version, work
      <3> QED
        BY <1>2, <2>1 DEF BranchHead
    <2>3. new.version <= new.work + new.base /\ new.base <= Tip'
      BY <1>1, <1>2, <2>2 DEF PushesBounded
    <2> QED
      <3> HIDE DEF committed, replayed
      <3> QED
        BY <1>3, <2>1, <2>3 DEF PushesBounded, TypeOK
  <1>7. CASE PushRebased(p) /\ LeaseHolds(p)
    <2> DEFINE q == job[p].target
               h == Listed(p, q)
               onto == job[p].onto
               version == head[q].version + 1
               new == [h EXCEPT !.version = version, !.base = onto, !.stack = {}]
    <2>1. /\ q \in Pull /\ h \in BranchHead /\ h \in job[p].listed /\ onto \in Nat
          /\ h.base < onto /\ onto <= Tip
      BY <1>7, ListedHead, ListedType
      DEF PushRebased, At, ReadingsHold, JobReadings, Job
    <2>2. head' = [head EXCEPT ![q] = new]
      BY <1>7 DEF PushRebased, LeaseHolds, Pushed
    <2>3. new.version = version /\ new.base = onto /\ new.work = h.work
      <3> HIDE DEF h, version, onto
      <3> QED
        BY <2>1 DEF BranchHead
    <2>4. h.version <= h.work + h.base
      BY <2>1 DEF ReadingsHold, ListedHeads
    <2>5. head[q].version = h.version
      BY <1>7 DEF LeaseHolds, Id
    <2>6. h.work \in Nat /\ h.base \in Nat /\ h.version \in Nat
      BY <2>1, ListedType
    <2>7. version <= h.work + onto
      BY <2>1, <2>4, <2>5, <2>6
    <2>8. head'[q] = new /\ \A r \in Pull : r # q => head'[r] = head[r]
      <3> HIDE DEF new
      <3> QED
        BY <2>1, <2>2 DEF TypeOK
    <2>9. head'[q].version <= head'[q].work + head'[q].base /\ head'[q].base <= Tip'
      <3> HIDE DEF new, version, onto, h, q
      <3> QED
        BY <1>1, <2>1, <2>3, <2>7, <2>8
    <2> QED
      <3> HIDE DEF q, new
      <3> QED
        BY <1>3, <2>8, <2>9 DEF PushesBounded
  <1> QED
    BY <1>4, <1>5, <1>6, <1>7
    DEF Acts, Verify, VerifyPasses, VerifyFails, Land, Admit, Merge, ReadBranch, MarkLanded,
        CloseIssue, Train, ListPulls, Batch, MarkMember, CloseMemberPull, CloseMemberIssue,
        ReadDependents, Nudge, Select, Fetch, FailBack, PushRebased, JobFails, Reconcile, pullVars

\* Markers are written from what a job has read: its own merge, or a listed head
\* that the default branch contained when the batch was admitted.
LEMMA MarkersStep ==
  ASSUME TypeOK, TypeOK', MarkedIsMerged, ReadingsHold, MainGrows, NEW p \in Pull, Acts(p)
  PROVE  MarkedIsMerged'
  <1> DEFINE Truthful(r, i, m) == i.merge <= Len(m) /\ Merged(<<r, i.version>>, i.merge, m)
  <1>1. /\ Len(main) \in Nat /\ Len(main') \in Nat /\ Len(main) <= Len(main')
        /\ \A r \in Pull : issue[r].merge \in Nat
    BY DEF TypeOK, MainGrows, Issue
  <1>2. /\ MarkedIsMerged <=> \A r \in Pull : issue[r].state = "landed" => Truthful(r, issue[r], main)
        /\ MarkedIsMerged' <=>
                \A r \in Pull : issue'[r].state = "landed" => Truthful(r, issue'[r], main')
    BY DEF MarkedIsMerged, OnMain, Merged, Tip
  <1>3. ASSUME NEW r \in Pull, issue'[r].state = "landed", issue[r].state = "landed",
               issue'[r].version = issue[r].version, issue'[r].merge = issue[r].merge
        PROVE  Truthful(r, issue'[r], main')
    <2>1. Truthful(r, issue[r], main)
      BY <1>2, <1>3
    <2>2. issue[r].merge \in 0 .. Len(main)
      BY <1>1, <2>1
    <2> QED
      BY <1>1, <1>3, <2>1, <2>2, MergedStays
  <1>4. ASSUME NEW q \in Pull, NEW version \in Nat, NEW merge \in Nat, Marked(q, version, merge),
               main' = main, merge <= Len(main), Merged(<<q, version>>, merge, main)
        PROVE  MarkedIsMerged'
    <2>1. issue'[q].version = version /\ issue'[q].merge = merge
      BY <1>4 DEF Marked, TypeOK, Issue
    <2>2. \A r \in Pull : r # q => issue'[r] = issue[r]
      BY <1>4 DEF Marked, TypeOK
    <2> QED
      BY <1>2, <1>3, <1>4, <2>1, <2>2
  <1>5. CASE \A r \in Pull : issue'[r].state = "landed" =>
                /\ issue[r].state = "landed"
                /\ issue'[r].version = issue[r].version /\ issue'[r].merge = issue[r].merge
    BY <1>2, <1>3, <1>5
  <1>6. CASE MarkLanded(p)
    <2>1. /\ Marked(p, job[p].version, job[p].tip) /\ main' = main
          /\ job[p].version \in Nat /\ job[p].tip \in Nat
      BY <1>6 DEF MarkLanded, TypeOK, Job
    <2>2. job[p].tip \in 1 .. Len(main) /\ Id(main[job[p].tip]) = <<p, job[p].version>>
      BY <1>6 DEF MarkLanded, At, ReadingsHold, JobReadings, Tip
    <2>3. Merged(<<p, job[p].version>>, job[p].tip, main)
      BY <1>1, <2>2 DEF Merged, Holds
    <2> QED
      BY <1>1, <1>4, <2>1, <2>2, <2>3
  <1>7. CASE MarkMember(p)
    <2>1. PICK q \in Pull : Oldest(q, job[p].todo) /\ Marked(q, MemberVersion(p, q), job[p].tip)
      BY <1>7 DEF MarkMember
    <2>2. /\ q \in job[p].todo /\ main' = main /\ At(p, "member")
          /\ job[p].tip \in Nat /\ job[p].listed \subseteq BranchHead
      BY <1>7, <2>1, ListedType DEF MarkMember, Oldest, Job
    <2>3. job[p].tip <= Len(main)
      BY <2>2 DEF At, ReadingsHold, JobReadings, Tip
    <2>4. PICK h \in job[p].listed : h.pull = q /\ OnMain(Id(h), job[p].tip)
      BY <2>2 DEF At, ReadingsHold, JobReadings
    <2>5. Listed(p, q) = h
      BY <2>4 DEF Listed, ReadingsHold, ListedHeads
    <2>6. h.version \in Nat
      BY <2>2, ListedType
    <2>7. Merged(<<q, h.version>>, job[p].tip, main)
      BY <2>4 DEF OnMain, Merged, Id
    <2> QED
      BY <1>4, <2>1, <2>2, <2>3, <2>5, <2>6, <2>7 DEF MemberVersion
  <1>8. CASE CloseIssue(p) \/ CloseMemberIssue(p) \/ Handoff(p)
    <2>1. \A r \in Pull : issue[r] \in Issue
      BY DEF TypeOK
    <2>2. CASE Handoff(p)
      BY <1>5, <2>1, <2>2 DEF Handoff, TypeOK, Issue
    <2>3. ASSUME NEW q, issue' = [issue EXCEPT ![q].open = FALSE]
          PROVE  MarkedIsMerged'
      BY <1>5, <2>1, <2>3 DEF TypeOK, Issue
    <2> QED
      BY <1>8, <2>2, <2>3 DEF CloseIssue, CloseMemberIssue
  <1>9. CASE issue' = issue
    BY <1>5, <1>9
  <1> QED
    BY <1>6, <1>7, <1>8, <1>9
    DEF Acts, OwnerPush, Verify, VerifyPasses, VerifyFails, Land, Admit, Merge, ReadBranch,
        Train, ListPulls, Batch, CloseMemberPull, ReadDependents, Nudge, Select, Fetch,
        FailBack, PushRebased, JobFails, Reconcile
-----------------------------------------------------------------------------
(***************************************************************************)
(* What a job reads is good when it reads it, and stays good until it uses *)
(* it.                                                                     *)
(***************************************************************************)
LEMMA RestingReads == \A p : HeadsRead(Resting, head, main) /\ Reads(p, Resting, main)
  BY DEF Resting, HeadsRead, Reads, Landing, Finishing, Nudging, Rebasing

\* A step that keeps the list keeps what is known of it.
LEMMA SameList ==
  ASSUME NEW j, NEW k, k.listed = j.listed, HeadsRead(j, head, main)
  PROVE  HeadsRead(k, head, main)
  BY DEF HeadsRead

\* The fields of a job that only goes on.
LEMMA WentOn ==
  ASSUME TypeOK, NEW p \in Pull, NEW step \in Step, Goes(p, step)
  PROVE  /\ job'[p].at = step /\ job'[p].version = job[p].version /\ job'[p].tip = job[p].tip
         /\ job'[p].listed = job[p].listed /\ job'[p].todo = job[p].todo
         /\ job'[p].target = job[p].target
  <1>1. job'[p] = [job[p] EXCEPT !.at = step] /\ job[p] \in Job
    BY GoesType DEF TypeOK
  <1> QED
    BY <1>1 DEF Job

Good(p, k) == HeadsRead(k, head, main) /\ Reads(p, k, main)

\* land_pull_request after the merge, and the steps without a reading.
LEMMA LandReads ==
  ASSUME TypeOK, NEW p \in Pull, Good(p, job[p]),
         Admit(p) \/ ReadBranch(p) \/ MarkLanded(p) \/ CloseIssue(p)
  PROVE  Good(p, job'[p])
  <1>1. CASE Rests(p)
    BY <1>1, RestsType, RestingReads DEF Good
  <1>2. CASE Goes(p, "merge") \/ Goes(p, "close") \/ Goes(p, "list")
    <2>1. job'[p].at \in {"merge", "close", "list"} /\ job'[p].listed = job[p].listed
      BY <1>2, WentOn DEF Step
    <2> QED
      BY <2>1, SameList DEF Good, Reads, Landing, Finishing, Nudging, Rebasing
  <1>3. CASE ReadBranch(p) /\ Goes(p, "mark")
    <2>1. /\ At(p, "branch") /\ job'[p].at = "mark" /\ job'[p].version = job[p].version
          /\ job'[p].tip = job[p].tip /\ job'[p].listed = job[p].listed
      BY <1>3, WentOn DEF Step, ReadBranch
    <2> QED
      BY <2>1, SameList DEF At, Good, Reads, Landing, Finishing, Nudging, Rebasing
  <1> QED
    BY <1>1, <1>2, <1>3 DEF Admit, ReadBranch, MarkLanded, CloseIssue

\* The merge itself: it is the new tip.
LEMMA MergeReads ==
  ASSUME TypeOK, TypeOK', MainGrows, HeadsGrow, NEW p \in Pull, Good(p, job[p]), Merge(p)
  PROVE  HeadsRead(job'[p], head', main') /\ Reads(p, job'[p], main')
  <1>1. job'[p] \in Job /\ job[p] \in Job
    BY DEF TypeOK
  <1>2. CASE Rests(p)
    <2>1. Good(p, job'[p])
      BY <1>2, RestsType, RestingReads DEF Good
    <2> QED
      BY <1>1, <2>1, ReadingsStay DEF Good
  <1>3. CASE ~Rests(p)
    <2> DEFINE k == job'[p]
               n == Tip + 1
    <2>1. /\ Mergeable(p) /\ main' = Append(main, head[p])
          /\ job' = [job EXCEPT ![p].at = "branch", ![p].tip = Tip + 1]
      BY <1>3 DEF Merge
    <2>2. k.at = "branch" /\ k.tip = n /\ k.listed = job[p].listed /\ k.version = job[p].version
      BY <1>1, <2>1 DEF TypeOK, Job
    <2>3. Tip \in Nat /\ Len(main') = n /\ main'[n] = head[p]
      BY <2>1 DEF TypeOK, Tip
    <2>4. Id(main'[n]) = <<p, job[p].version>>
      BY <2>1, <2>3 DEF Mergeable, Id, TypeOK
    <2>5. Landing(p, k, main')
      BY <2>2, <2>3, <2>4 DEF Landing
    <2>6. HeadsRead(k, head', main')
      BY <1>1, <2>2, SameList, ReadingsStay DEF Good
    <2> QED
      BY <2>2, <2>5, <2>6 DEF Reads, Finishing, Nudging, Rebasing
  <1> QED
    BY <1>2, <1>3

\* landing_train: the list and the batch.
LEMMA BatchReads ==
  ASSUME TypeOK, PushesBounded, NEW p \in Pull, Good(p, job[p]),
         ListPulls(p) \/ Batch(p) \/ MarkMember(p) \/ CloseMemberPull(p) \/ CloseMemberIssue(p)
  PROVE  Good(p, job'[p])
  <1> DEFINE j == job[p]
             k == job'[p]
  <1>1. j \in Job /\ Tip \in Nat
    BY DEF TypeOK, Tip
  <1>2. CASE ListPulls(p)
    <2>1. k.at = "batch" /\ k.listed = {head[q] : q \in {r \in Pull : pr[r] = "open"}}
      BY <1>1, <1>2 DEF ListPulls, TypeOK, Job
    <2>2. \A q \in Pull : head[q].pull = q /\ head[q].version \in Nat
      BY DEF TypeOK, BranchHead
    <2>3. HeadsRead(k, head, main)
      BY <2>1, <2>2 DEF HeadsRead, PushesBounded, Tip
    <2> QED
      BY <2>1, <2>3 DEF Good, Reads, Landing, Finishing, Nudging, Rebasing
  <1>3. CASE Batch(p) /\ BatchAdmitted(p)
    <2>1. /\ k.at = "member" /\ k.tip = Tip /\ k.todo = Pulls(Carried(p))
          /\ k.listed = j.listed
      BY <1>1, <1>3 DEF Batch, TypeOK, Job
    <2>2. \A q \in k.todo : \E h \in j.listed : h.pull = q /\ Merged(Id(h), Tip, main)
      BY <2>1 DEF Pulls, Carried, OnMain, Merged
    <2> QED
      BY <1>1, <2>1, <2>2, SameList DEF Good, Reads, Landing, Finishing, Nudging, Rebasing, Tip
  <1>4. CASE Batch(p) /\ ~BatchAdmitted(p)
    <2>1. k.at = "dependents" /\ k.listed = j.listed
      BY <1>4, WentOn DEF Batch, Step
    <2> QED
      BY <2>1, SameList DEF Good, Reads, Landing, Finishing, Nudging, Rebasing
  <1>5. CASE MarkMember(p) \/ CloseMemberPull(p) \/ CloseMemberIssue(p)
    <2>1. j.at \in {"member", "memberPull", "memberIssue"}
      BY <1>5 DEF MarkMember, CloseMemberPull, CloseMemberIssue, At
    <2>2. /\ k.at \in {"member", "memberPull", "memberIssue", "dependents"}
          /\ k.tip = j.tip /\ k.todo \subseteq j.todo /\ k.listed = j.listed
      <3>1. CASE MarkMember(p)
        <4>1. PICK q \in Pull : job' = [job EXCEPT ![p].at = "memberPull", ![p].target = q]
          BY <3>1 DEF MarkMember
        <4> QED
          BY <1>1, <4>1 DEF TypeOK, Job
      <3>2. CASE CloseMemberPull(p)
        BY <3>2, WentOn DEF CloseMemberPull, Step
      <3>3. CASE CloseMemberIssue(p)
        BY <1>1, <3>3 DEF CloseMemberIssue, TypeOK, Job
      <3> QED
        BY <1>5, <3>1, <3>2, <3>3
    <2>3. Finishing(j, main) => Finishing(k, main)
      BY <2>1, <2>2 DEF Finishing
    <2> QED
      BY <2>2, <2>3, SameList DEF Good, Reads, Landing, Nudging, Rebasing
  <1> QED
    BY <1>2, <1>3, <1>4, <1>5

\* What the train does after a push or a fail-back needs no reading but the list.
LEMMA PushedReads ==
  ASSUME TypeOK, NEW p \in Pull, Good(p, job[p]), At(p, "push"), Pushed(p)
  PROVE  Good(p, job'[p])
  <1>1. CASE job[p].nudging
    <2> DEFINE j == job[p]
               k == job'[p]
    <2>1. j \in Job
      BY DEF TypeOK
    <2>2. k.at = "nudge" /\ k.listed = j.listed /\ k.todo \subseteq j.todo
      BY <1>1, <2>1 DEF Pushed, TypeOK, Job
    <2>3. k.todo \subseteq Pulls(k.listed)
      BY <2>2 DEF Good, Reads, Nudging, At
    <2> QED
      BY <2>2, <2>3, SameList DEF Good, Reads, Landing, Finishing, Nudging, Rebasing
  <1>2. CASE ~job[p].nudging
    BY <1>2, RestsType, RestingReads DEF Pushed, Good
  <1> QED
    BY <1>1, <1>2

\* The head a job is about to rebase is one it listed, and is behind.
LEMMA ChosenReads ==
  ASSUME TypeOK, NEW p \in Pull, Good(p, job[p]), NEW k, NEW q,
         k.listed = job[p].listed, k.todo = job[p].todo, k.at = "fetch", k.target = q,
         job[p].at \in {"nudge", "select"},
         q \in Pulls(k.listed), Behind(Listed(p, q))
  PROVE  Good(p, k)
  <1>1. Nudging(k)
    BY DEF Good, Reads, Nudging
  <1>2. Rebasing(k, main)
    BY DEF Rebasing, Behind, Tip, Listed, Chosen
  <1> QED
    BY <1>1, <1>2, SameList DEF Good, Reads, Landing, Finishing

\* landing_train: dependents, the selection and the rebase.
LEMMA QueueReads ==
  ASSUME TypeOK, NEW p \in Pull, Good(p, job[p]),
         ReadDependents(p) \/ Nudge(p) \/ Select(p) \/ Fetch(p) \/ FailBack(p) \/ PushRebased(p)
  PROVE  Good(p, job'[p])
  <1> DEFINE j == job[p]
             k == job'[p]
  <1>1. j \in Job /\ Tip \in Nat
    BY DEF TypeOK, Tip
  <1>2. CASE ReadDependents(p)
    <2>1. k.at = "nudge" /\ k.listed = j.listed /\ k.todo \subseteq Dependents(p)
      BY <1>1, <1>2 DEF ReadDependents, TypeOK, Job
    <2>2. k.todo \subseteq Pulls(k.listed)
      BY <2>1 DEF Dependents
    <2> QED
      BY <2>1, <2>2, SameList DEF Good, Reads, Landing, Finishing, Nudging, Rebasing
  <1>3. CASE Nudge(p)
    <2>1. j.at = "nudge" /\ j.todo \subseteq Pulls(j.listed)
      BY <1>3 DEF Nudge, At, Good, Reads, Nudging
    <2>2. CASE Goes(p, "select")
      <3>1. k.at = "select" /\ k.listed = j.listed /\ k.todo = j.todo
        BY <2>2, WentOn DEF Step
      <3> QED
        BY <2>1, <3>1, SameList DEF Good, Reads, Landing, Finishing, Nudging, Rebasing
    <2>3. ASSUME NEW q \in Pull, Oldest(q, j.todo), Behind(Listed(p, q)),
                 job' = [job EXCEPT ![p].at = "fetch", ![p].target = q, ![p].nudging = TRUE]
          PROVE  Good(p, k)
      <3>1. k.at = "fetch" /\ k.listed = j.listed /\ k.todo = j.todo /\ k.target = q
        BY <1>1, <2>3 DEF TypeOK, Job
      <3>2. q \in Pulls(j.listed)
        BY <2>1, <2>3 DEF Oldest
      <3> QED
        BY <2>1, <2>3, <3>1, <3>2, ChosenReads
    <2>4. ASSUME NEW q \in Pull, job' = [job EXCEPT ![p].todo = @ \ {q}]
          PROVE  Good(p, k)
      <3>1. k.at = j.at /\ k.listed = j.listed /\ k.todo \subseteq j.todo
        BY <1>1, <2>4 DEF TypeOK, Job
      <3> QED
        BY <2>1, <3>1, SameList DEF Good, Reads, Landing, Finishing, Nudging, Rebasing
    <2> QED
      BY <1>3, <2>2, <2>3, <2>4 DEF Nudge
  <1>4. CASE Select(p)
    <2>1. j.at = "select"
      BY <1>4 DEF Select, At
    <2>2. ASSUME NEW q \in Pull, Oldest(q, Pulls(Selectable(p))),
                 job' = [job EXCEPT ![p].at = "fetch", ![p].target = q, ![p].nudging = FALSE]
          PROVE  Good(p, k)
      <3>1. k.at = "fetch" /\ k.listed = j.listed /\ k.todo = j.todo /\ k.target = q
        BY <1>1, <2>2 DEF TypeOK, Job
      <3>2. PICK h \in j.listed : h.pull = q /\ Behind(h)
        BY <2>2 DEF Oldest, Pulls, Selectable
      <3>3. Listed(p, q) = h
        BY <3>2 DEF Listed, Good, HeadsRead
      <3>4. q \in Pulls(j.listed)
        BY <3>2 DEF Pulls
      <3> QED
        BY <2>1, <3>1, <3>2, <3>3, <3>4, ChosenReads
    <2> QED
      BY <1>4, <2>2, RestsType, RestingReads DEF Select, Good
  <1>5. CASE Fetch(p)
    <2>1. ASSUME job' = [job EXCEPT ![p].at = "push", ![p].onto = Tip]
          PROVE  Good(p, k)
      <3>1. /\ k.at = "push" /\ k.listed = j.listed /\ k.todo = j.todo /\ k.target = j.target
            /\ k.onto = Tip
        BY <1>1, <2>1 DEF TypeOK, Job
      <3>2. j.at = "fetch"
        BY <1>5 DEF Fetch, At
      <3>3. Chosen(k, k.target) = Chosen(j, j.target)
        BY <3>1 DEF Chosen
      <3>4. Rebasing(k, main)
        BY <1>1, <3>1, <3>2, <3>3 DEF Good, Reads, Rebasing, Tip
      <3> QED
        BY <3>1, <3>2, <3>4, SameList DEF Good, Reads, Landing, Finishing, Nudging
    <2> QED
      BY <1>5, <2>1, RestsType, RestingReads DEF Fetch, Good
  <1>6. CASE FailBack(p) \/ PushRebased(p)
    BY <1>6, PushedReads, RestsType, RestingReads DEF FailBack, PushRebased, Good
  <1> QED
    BY <1>2, <1>3, <1>4, <1>5, <1>6

LEMMA ReadingsStep ==
  ASSUME TypeOK, TypeOK', PushesBounded, ReadingsHold, NEW p \in Pull, Acts(p)
  PROVE  ReadingsHold'
  <1>1. MainGrows /\ HeadsGrow
    BY StepGrows
  <1>2. \A q \in Pull : Good(q, job[q])
    BY ReadingsAre DEF Good
  <1>3. \A q \in Pull : job'[q] \in Job
    BY DEF TypeOK
  <1>4. ASSUME NEW q \in Pull, Good(q, job'[q])
        PROVE  HeadsRead(job'[q], head', main') /\ Reads(q, job'[q], main')
    BY <1>1, <1>3, <1>4, ReadingsStay DEF Good
  <1>5. \A q \in Pull : q # p => job'[q] = job[q]
    BY ZenonT(30) DEF Acts, Handoff, OwnerPush, Verify, VerifyPasses, VerifyFails, Land, Admit, Merge,
           ReadBranch, MarkLanded, CloseIssue, Train, ListPulls, Batch, MarkMember,
           CloseMemberPull, CloseMemberIssue, ReadDependents, Nudge, Select, Fetch, FailBack,
           PushRebased, Pushed, JobFails, Reconcile, Goes, Rests, TypeOK
  <1>6. HeadsRead(job'[p], head', main') /\ Reads(p, job'[p], main')
    <2>1. CASE Merge(p)
      BY <1>1, <1>2, <2>1, MergeReads
    <2>2. CASE Land(p) /\ ~Merge(p)
      BY <1>2, <1>4, <2>2, LandReads DEF Land
    <2>3. CASE Train(p)
      BY <1>2, <1>4, <2>3, BatchReads, QueueReads DEF Train
    <2>4. CASE VerifyPasses(p)
      <3>1. job'[p].at = "admit" /\ job'[p].listed = {}
        BY <2>4 DEF VerifyPasses, TypeOK, Resting
      <3> QED
        BY <1>4, <3>1 DEF Good, HeadsRead, Reads, Landing, Finishing, Nudging, Rebasing
    <2>5. CASE JobFails(p)
      BY <1>4, <2>5, RestsType, RestingReads DEF JobFails, Good
    <2>6. CASE job'[p] = job[p]
      BY <1>2, <1>4, <2>6
    <2> QED
      BY <2>1, <2>2, <2>3, <2>4, <2>5, <2>6
      DEF Acts, Handoff, OwnerPush, Verify, VerifyFails, Reconcile
  <1> QED
    BY <1>2, <1>4, <1>5, <1>6, ReadingsAre
-----------------------------------------------------------------------------
\* A push of the train is a push on the listed head, whose owner's work is that of
\* the branch as long as the lease holds.
LEMMA WorkStep ==
  ASSUME TypeOK, ReadingsHold, NEW p \in Pull, Acts(p), NEW r \in Pull
  PROVE  head'[r].work >= head[r].work
  <1>1. head[r] \in BranchHead /\ head[r].work \in Nat
    BY DEF TypeOK, BranchHead
  <1>2. CASE head' = head
    BY <1>1, <1>2
  <1>3. CASE Handoff(p)
    <2>1. head'[r].work = head[r].work
      BY <1>1, <1>3 DEF Handoff, TypeOK, BranchHead
    <2> QED
      BY <1>1, <2>1
  <1>4. CASE OwnerPush(p)
    <2>1. head'[r] = head[r] \/ head'[r].work = head[r].work + 1
      BY <1>1, <1>4 DEF OwnerPush, TypeOK, BranchHead
    <2> QED
      BY <1>1, <2>1
  <1>5. CASE PushRebased(p) /\ LeaseHolds(p)
    <2> DEFINE q == job[p].target
               h == Listed(p, q)
               version == head[q].version + 1
               new == [h EXCEPT !.version = version, !.base = job[p].onto, !.stack = {}]
    <2>1. q \in Pull /\ h \in BranchHead /\ h \in job[p].listed /\ h.pull = q
      BY <1>5, ListedHead DEF PushRebased, At, ReadingsHold, JobReadings
    <2>2. head' = [head EXCEPT ![q] = new]
      BY <1>5 DEF PushRebased, LeaseHolds, Pushed
    <2>3. h.version = head[q].version
      BY <1>5 DEF LeaseHolds, Id
    <2>4. h.work = head[q].work
      BY <2>1, <2>3 DEF ReadingsHold, ListedHeads
    <2>5. new.work = h.work
      <3> HIDE DEF h, version
      <3> QED
        BY <2>1 DEF BranchHead
    <2>6. head'[r].work = head[r].work
      <3> HIDE DEF new, h
      <3> QED
        BY <2>1, <2>2, <2>4, <2>5 DEF TypeOK
    <2> QED
      BY <1>1, <2>6
  <1> QED
    BY <1>2, <1>3, <1>4, <1>5
    DEF Acts, Verify, VerifyPasses, VerifyFails, Land, Admit, Merge, ReadBranch, MarkLanded,
        CloseIssue, Train, ListPulls, Batch, MarkMember, CloseMemberPull, CloseMemberIssue,
        ReadDependents, Nudge, Select, Fetch, FailBack, PushRebased, JobFails, Reconcile, pullVars

\* The inductive invariant: neither the markers nor the bound on pushes survive a
\* step of a job unless what that job read is still good.
IInv == TypeOK /\ PushesBounded /\ MarkedIsMerged /\ ReadingsHold

LEMMA InitIInv == Init => IInv
  <1> SUFFICES ASSUME Init PROVE IInv
    OBVIOUS
  <1>1. TypeOK
    BY InitTypeOK
  <1>2. PICK f \in Stackings : head = [p \in Pull |-> FirstHead(p, f)]
    BY DEF Init
  <1>3. PushesBounded
    BY <1>2 DEF Init, PushesBounded, FirstHead, Tip
  <1>4. MarkedIsMerged
    BY DEF Init, MarkedIsMerged
  <1>5. ReadingsHold
    BY RestingReads, ReadingsAre DEF Init
  <1> QED
    BY <1>1, <1>3, <1>4, <1>5 DEF IInv

LEMMA StepIInv == IInv /\ [Next]_vars => IInv'
  <1> SUFFICES ASSUME IInv, [Next]_vars PROVE IInv'
    OBVIOUS
  <1>1. TypeOK'
    BY StepType DEF IInv
  <1>2. CASE UNCHANGED vars
    <2>1. PushesBounded' /\ MarkedIsMerged'
      BY <1>2 DEF IInv, PushesBounded, MarkedIsMerged, OnMain, Tip, vars, pullVars
    <2>2. ReadingsHold'
      BY <1>2, ReadingsAre DEF IInv, vars, pullVars
    <2> QED
      BY <1>1, <2>1, <2>2 DEF IInv
  <1>3. ASSUME NEW p \in Pull, Acts(p) PROVE IInv'
    <2>1. MainGrows
      BY <1>3, StepGrows DEF IInv
    <2> QED
      BY <1>1, <1>3, <2>1, BoundsStep, MarkersStep, ReadingsStep DEF IInv
  <1> QED
    BY <1>2, <1>3 DEF Next, Acts

\* The four hold together in every reachable state.
THEOREM Invariant == Spec => []IInv
  BY InitIInv, StepIInv, PTL DEF Spec

\* Every variable keeps its type: in particular a job never looks up a head that is
\* not in its list.
THEOREM TypeCorrect == Spec => []TypeOK
  BY Invariant, PTL DEF IInv

\* What a job read from the provider stays good until it uses it, whatever the owners,
\* the other trains and the lander do in between.
THEOREM ReadingsStayGood == Spec => []ReadingsHold
  BY Invariant, PTL DEF IInv

\* No marker ever names a head that is not in the default branch at the merge it
\* names, although the batch marks heads it listed many steps before.
THEOREM MarkersTruthful == Spec => []MarkedIsMerged
  BY Invariant, PTL DEF IInv

\* No branch is pushed more often than the default branch has moved (and its owner
\* has pushed), however many trains race for it.
THEOREM PushesAreBounded == Spec => []PushesBounded
  BY Invariant, PTL DEF IInv

\* No push of the train, a forced one, takes a commit of the owner off the branch.
THEOREM OwnersKeepTheirWork == Spec => OwnerWorkKept
  <1>1. IInv /\ [Next]_vars => [\A p \in Pull : head'[p].work >= head[p].work]_vars
    <2> SUFFICES ASSUME IInv, [Next]_vars
                 PROVE  [\A p \in Pull : head'[p].work >= head[p].work]_vars
      OBVIOUS
    <2>1. CASE Next
      BY <2>1, WorkStep DEF IInv, Next, Acts
    <2> QED
      BY <2>1
  <1> QED
    BY <1>1, Invariant, PTL DEF Spec, OwnerWorkKept
=============================================================================
