-------------------------- MODULE SupervisionProofs --------------------------
(* What is proved of Supervision, for any number of processes, starters and *)
(* commits: the lease of a daemon that serves is its own to give up, nobody *)
(* is admitted beside it, and a heal loses no content commit.               *)
EXTENDS Supervision, TLAPS

USE SupervisionAssumption

-----------------------------------------------------------------------------
(***************************************************************************)
(* Type correctness.                                                       *)
(***************************************************************************)

LEMMA InitTypeOK == Init => TypeOK
  BY DEF Init, TypeOK, HealSteps, WrapSteps, WithChild

LEMMA EndsType ==
  ASSUME TypeOK, NEW p \in Pid, Ends(p)
  PROVE  /\ role' \in [Pid -> {"free", "noodle", "zombie", "other"}]
         /\ asked' \subseteq Pid
         /\ {port', locking'} \subseteq Pid \cup {None}
  BY DEF TypeOK, Ends

\* A step of one wrapper that leaves it without a child.
LEMMA StepType ==
  ASSUME TypeOK, NEW w \in Starter, NEW step \in WrapSteps,
         Step(w, step), step \in WithChild <=> wrap[w].pc \in WithChild
  PROVE  /\ wrap' \in [Starter -> [pc: WrapSteps, child: Pid \cup {None}]]
         /\ \A v \in Starter : wrap'[v].pc \in WithChild <=> wrap'[v].child # None
  BY DEF TypeOK, Step

LEMMA EndedType ==
  ASSUME TypeOK, NEW w \in Starter, NEW step \in WrapSteps \ WithChild,
         wrap' = [wrap EXCEPT ![w] = [pc |-> step, child |-> None]]
  PROVE  /\ wrap' \in [Starter -> [pc: WrapSteps, child: Pid \cup {None}]]
         /\ \A v \in Starter : wrap'[v].pc \in WithChild <=> wrap'[v].child # None
  BY DEF TypeOK

LEMMA DaemonType ==
  ASSUME TypeOK, NEW p \in Pid, Daemon(p)
  PROVE  TypeOK'
  <1>1. CASE DaemonLocks(p)
    BY <1>1 DEF TypeOK, DaemonLocks, refs
  <1>2. CASE DaemonServes(p)
    BY <1>2 DEF TypeOK, DaemonServes, refs
  <1>3. CASE DaemonRefused(p) \/ DaemonDies(p)
    BY <1>3, EndsType DEF TypeOK, DaemonRefused, DaemonDies, refs, files
  <1>4. CASE DaemonExits(p)
    BY <1>4, EndsType DEF TypeOK, DaemonExits, refs
  <1>5. CASE DaemonCommits(p)
    BY <1>5 DEF TypeOK, DaemonCommits, procs, files
  <1> QED
    BY <1>1, <1>2, <1>3, <1>4, <1>5 DEF Daemon

LEMMA WorldType ==
  ASSUME TypeOK, OriginMoves \/ \E p \in Pid : OtherProcess(p)
  PROVE  TypeOK'
  BY DEF TypeOK, OriginMoves, OtherProcess, procs, files, refs

\* The two ways the compare-and-swap of the heal ends.
LEMMA CasGoes ==
  ASSUME TypeOK, HealUpdateRef
  PROVE  \/ main = heal.seen /\ heal' = [pc |-> "reset", seen |-> {}, goal |-> heal.goal]
         \/ main # heal.seen /\ heal' = [pc |-> "check", seen |-> {}, goal |-> {}]
  <1>1. CASE main = heal.seen
    <2>1. heal' = [heal EXCEPT !.pc = "reset", !.seen = {}]
      BY <1>1 DEF HealUpdateRef
    <2>2. heal \in [pc: HealSteps, seen: SUBSET Commit, goal: SUBSET Commit]
      BY DEF TypeOK
    <2> QED
      BY <1>1, <2>1, <2>2
  <1>2. CASE main # heal.seen
    BY <1>2 DEF HealUpdateRef, Leaves
  <1> QED
    BY <1>1, <1>2

LEMMA HealType ==
  ASSUME TypeOK, HealStep \/ HealSalvageFails \/ SupervisorRestarts \/ GenerationEnded
  PROVE  TypeOK'
  <1> USE DEF HealSteps, At, Goes, Leaves
  <1> USE DEF TypeOK, procs, files
  <1> heal.goal \subseteq Commit /\ heal.seen \subseteq Commit
    OBVIOUS
  <1>1. CASE HealFetch
    BY <1>1 DEF HealFetch
  <1>2. CASE HealSalvage
    BY <1>2 DEF HealSalvage
  <1>3. CASE HealUpdateRef
    <2>1. heal' \in [pc: HealSteps, seen: SUBSET Commit, goal: SUBSET Commit]
      BY <1>3, CasGoes
    <2>2. main' \subseteq Commit
      BY <1>3 DEF HealUpdateRef
    <2> QED
      BY <1>3, <2>1, <2>2 DEF HealUpdateRef
  <1>4. CASE HealReset
    BY <1>4 DEF HealReset
  <1>5. CASE HealFastForward
    BY <1>5 DEF HealFastForward
  <1>6. CASE HealLease \/ HealUnlink \/ HealSalvageFails \/ SupervisorRestarts
    BY <1>6 DEF HealLease, HealUnlink, HealSalvageFails, SupervisorRestarts, refs
  <1>7. CASE HealGhost \/ GenerationEnded
    <2>1. \E step \in WrapSteps \ WithChild :
             wrap' = [wrap EXCEPT ![Supervisor] = [pc |-> step, child |-> None]]
      BY <1>7 DEF HealGhost, GenerationEnded, WrapSteps, WithChild
    <2> QED
      BY <1>7, <2>1, EndedType DEF HealGhost, GenerationEnded, refs
  <1> QED
    BY <1>1, <1>2, <1>3, <1>4, <1>5, <1>6, <1>7 DEF HealStep

LEMMA WrapType ==
  ASSUME TypeOK, NEW w \in Starter,
         OperatorStarts(w) \/ StartStep(w) \/ AdmissionTimeout(w) \/ WrapperStopped(w)
         \/ WrapperKilled(w)
  PROVE  TypeOK'
  <1> DEFINE Wrapped == /\ wrap' \in [Starter -> [pc: WrapSteps, child: Pid \cup {None}]]
                        /\ \A v \in Starter : wrap'[v].pc \in WithChild <=> wrap'[v].child # None
  <1> USE DEF WrapSteps, WithChild, In
  <1>1. CASE OperatorStarts(w) \/ StartGate(w) \/ RejectExistingLease(w) \/ AdmissionProbe(w)
             \/ AdmissionTimeout(w)
    <2>1. \E step \in WrapSteps : Step(w, step) /\ (step \in WithChild <=> wrap[w].pc \in WithChild)
      BY <1>1 DEF OperatorStarts, StartGate, RejectExistingLease, AdmissionProbe, AdmissionTimeout
    <2>2. Wrapped
      BY <2>1, StepType
    <2> QED
      BY <1>1, <2>2 DEF TypeOK, OperatorStarts, StartGate, RejectExistingLease, AdmissionProbe,
                        AdmissionTimeout, procs, files, refs
  <1>2. CASE Spawn(w)
    <2>1. CASE Step(w, "ended") /\ UNCHANGED role
      <3> Wrapped
        BY <1>2, <2>1, StepType DEF Spawn
      <3> QED
        BY <1>2, <2>1 DEF TypeOK, Spawn, files, refs
    <2>2. ASSUME NEW p \in Pid, role' = [role EXCEPT ![p] = "noodle"],
                 wrap' = [wrap EXCEPT ![w] = [pc |-> "poll", child |-> p]]
          PROVE  TypeOK'
      BY <1>2, <2>2 DEF TypeOK, Spawn, files, refs
    <2> QED
      BY <1>2, <2>1, <2>2 DEF Spawn
  <1>3. CASE AdmissionPoll(w) \/ TerminateOwnChild(w) \/ ChildEnded(w)
             \/ WrapperStopped(w) \/ WrapperKilled(w)
    <2>1. \/ \E step \in WrapSteps : Step(w, step) /\ (step \in WithChild <=> wrap[w].pc \in WithChild)
          \/ wrap' = [wrap EXCEPT ![w] = [pc |-> "ended", child |-> None]]
          \/ wrap' = wrap
      BY <1>3 DEF AdmissionPoll, TerminateOwnChild, ChildEnded, WrapperStopped,
                  WrapperKilled, WrapperEnds
    <2>2. Wrapped
      BY <2>1, StepType, EndedType DEF TypeOK
    <2>3. wrap[w].pc \in WithChild => Child(w) \in Pid
      BY DEF TypeOK, Child
    <2>4. /\ role' \in [Pid -> {"free", "noodle", "zombie", "other"}]
          /\ asked' \subseteq Pid
      BY <1>3, <2>3
      DEF TypeOK, AdmissionPoll, TerminateOwnChild, ChildEnded, WrapperStopped,
          WrapperKilled, WrapperEnds
    <2> QED
      BY <1>3, <2>2, <2>4 DEF TypeOK, AdmissionPoll, TerminateOwnChild, ChildEnded, WrapperStopped,
                              WrapperKilled, WrapperEnds,
                              files, refs
  <1> QED
    BY <1>1, <1>2, <1>3 DEF StartStep

LEMMA NextType == TypeOK /\ [Next]_vars => TypeOK'
  <1> SUFFICES ASSUME TypeOK, [Next]_vars PROVE TypeOK'
    OBVIOUS
  <1>1. CASE UNCHANGED vars
    BY <1>1 DEF vars, procs, files, refs, TypeOK
  <1>2. CASE Next
    BY <1>2, DaemonType, WorldType, HealType, WrapType DEF Next
  <1> QED
    BY <1>1, <1>2

\* Whatever daemons, heals, starts and deaths interleave, every variable keeps its
\* type, and a wrapper has a child exactly in the steps that speak of one.
THEOREM TypeCorrect == Spec => []TypeOK
  BY InitTypeOK, NextType, PTL DEF Spec
-----------------------------------------------------------------------------
(***************************************************************************)
(* The lease of the daemon that was admitted.                              *)
(***************************************************************************)

\* The child of a wrapper is that wrapper's alone and is not reaped by others.
ChildrenApart ==
    \A w \in Starter :
        wrap[w].pc \in WithChild =>
            /\ role[Child(w)] \in {"noodle", "zombie"}
            /\ \A v \in Starter \ {w} : Child(v) # Child(w)

\* The listener belongs to the running daemon the lease names, the lease is empty
\* while a daemon is between the halves of its lock, and the heal is about to
\* clear only a lease no daemon holds.
LeaseOfServing ==
    /\ port # None => role[port] = "noodle" /\ lease = port
    /\ locking # None => lease = Empty
    /\ heal.pc = "unlink" => lease \in Pid /\ role[lease] # "noodle"

Leased == ChildrenApart /\ LeaseOfServing /\ AdmittedHoldsLease

LEMMA InitLeased == Init => Leased
  BY DEF Init, Leased, ChildrenApart, LeaseOfServing, AdmittedHoldsLease, WithChild, In

\* A running daemon is the only one that can take its number out of the lease.
LEMMA LeaseKept ==
  ASSUME TypeOK, LeaseOfServing, Next, NEW p \in Pid, lease = p, role[p] = "noodle",
         lease' # p
  PROVE  role'[p] # "noodle"
  <1>1. PICK q \in Pid : DaemonLocks(q) \/ DaemonExits(q) \/ HealUnlink
    BY DEF Next, Daemon, DaemonServes, DaemonRefused, DaemonDies, DaemonCommits, OtherProcess,
           OriginMoves, HealStep, HealSalvageFails, SupervisorRestarts, GenerationEnded,
           HealFetch, HealSalvage, HealUpdateRef, HealReset, HealFastForward, HealLease,
           HealGhost, OperatorStarts, StartStep, AdmissionTimeout, WrapperStopped,
           WrapperKilled, WrapperEnds, StartGate,
           RejectExistingLease, Spawn, AdmissionPoll, AdmissionProbe, TerminateOwnChild,
           ChildEnded, files
  <1>2. CASE DaemonLocks(q)
    BY <1>2 DEF DaemonLocks
  <1>3. CASE DaemonExits(q)
    BY <1>3 DEF DaemonExits, Ends, LeaseOfServing, TypeOK
  <1>4. CASE HealUnlink
    BY <1>4 DEF HealUnlink, LeaseOfServing, At
  <1> QED
    BY <1>1, <1>2, <1>3, <1>4

\* The end of a process changes its own entry of the table and nobody else's.
LEMMA EndsRole ==
  ASSUME TypeOK, NEW p \in Pid, Ends(p), role[p] = "noodle"
  PROVE  /\ \A q \in Pid \ {p} : role'[q] = role[q]
         /\ role'[p] \in {"free", "zombie"}
         /\ \A w \in Starter : wrap[w].pc \in WithChild /\ Child(w) = p => role'[p] = "zombie"
         /\ port' # None => port' = port /\ port # p
         /\ locking' # None => locking' = locking /\ locking # p
  BY DEF TypeOK, Ends, Parent, Child, WithChild

LEMMA DaemonLeased ==
  ASSUME TypeOK, Leased, NEW p \in Pid, Daemon(p)
  PROVE  Leased'
  <1> USE DEF Leased, ChildrenApart, LeaseOfServing, AdmittedHoldsLease, In, Child
  <1>1. CASE DaemonLocks(p)
    BY <1>1 DEF TypeOK, DaemonLocks, WithChild
  <1>2. CASE DaemonServes(p)
    BY <1>2 DEF TypeOK, DaemonServes, WithChild
  <1>3. CASE DaemonRefused(p) \/ DaemonDies(p) \/ DaemonExits(p)
    <2>1. /\ Ends(p) /\ role[p] = "noodle" /\ UNCHANGED <<heal, wrap>>
          /\ lease' = lease \/ (lease' = None /\ p \in {lease, locking})
      BY <1>3 DEF DaemonRefused, DaemonDies, DaemonExits, files
    <2>2. ChildrenApart'
      BY <2>1, EndsRole DEF TypeOK, WithChild
    <2>3. LeaseOfServing'
      BY <2>1, EndsRole DEF TypeOK
    <2>4. AdmittedHoldsLease'
      BY <2>1, EndsRole DEF TypeOK, WithChild
    <2> QED
      BY <2>2, <2>3, <2>4
  <1>4. CASE DaemonCommits(p)
    BY <1>4 DEF DaemonCommits, procs, files
  <1> QED
    BY <1>1, <1>2, <1>3, <1>4 DEF Daemon

LEMMA WorldLeased ==
  ASSUME TypeOK, Leased, OriginMoves \/ \E p \in Pid : OtherProcess(p)
  PROVE  Leased'
  BY DEF Leased, ChildrenApart, LeaseOfServing, AdmittedHoldsLease, In, Child, TypeOK, WithChild,
         OriginMoves, OtherProcess, procs, files, refs

LEMMA HealLeased ==
  ASSUME TypeOK, Leased, HealStep \/ HealSalvageFails \/ SupervisorRestarts \/ GenerationEnded
  PROVE  Leased'
  <1> USE DEF Leased, ChildrenApart, LeaseOfServing, AdmittedHoldsLease, In, Child, At, Goes, Leaves
  <1>1. CASE HealFetch \/ HealSalvage \/ HealUpdateRef \/ HealReset \/ HealFastForward
             \/ HealSalvageFails \/ SupervisorRestarts
    <2>1. UNCHANGED <<procs, files, wrap>>
      BY <1>1 DEF HealFetch, HealSalvage, HealUpdateRef, HealReset, HealFastForward,
                  HealSalvageFails, SupervisorRestarts
    <2>2. heal'.pc # "unlink"
      <3>1. CASE HealUpdateRef
        BY <3>1, CasGoes
      <3>2. CASE ~HealUpdateRef
        BY <1>1, <3>2 DEF HealFetch, HealSalvage, HealReset, HealFastForward,
                          HealSalvageFails, SupervisorRestarts, TypeOK, HealSteps
      <3> QED
        BY <3>1, <3>2
    <2> QED
      BY <2>1, <2>2 DEF procs, files
  <1>2. CASE HealLease
    BY <1>2 DEF HealLease, ProcessAlive, TypeOK, procs, files
  <1>3. CASE HealUnlink
    BY <1>3 DEF HealUnlink, TypeOK, procs
  <1>4. CASE HealGhost \/ GenerationEnded
    <2>1. \A w \in Starter : wrap'[w].pc \in WithChild => wrap'[w] = wrap[w]
      BY <1>4 DEF HealGhost, GenerationEnded, TypeOK, WithChild
    <2>2. heal'.pc # "unlink"
      BY <1>4 DEF HealGhost, GenerationEnded, TypeOK, HealSteps
    <2>3. UNCHANGED <<procs, lease>>
      BY <1>4 DEF HealGhost, GenerationEnded, files
    <2>4. ChildrenApart'
      BY <2>1, <2>3, HealType, <1>4 DEF TypeOK, procs, HealStep
    <2>5. LeaseOfServing' /\ AdmittedHoldsLease'
      BY <2>1, <2>2, <2>3 DEF procs, WithChild
    <2> QED
      BY <2>4, <2>5
  <1> QED
    BY <1>1, <1>2, <1>3, <1>4 DEF HealStep

\* A wrapper's step that starts nobody: some wrappers let go of their child, some
\* zombies are reaped with them, and who becomes admitted holds the lease.
LEMMA LetGoLeased ==
  ASSUME TypeOK, TypeOK', Leased, UNCHANGED <<lease, port, locking, heal>>,
         NEW w \in Starter,
         \A v \in Starter \ {w} : wrap'[v] = wrap[v],
         wrap'[w].child \in {wrap[w].child, None},
         \A p \in Pid : \/ role'[p] = role[p]
                        \/ p = wrap[w].child /\ role[p] = "zombie" /\ role'[p] = "free"
                           /\ wrap'[w].child = None,
         wrap'[w].pc = "admitted" => wrap[w].pc = "admitted" \/ lease = wrap[w].child
  PROVE  Leased'
  <1> USE DEF Leased, AdmittedHoldsLease, In, Child
  <1>1. ChildrenApart'
    BY DEF ChildrenApart, TypeOK
  <1>2. LeaseOfServing'
    BY DEF LeaseOfServing, TypeOK
  <1>3. AdmittedHoldsLease'
    BY DEF TypeOK, WithChild
  <1> QED
    BY <1>1, <1>2, <1>3

LEMMA WrapLeased ==
  ASSUME TypeOK, Leased, NEW w \in Starter,
         OperatorStarts(w) \/ StartStep(w) \/ AdmissionTimeout(w) \/ WrapperStopped(w)
         \/ WrapperKilled(w)
  PROVE  Leased'
  <1> USE DEF In, Child, Step
  <1>0. TypeOK'
    BY WrapType
  <1>1. CASE OperatorStarts(w) \/ StartGate(w) \/ RejectExistingLease(w) \/ AdmissionProbe(w)
             \/ AdmissionTimeout(w)
    <2>1. \E step \in WrapSteps :
             /\ wrap' = [wrap EXCEPT ![w].pc = step]
             /\ step = "admitted" => lease = wrap[w].child
      BY <1>1 DEF OperatorStarts, StartGate, RejectExistingLease, AdmissionProbe, AdmissionTimeout,
                  ServiceDefect, Leased, LeaseOfServing, TypeOK, WrapSteps, WithChild
    <2>2. UNCHANGED <<lease, port, locking, heal, role>>
      BY <1>1 DEF OperatorStarts, StartGate, RejectExistingLease, AdmissionProbe, AdmissionTimeout,
                  procs, files
    <2>3. /\ \A v \in Starter \ {w} : wrap'[v] = wrap[v]
          /\ wrap'[w].child = wrap[w].child
          /\ wrap'[w].pc = "admitted" => lease = wrap[w].child
      BY <2>1 DEF TypeOK
    <2> QED
      BY <1>0, <2>2, <2>3, LetGoLeased
  <1>2. CASE Spawn(w)
    <2> USE DEF Leased, ChildrenApart, LeaseOfServing, AdmittedHoldsLease
    <2>1. CASE Step(w, "ended") /\ UNCHANGED role
      <3>1. \A v \in Starter \ {w} : wrap'[v] = wrap[v]
        BY <2>1 DEF TypeOK
      <3>2. wrap'[w].child = wrap[w].child /\ wrap'[w].pc = "ended"
        BY <2>1 DEF TypeOK
      <3>3. UNCHANGED <<lease, port, locking, heal, role>>
        BY <1>2, <2>1 DEF Spawn, files
      <3> QED
        BY <1>0, <3>1, <3>2, <3>3, LetGoLeased
    <2>2. ASSUME NEW p \in Pid \ {lease}, role[p] = "free", role' = [role EXCEPT ![p] = "noodle"],
                 wrap' = [wrap EXCEPT ![w] = [pc |-> "poll", child |-> p]]
          PROVE  Leased'
      <3>1. UNCHANGED <<lease, port, locking, heal>>
        BY <1>2 DEF Spawn, files
      <3>2. \A v \in Starter : Child(v) # p
        BY <2>2 DEF TypeOK
      <3>3. /\ wrap'[w] = [pc |-> "poll", child |-> p]
            /\ \A v \in Starter \ {w} : wrap'[v] = wrap[v]
            /\ role'[p] = "noodle" /\ \A q \in Pid \ {p} : role'[q] = role[q]
        BY <2>2 DEF TypeOK
      <3>4. ChildrenApart'
        BY <3>2, <3>3 DEF TypeOK
      <3>5. LeaseOfServing' /\ AdmittedHoldsLease'
        BY <2>2, <3>1, <3>2, <3>3 DEF TypeOK, WithChild
      <3> QED
        BY <3>4, <3>5
    <2> QED
      BY <1>2, <2>1, <2>2 DEF Spawn
  <1>3. CASE AdmissionPoll(w) \/ TerminateOwnChild(w) \/ ChildEnded(w)
             \/ WrapperStopped(w) \/ WrapperKilled(w)
    <2>1. UNCHANGED <<lease, port, locking, heal>>
      BY <1>3 DEF AdmissionPoll, TerminateOwnChild, ChildEnded, WrapperStopped,
                  WrapperKilled, WrapperEnds, files
    <2>2. \/ wrap' = wrap /\ UNCHANGED role
          \/ /\ \E step \in {"poll", "probe"} : wrap' = [wrap EXCEPT ![w].pc = step]
             /\ UNCHANGED role
          \/ /\ wrap' = [wrap EXCEPT ![w] = [pc |-> "ended", child |-> None]]
             /\ \A p \in Pid : \/ role'[p] = role[p]
                               \/ p = wrap[w].child /\ role[p] = "zombie" /\ role'[p] = "free"
      BY <1>3 DEF AdmissionPoll, TerminateOwnChild, ChildEnded, WrapperStopped,
                  WrapperKilled, WrapperEnds, TypeOK
    <2>3. CASE wrap' = wrap /\ UNCHANGED role
      BY <1>0, <2>1, <2>3, LetGoLeased
    <2>4. ASSUME NEW step \in {"poll", "probe"}, wrap' = [wrap EXCEPT ![w].pc = step],
                 UNCHANGED role
          PROVE  Leased'
      <3>1. /\ \A v \in Starter \ {w} : wrap'[v] = wrap[v]
            /\ wrap'[w].child = wrap[w].child /\ wrap'[w].pc # "admitted"
        BY <2>4 DEF TypeOK
      <3> QED
        BY <1>0, <2>1, <2>4, <3>1, LetGoLeased
    <2>5. ASSUME wrap' = [wrap EXCEPT ![w] = [pc |-> "ended", child |-> None]],
                 \A p \in Pid : \/ role'[p] = role[p]
                                \/ p = wrap[w].child /\ role[p] = "zombie" /\ role'[p] = "free"
          PROVE  Leased'
      <3>1. /\ \A v \in Starter \ {w} : wrap'[v] = wrap[v]
            /\ wrap'[w].child = None /\ wrap'[w].pc # "admitted"
        BY <2>5 DEF TypeOK
      <3> QED
        BY <1>0, <2>1, <2>5, <3>1, LetGoLeased
    <2> QED
      BY <2>2, <2>3, <2>4, <2>5
  <1> QED
    BY <1>1, <1>2, <1>3 DEF StartStep

LEMMA NextLeased == TypeOK /\ Leased /\ [Next]_vars => Leased'
  <1> SUFFICES ASSUME TypeOK, Leased, [Next]_vars PROVE Leased'
    OBVIOUS
  <1>1. CASE UNCHANGED vars
    BY <1>1 DEF vars, procs, files, Leased, ChildrenApart, LeaseOfServing, AdmittedHoldsLease,
                In, Child
  <1>2. CASE Next
    BY <1>2, DaemonLeased, WorldLeased, HealLeased, WrapLeased DEF Next
  <1> QED
    BY <1>1, <1>2

\* With any number of starts and daemons under way: whoever was admitted and still
\* runs is the daemon the lease names, so no two are.
THEOREM AdmittedAlone == Spec => []AdmittedHoldsLease
  <1>1. Leased => AdmittedHoldsLease
    BY DEF Leased
  <1> QED
    BY <1>1, InitTypeOK, NextType, InitLeased, NextLeased, PTL DEF Spec

\* And nothing but its own end takes the lease from a running daemon.
THEOREM LeaseIsSafe == Spec => LiveLeaseStays
  <1>1. TypeOK /\ Leased /\ [Next]_vars =>
            [\A p \in Pid : lease = p /\ role[p] = "noodle" /\ lease' # p
                                => role'[p] # "noodle"]_vars
    BY LeaseKept DEF Leased
  <1> QED
    BY <1>1, InitTypeOK, NextType, InitLeased, NextLeased, PTL DEF Spec, LiveLeaseStays
-----------------------------------------------------------------------------
(***************************************************************************)
(* The heal is lossless.                                                   *)
(***************************************************************************)

\* What the heal has read is still true of what it is about to do: the provider
\* has all the goal has, the remote-tracking refs have what the reset takes off
\* main, and what is on main beside the goal came after the compare-and-swap.
ReadingsHold ==
    /\ heal.goal \subseteq track /\ track \subseteq origin
    /\ heal.pc = "cas" => (heal.seen \ heal.goal) \cap Content \subseteq kept \cup track
    /\ heal.pc = "reset" => main \ heal.goal \subseteq late

Lossless == ReadingsHold /\ HealLossless

LEMMA InitLossless == Init => Lossless
  BY DEF Init, Lossless, ReadingsHold, HealLossless

LEMMA HealStepLossless ==
  ASSUME TypeOK, Lossless, HealStep \/ HealSalvageFails \/ SupervisorRestarts \/ GenerationEnded
  PROVE  Lossless'
  <1> USE DEF Lossless, ReadingsHold, HealLossless, At, Goes, Leaves
  <1>1. CASE HealFetch
    BY <1>1 DEF HealFetch
  <1>2. CASE HealSalvage
    BY <1>2 DEF HealSalvage, UnsavedContentCommits, TypeOK
  <1>3. CASE HealUpdateRef
    BY <1>3, CasGoes DEF HealUpdateRef
  <1>4. CASE HealReset
    BY <1>4 DEF HealReset, TypeOK
  <1>5. CASE HealFastForward
    BY <1>5 DEF HealFastForward, TypeOK
  <1>6. CASE HealLease \/ HealUnlink \/ HealGhost \/ HealSalvageFails \/ SupervisorRestarts
             \/ GenerationEnded
    <2>1. UNCHANGED refs
      BY <1>6 DEF HealLease, HealUnlink, HealGhost, HealSalvageFails, SupervisorRestarts,
                  GenerationEnded
    <2>2. heal'.goal \in {heal.goal, {}} /\ heal'.pc \notin {"cas", "reset"}
      BY <1>6 DEF HealLease, HealUnlink, HealGhost, HealSalvageFails, SupervisorRestarts,
                  GenerationEnded, TypeOK, HealSteps
    <2> QED
      BY <2>1, <2>2 DEF refs
  <1> QED
    BY <1>1, <1>2, <1>3, <1>4, <1>5, <1>6 DEF HealStep

\* Steps of everybody else add commits, and never take any away.
LEMMA OthersLossless ==
  ASSUME TypeOK, Lossless,
         \/ OriginMoves \/ \E p \in Pid : Daemon(p) \/ OtherProcess(p)
         \/ \E w \in Starter : OperatorStarts(w) \/ StartStep(w) \/ AdmissionTimeout(w)
                                  \/ WrapperStopped(w) \/ WrapperKilled(w)
  PROVE  Lossless'
  <1> USE DEF Lossless, ReadingsHold, HealLossless
  <1>1. CASE OriginMoves
    BY <1>1 DEF OriginMoves, TypeOK
  <1>2. ASSUME NEW p \in Pid, DaemonCommits(p) PROVE Lossless'
    BY <1>2 DEF DaemonCommits, TypeOK
  <1>3. ASSUME NEW w \in Starter, StartGate(w) PROVE Lossless'
    BY <1>3 DEF StartGate, TypeOK
  <1>4. ASSUME NEW p \in Pid, (Daemon(p) /\ ~DaemonCommits(p)) \/ OtherProcess(p)
        PROVE  UNCHANGED <<refs, heal>>
    BY <1>4 DEF Daemon, DaemonLocks, DaemonServes, DaemonRefused, DaemonExits, DaemonDies,
                OtherProcess
  <1>5. ASSUME NEW w \in Starter,
               \/ OperatorStarts(w) \/ (StartStep(w) /\ ~StartGate(w))
               \/ AdmissionTimeout(w) \/ WrapperStopped(w) \/ WrapperKilled(w)
        PROVE  UNCHANGED <<refs, heal>>
    BY <1>5 DEF OperatorStarts, StartStep, AdmissionTimeout, WrapperStopped,
                WrapperKilled, WrapperEnds, RejectExistingLease,
                Spawn, AdmissionPoll, AdmissionProbe, TerminateOwnChild, ChildEnded
  <1>6. CASE UNCHANGED <<refs, heal>>
    BY <1>6 DEF refs
  <1> QED
    BY <1>1, <1>2, <1>3, <1>4, <1>5, <1>6

\* For any history, any number of daemons and starts, and wherever the runner dies:
\* no content commit main ever had is lost by a heal, one put on main between the
\* compare-and-swap and the reset of the files aside.
THEOREM HealLosesNothing == Spec => []HealLossless
  <1>1. TypeOK /\ Lossless /\ [Next]_vars => Lossless'
    <2> SUFFICES ASSUME TypeOK, Lossless, [Next]_vars PROVE Lossless'
      OBVIOUS
    <2>1. CASE UNCHANGED vars
      BY <2>1 DEF vars, refs, Lossless, ReadingsHold, HealLossless
    <2>2. CASE Next
      BY <2>2, HealStepLossless, OthersLossless DEF Next
    <2> QED
      BY <2>1, <2>2
  <1>2. Lossless => HealLossless
    BY DEF Lossless
  <1> QED
    BY <1>1, <1>2, InitTypeOK, NextType, InitLossless, PTL DEF Spec
=============================================================================
