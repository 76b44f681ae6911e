---------------------------- MODULE Supervision ----------------------------
(* One control checkout and the processes that share it: the supervised     *)
(* runner, which heals the checkout and starts one wrapper per generation,  *)
(* an operator's own start, the Noodle daemons those wrappers spawn, and    *)
(* the lease, status and port by which each is recognised.  Git history is  *)
(* abstracted to the set of commits a head contains.                        *)
EXTENDS Integers, FiniteSets

CONSTANTS Pid, Commit, Content, Starter, Supervisor, None, Empty

ASSUME SupervisionAssumption ==
    /\ Content \subseteq Commit
    /\ Supervisor \in Starter
    /\ None \notin Pid /\ Empty \notin Pid /\ None # Empty

VARIABLES
    role,       \* process table: free, noodle, zombie (dead, not reaped) or other
    asked,      \* daemons that were sent a termination signal
    lease,      \* .noodle/noodle.lock: None, Empty (created, not written)
                \* or a process id
    loop,       \* loop_state of .noodle/status.json: live or idle
    locking,    \* the daemon between the two halves of its lock
    port,       \* owner of the control listener
    main, tree, \* commits of local main, and of the head the files match
    origin,     \* commits of the provider's main
    track,      \* refs/remotes/origin/<main>
    kept,       \* commits under the other remote-tracking refs
    made,       \* every commit made on any line so far
    late,       \* those put on main after a heal moved it, before its reset
    heal,       \* the runner: its step and what its heal has read
    wrap        \* each starter: its step and the child it spawned

procs == <<role, asked, locking, port>>
files == <<lease, loop>>
refs == <<main, tree, origin, track, kept, made, late>>
vars == <<procs, files, refs, heal, wrap>>

HealSteps == {"check", "salvage", "cas", "reset", "ff", "lease", "unlink", "ghost", "run"}
WrapSteps == {"off", "gate", "lease", "spawn", "poll", "probe", "admitted", "kill", "ended"}

WithChild == {"poll", "probe", "admitted", "kill"}

TypeOK ==
    /\ role \in [Pid -> {"free", "noodle", "zombie", "other"}]
    /\ asked \subseteq Pid
    /\ {port, locking} \subseteq Pid \cup {None}
    /\ lease \in Pid \cup {None, Empty}
    /\ loop \in {"live", "idle"}
    /\ {main, tree, origin, track, kept, made, late} \subseteq SUBSET Commit
    /\ heal \in [pc: HealSteps, seen: SUBSET Commit, goal: SUBSET Commit]
    /\ wrap \in [Starter -> [pc: WrapSteps, child: Pid \cup {None}]]
    /\ \A w \in Starter : wrap[w].pc \in WithChild <=> wrap[w].child # None

Init ==
    /\ role = [p \in Pid |-> "free"] /\ asked = {} /\ port = None /\ locking = None
    /\ lease = None /\ loop = "idle"
    /\ main = {} /\ tree = {} /\ origin = {} /\ track = {} /\ kept = {} /\ made = {} /\ late = {}
    /\ heal = [pc |-> "check", seen |-> {}, goal |-> {}]
    /\ wrap = [w \in Starter |-> [pc |-> "off", child |-> None]]

-----------------------------------------------------------------------------
(* The process table and the daemon.                                        *)

(* kill(pid, 0) also succeeds on a zombie and on a process that took over   *)
(* the number.                                                              *)
ProcessAlive(p) == role[p] # "free"

Parent(p) == {w \in Starter : wrap[w].child = p /\ wrap[w].pc \notin {"off", "ended"}}

(* A process ends: it stays a zombie until its wrapper polls it.            *)
Ends(p) ==
    /\ role' = [role EXCEPT ![p] = IF Parent(p) = {} THEN "free" ELSE "zombie"]
    /\ asked' = asked \ {p}
    /\ port' = IF port = p THEN None ELSE port
    /\ locking' = IF locking = p THEN None ELSE locking

(* The daemon creates the lock file only when there is none, writes its     *)
(* number into it, then serves; it dies in between in DaemonDies.           *)
DaemonLocks(p) ==
    /\ role[p] = "noodle"
    /\ \/ lease = None /\ lease' = Empty /\ locking' = p
       \/ lease = Empty /\ locking = p /\ lease' = p /\ locking' = None
    /\ UNCHANGED <<role, asked, port, loop, refs, heal, wrap>>

DaemonServes(p) ==
    /\ role[p] = "noodle" /\ lease = p /\ port = None
    /\ port' = p /\ loop' = "live"
    /\ UNCHANGED <<role, asked, locking, lease, refs, heal, wrap>>

DaemonRefused(p) ==
    /\ role[p] = "noodle" /\ lease \notin {None, p} /\ locking # p
    /\ Ends(p)
    /\ UNCHANGED <<files, refs, heal, wrap>>

DaemonExits(p) ==
    /\ role[p] = "noodle"
    /\ Ends(p)
    /\ lease' = IF p \in {lease, locking} THEN None ELSE lease
    /\ loop' \in IF lease = p THEN {loop, "idle"} ELSE {loop}
    /\ UNCHANGED <<refs, heal, wrap>>

(* Killed, or the machine took it down: the lease and the status stay.      *)
DaemonDies(p) ==
    /\ role[p] = "noodle"
    /\ Ends(p)
    /\ UNCHANGED <<files, refs, heal, wrap>>

(* A serving daemon merges a session's work into local main: the commit may *)
(* be on a pushed branch already, or nowhere else.                          *)
DaemonCommits(p) ==
    /\ role[p] = "noodle" /\ lease = p /\ port = p
    /\ \E c \in Commit \ made :
          /\ made' = made \cup {c}
          /\ main' = main \cup {c} /\ tree' = tree \cup {c}
          /\ kept' \in {kept, kept \cup {c}}
          /\ late' = IF heal.pc = "reset" THEN late \cup {c} ELSE late
    /\ UNCHANGED <<procs, files, origin, track, heal, wrap>>

(* The rest of the machine: a number that a lease still names is taken by   *)
(* another process (bound: one at a time), main moves on the provider.      *)
OtherProcess(p) ==
    /\ \/ /\ role[p] = "free" /\ lease = p /\ \A q \in Pid : role[q] # "other"
          /\ role' = [role EXCEPT ![p] = "other"]
       \/ role[p] = "other" /\ role' = [role EXCEPT ![p] = "free"]
    /\ UNCHANGED <<asked, locking, port, files, refs, heal, wrap>>

OriginMoves ==
    /\ \E c \in Commit \ made : origin' = origin \cup {c} /\ made' = made \cup {c}
    /\ UNCHANGED <<procs, files, main, tree, track, kept, late, heal, wrap>>

-----------------------------------------------------------------------------
(* heal_control_checkout                                                    *)

At(step) == heal.pc = step
Goes(step) == heal' = [heal EXCEPT !.pc = step]
Leaves(step) == heal' = [pc |-> step, seen |-> {}, goal |-> {}]

Clean == tree = main

(* Content commits of local main that no remote-tracking ref contains.      *)
UnsavedContentCommits ==
    ((heal.seen \ heal.goal) \cap Content) \ (kept \cup track)

(* A heal that raises is recorded, backed off from, and begins again.  It   *)
(* refuses files that do not match the head, then fetches and compares.     *)
HealFetch ==
    /\ At("check") /\ Clean
    /\ track' = origin
    /\ heal' = IF main \subseteq origin
               THEN [pc |-> "ff", seen |-> {}, goal |-> origin]
               ELSE [pc |-> "salvage", seen |-> main, goal |-> origin]
    /\ UNCHANGED <<procs, files, main, tree, origin, kept, made, late, wrap>>

(* The push, the fetch of what was pushed and the comparison of its tip.    *)
HealSalvage ==
    /\ At("salvage")
    /\ kept' = IF UnsavedContentCommits = {} THEN kept ELSE kept \cup heal.seen
    /\ Goes("cas")
    /\ UNCHANGED <<procs, files, main, tree, origin, track, made, late, wrap>>

(* The push of the heal fails, or its readback: nothing was moved.          *)
HealSalvageFails ==
    /\ At("salvage") /\ UnsavedContentCommits # {}
    /\ Leaves("check")
    /\ UNCHANGED <<procs, files, refs, wrap>>

\* Mutant of HealUpdateRef: the reference is moved without its old value.
UpdateRefBlindly ==
    /\ At("cas")
    /\ main' = heal.goal
    /\ heal' = [heal EXCEPT !.pc = "reset", !.seen = {}]
    /\ UNCHANGED <<procs, files, tree, origin, track, kept, made, late, wrap>>

(* update-ref with the old value the heal has read: it fails when main has  *)
(* moved since.                                                             *)
HealUpdateRef ==
    /\ At("cas")
    /\ IF main = heal.seen
       THEN /\ main' = heal.goal
            /\ heal' = [heal EXCEPT !.pc = "reset", !.seen = {}]
       ELSE main' = main /\ Leaves("check")
    /\ UNCHANGED <<procs, files, tree, origin, track, kept, made, late, wrap>>

HealReset ==
    /\ At("reset")
    /\ main' = heal.goal /\ tree' = heal.goal
    /\ Goes("ff")
    /\ UNCHANGED <<procs, files, origin, track, kept, made, late, wrap>>

(* merge --ff-only of the tracking ref, then the readback of the head.      *)
HealFastForward ==
    /\ At("ff")
    /\ \/ /\ main = heal.goal
          /\ Leaves("lease") /\ UNCHANGED <<main, tree>>
       \/ /\ main # heal.goal /\ main \subseteq track
          /\ main' = track /\ tree' = track
          /\ Leaves(IF track = heal.goal THEN "lease" ELSE "check")
       \/ /\ main # heal.goal /\ ~(main \subseteq track)
          /\ Leaves("check") /\ UNCHANGED <<main, tree>>
    /\ UNCHANGED <<procs, files, origin, track, kept, made, late, wrap>>

\* Mutant of HealLease: whatever number the lease holds is cleared.
ClearLease ==
    /\ At("lease")
    /\ Goes(IF lease \notin Pid THEN "ghost" ELSE "unlink")
    /\ UNCHANGED <<procs, files, refs, wrap>>

(* An empty lease file names no process: it is passed over, and left.       *)
HealLease ==
    /\ At("lease")
    /\ Goes(IF lease \notin Pid THEN "ghost"
            ELSE IF ProcessAlive(lease) THEN "check" ELSE "unlink")
    /\ UNCHANGED <<procs, files, refs, wrap>>

HealUnlink ==
    /\ At("unlink")
    /\ lease' = None
    /\ Goes("ghost")
    /\ UNCHANGED <<procs, loop, refs, wrap>>

\* Mutant of HealGhost: the status is left as the dead daemon wrote it.
LeaveStatus ==
    /\ At("ghost")
    /\ Goes("run")
    /\ wrap' = [wrap EXCEPT ![Supervisor] = [pc |-> "gate", child |-> None]]
    /\ UNCHANGED <<procs, lease, loop, refs>>

(* With no lease file a live status is a ghost; the heal is then complete.  *)
HealGhost ==
    /\ At("ghost")
    /\ loop' = IF lease = None THEN "idle" ELSE loop
    /\ Goes("run")
    /\ wrap' = [wrap EXCEPT ![Supervisor] = [pc |-> "gate", child |-> None]]
    /\ UNCHANGED <<procs, lease, refs>>

-----------------------------------------------------------------------------
(* supervise: the loop around the heal and one wrapper per generation.      *)

(* The runner dies between the moved ref and the reset, and is started      *)
(* again; anywhere else its death leaves what a raise would have left.      *)
SupervisorRestarts ==
    /\ At("reset")
    /\ Leaves("check")
    /\ UNCHANGED <<procs, files, refs, wrap>>

GenerationEnded ==
    /\ At("run") /\ wrap[Supervisor].pc = "ended"
    /\ Goes("check")
    /\ wrap' = [wrap EXCEPT ![Supervisor] = [pc |-> "off", child |-> None]]
    /\ UNCHANGED <<procs, files, refs>>

-----------------------------------------------------------------------------
(* start_unattended                                                         *)

In(w, step) == wrap[w].pc = step
Step(w, step) == wrap' = [wrap EXCEPT ![w].pc = step]

(* An operator's own start.                                                 *)
OperatorStarts(w) ==
    /\ w # Supervisor /\ wrap[w].pc \in {"off", "ended"}
    /\ Step(w, "gate")
    /\ UNCHANGED <<procs, files, refs, heal>>

(* control_checkout_admission: clean, and equal to what was just fetched.   *)
CheckoutAdmitted == Clean /\ main = origin

StartGate(w) ==
    /\ In(w, "gate")
    /\ track' = IF Clean THEN origin ELSE track
    /\ Step(w, IF CheckoutAdmitted THEN "lease" ELSE "ended")
    /\ UNCHANGED <<procs, files, main, tree, origin, kept, made, late, heal>>

(* reject_existing_lease: a lease that names a process refuses, dead or     *)
(* alive, and so does a live status without one.                            *)
RejectExistingLease(w) ==
    /\ In(w, "lease")
    /\ Step(w, IF lease \notin Pid /\ loop = "idle" THEN "spawn" ELSE "ended")
    /\ UNCHANGED <<procs, files, refs, heal>>

(* The system does not hand out the number a lease on disk still names      *)
(* between the check above and the spawn; with none left the spawn fails.   *)
Spawn(w) ==
    /\ In(w, "spawn")
    /\ LET free == {p \in Pid \ {lease} : role[p] = "free"} IN
       \/ \E p \in free :
             /\ role' = [role EXCEPT ![p] = "noodle"]
             /\ wrap' = [wrap EXCEPT ![w] = [pc |-> "poll", child |-> p]]
       \/ free = {} /\ Step(w, "ended") /\ UNCHANGED role
    /\ UNCHANGED <<asked, locking, port, files, refs, heal>>

Child(w) == wrap[w].child

(* The first half of admission_defect: whose lease it is, and is it alive.  *)
LeaseDefect(w) == lease # Child(w) \/ ~ProcessAlive(lease)
(* The second half, read after it: the listener, the snapshot, the status.  *)
ServiceDefect(w) == port # Child(w) \/ loop # "live"

(* One poll of admit_started_daemon: poll() reaps a child that has ended.   *)
AdmissionPoll(w) ==
    /\ In(w, "poll")
    /\ IF role[Child(w)] = "zombie"
       THEN /\ role' = [role EXCEPT ![Child(w)] = "free"]
            /\ wrap' = [wrap EXCEPT ![w] = [pc |-> "ended", child |-> None]]
       ELSE /\ role' = role
            /\ Step(w, IF LeaseDefect(w) THEN "poll" ELSE "probe")
    /\ UNCHANGED <<asked, locking, port, files, refs, heal>>

AdmissionProbe(w) ==
    /\ In(w, "probe")
    /\ Step(w, IF ServiceDefect(w) THEN "poll" ELSE "admitted")
    /\ UNCHANGED <<procs, files, refs, heal>>

AdmissionTimeout(w) ==
    /\ wrap[w].pc \in {"poll", "probe"}
    /\ Step(w, "kill")
    /\ UNCHANGED <<procs, files, refs, heal>>

(* terminate_own_child: the child this wrapper created, and no other.       *)
TerminateOwnChild(w) ==
    /\ In(w, "kill")
    /\ IF role[Child(w)] = "zombie"
       THEN /\ role' = [role EXCEPT ![Child(w)] = "free"]
            /\ asked' = asked
            /\ wrap' = [wrap EXCEPT ![w] = [pc |-> "ended", child |-> None]]
       ELSE role' = role /\ asked' = asked \cup {Child(w)} /\ wrap' = wrap
    /\ UNCHANGED <<locking, port, files, refs, heal>>

(* The loop of start_unattended runs until its child has ended.             *)
ChildEnded(w) ==
    /\ In(w, "admitted") /\ role[Child(w)] = "zombie"
    /\ role' = [role EXCEPT ![Child(w)] = "free"]
    /\ wrap' = [wrap EXCEPT ![w] = [pc |-> "ended", child |-> None]]
    /\ UNCHANGED <<asked, locking, port, files, refs, heal>>

(* The wrapper ends and leaves its child, if it has one, to itself.         *)
WrapperEnds(w) ==
    /\ role' = [p \in Pid |-> IF p = Child(w) /\ role[p] = "zombie"
                              THEN "free" ELSE role[p]]
    /\ wrap' = [wrap EXCEPT ![w] = [pc |-> "ended", child |-> None]]
    /\ asked' = asked

(* The wrapper is told to stop: once admitted its handler passes the signal *)
(* to the child; before that the wrapper just ends.                         *)
WrapperStopped(w) ==
    /\ \/ /\ In(w, "admitted")
          /\ asked' = asked \cup {Child(w)}
          /\ UNCHANGED <<role, wrap>>
       \/ wrap[w].pc \notin {"off", "ended", "admitted"} /\ WrapperEnds(w)
    /\ UNCHANGED <<locking, port, files, refs, heal>>

(* The runner kills a wrapper that outlives the grace after its signal.     *)
WrapperKilled(w) ==
    /\ w = Supervisor /\ In(w, "admitted") /\ Child(w) \in asked
    /\ WrapperEnds(w)
    /\ UNCHANGED <<locking, port, files, refs, heal>>

-----------------------------------------------------------------------------
Daemon(p) ==
    DaemonLocks(p) \/ DaemonServes(p) \/ DaemonRefused(p) \/ DaemonExits(p)
       \/ DaemonDies(p) \/ DaemonCommits(p)

HealStep ==
    HealFetch \/ HealSalvage \/ HealUpdateRef \/ HealReset
       \/ HealFastForward \/ HealLease \/ HealUnlink \/ HealGhost

StartStep(w) ==
    StartGate(w) \/ RejectExistingLease(w) \/ Spawn(w) \/ AdmissionPoll(w)
       \/ AdmissionProbe(w) \/ TerminateOwnChild(w) \/ ChildEnded(w)

Next ==
    \/ \E p \in Pid : Daemon(p) \/ OtherProcess(p)
    \/ OriginMoves
    \/ HealStep \/ HealSalvageFails
    \/ SupervisorRestarts \/ GenerationEnded
    \/ \E w \in Starter : OperatorStarts(w) \/ StartStep(w)
          \/ AdmissionTimeout(w) \/ WrapperStopped(w) \/ WrapperKilled(w)

Spec == Init /\ [][Next]_vars

(* The runner and every wrapper take their next step; a provider that is    *)
(* asked again and again answers; a daemon locks, serves or refuses, and    *)
(* ends when it was told to; rotation and the wedge deadline end every      *)
(* generation, which prints whole lines.  Nothing else is owed a step.      *)
Fairness ==
    /\ WF_vars(HealStep \/ GenerationEnded)
    /\ SF_vars(HealFetch) /\ SF_vars(HealSalvage)
    /\ \A w \in Starter : WF_vars(StartStep(w))
    /\ SF_vars(StartGate(Supervisor)) /\ SF_vars(RejectExistingLease(Supervisor))
    /\ WF_vars(In(Supervisor, "admitted") /\ WrapperStopped(Supervisor))
    /\ WF_vars(In(Supervisor, "poll") /\ AdmissionTimeout(Supervisor))
    /\ \A p \in Pid :
          /\ WF_vars(DaemonLocks(p) \/ DaemonServes(p) \/ DaemonRefused(p))
          /\ WF_vars(p \in asked /\ DaemonExits(p))

-----------------------------------------------------------------------------
(* A heal is lossless: every content commit that was ever on local main is  *)
(* on local main still, or under a remote-tracking ref, or on the provider  *)
(* (noodles.py:4019-4041, update-ref with the old value it read) - except   *)
(* one a daemon adds between the moved ref and the reset of the files.      *)
HealLossless ==
    (made \ late) \cap Content \subseteq main \cup kept \cup track \cup origin

(* Whoever was admitted and still runs is the daemon the lease names, so no *)
(* two starts are ever both admitted and alive (daemon_lease.py:110-160).   *)
AdmittedHoldsLease ==
    \A w \in Starter :
        In(w, "admitted") /\ role[Child(w)] = "noodle" => lease = Child(w)

(* The lease of a running daemon is given up by that daemon's own end and   *)
(* by nothing else: no heal clears it, no start takes it over.              *)
LiveLeaseStays ==
    [][\A p \in Pid : lease = p /\ role[p] = "noodle" /\ lease' # p
                          => role'[p] # "noodle"]_vars

(* The states that stop an unattended runner for good, by name: files that  *)
(* do not match the head, a number in the lease that something is running   *)
(* under, and an empty lease beside a live status.                          *)
Wedged ==
    \/ ~Clean
    \/ lease \in Pid /\ ProcessAlive(lease)
    \/ lease = Empty /\ loop = "live"

(* The runner gets to spawn again and again, whatever died before - a dead  *)
(* lease, a status ghost, a diverged main - unless it is wedged in one of   *)
(* those ways (noodles.py:4228-4275).                                       *)
KeepsSpawning ==
    []<>(Wedged \/ In(Supervisor, "spawn"))
=============================================================================
