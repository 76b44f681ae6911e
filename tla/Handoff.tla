------------------------------ MODULE Handoff ------------------------------
(* The handoff of one candidate: a cook's session proves where its head     *)
(* comes from, sets the issue to awaiting_land, records in its event log    *)
(* which failed verify run it will have rerun, has it rerun and parks with  *)
(* one blocking message (noodles.py: execute_handoff).  A handoff may end   *)
(* at any step and be run again; pushes, reruns, worktrees and sessions of  *)
(* others come in between.                                                  *)
EXTENDS Integers, Sequences, FiniteSets

CONSTANTS Session, Worktree, None,    \* sessions are numbered as they come
          MaxHeads, MaxReruns, MaxNotes, MaxDeaths
    \* bounds: pushes, reruns by others of a run, other messages of a
    \* session, handoffs that end half way

ASSUME HandoffAssumption ==
    /\ Session \subseteq Nat /\ None \notin Worktree
    /\ MaxHeads \in Nat \ {0} /\ MaxReruns \in Nat /\ MaxNotes \in Nat /\ MaxDeaths \in Nat

VARIABLES
    where,  \* spawn.json: the worktree of each session
    work,   \* Git's registry: head of the order's branch in the worktree
            \* that has it checked out, 0 in one that has not
    elsewhere,  \* somebody else has that branch checked out too
    pull,   \* head of the pull request; a push makes the next number
    open,   \* the pull request is open
    issue,  \* state of the issue
    runs,   \* verify runs, one per head: attempt, and its end
    log,    \* events.ndjson of each session
    proc,   \* the handoff each session runs: its step and what it read
    posts,  \* history: reruns requested by the handoffs of each session
    deaths  \* handoffs that ended half way so far

provider == <<pull, open, issue, runs>>
vars == <<where, work, elsewhere, provider, log, proc, posts, deaths>>

Heads == 1..MaxHeads
Run == [attempt : Nat \ {0}, done : BOOLEAN, ok : BOOLEAN]
Event == [kind : {"intent", "message", "note"}, run : 0..MaxHeads,
          base : Nat, head : 0..MaxHeads]
Steps == {"idle", "state", "message", "intent", "choose", "emit", "source", "post", "park"}
At(pc, head) == [pc |-> pc, head |-> head, run |-> 0, base |-> 0]
Idle == At("idle", 0)

TypeOK ==
    /\ where \in [Session -> Worktree \cup {None}]
    /\ work \in [Worktree -> 0..MaxHeads] /\ elsewhere \in BOOLEAN
    /\ pull \in Heads /\ open \in BOOLEAN /\ issue \in {"ready", "awaiting_land"}
    /\ runs \in Seq(Run) /\ Len(runs) = pull
    /\ log \in [Session -> Seq(Event)]
    /\ proc \in [Session -> [pc : Steps, head : 0..MaxHeads, run : 0..MaxHeads, base : Nat]]
    /\ \A s \in Session : proc[s].pc \in {"emit", "source", "post", "park"} <=> proc[s].run # 0
    /\ posts \in [Session -> Nat] /\ deaths \in 0..MaxDeaths

NewRun(n) == [attempt |-> n, done |-> FALSE, ok |-> FALSE]

Init ==
    /\ where = [s \in Session |-> None]
    /\ work = [w \in Worktree |-> 0] /\ elsewhere = FALSE
    /\ pull = 1 /\ open = TRUE /\ issue = "ready" /\ runs = <<NewRun(1)>>
    /\ log = [s \in Session |-> <<>>]
    /\ proc = [s \in Session |-> Idle]
    /\ posts = [s \in Session |-> 0] /\ deaths = 0

In(s, pc) == proc[s].pc = pc
Here(s) == work[where[s]]
Go(s, pc) == proc' = [proc EXCEPT ![s].pc = pc]

(* Where in the log of a session its events of one kind are.                *)
Events(s, kind) == {i \in 1..Len(log[s]) : log[s][i].kind = kind}

-----------------------------------------------------------------------------
(* Everybody else.                                                          *)

(* The concurrency group of the pull request: a run that starts cancels the *)
(* one that is going on, and cancelled counts as failed.                    *)
Cancelled(rs) == [i \in 1..Len(rs) |-> [rs[i] EXCEPT !.done = TRUE]]

Pushed == runs' = Append(Cancelled(runs), NewRun(1)) /\ pull' = pull + 1

(* Noodle spawns sessions one after the other, each in a worktree of its    *)
(* own or in one it reuses.                                                 *)
SpawnSession(s, w) ==
    /\ where[s] = None /\ \A r \in Session : r < s => where[r] # None
    /\ where' = [where EXCEPT ![s] = w]
    /\ IF work[w] = 0
       THEN /\ ~elsewhere /\ \A v \in Worktree : work[v] = 0
            /\ work' = [work EXCEPT ![w] = pull]
       ELSE UNCHANGED work
    /\ UNCHANGED <<elsewhere, provider, log, proc, posts, deaths>>

(* A worktree is gone: git lists it as prunable or not at all.              *)
RemoveWorktree(w) ==
    /\ work[w] # 0
    /\ work' = [work EXCEPT ![w] = 0]
    /\ UNCHANGED <<where, elsewhere, provider, log, proc, posts, deaths>>

(* Somebody forces a checkout of the order's branch, or removes it.         *)
OtherCheckout ==
    /\ elsewhere' = ~elsewhere
    /\ UNCHANGED <<where, work, provider, log, proc, posts, deaths>>

CookPushes(s) ==
    /\ In(s, "idle") /\ where[s] # None /\ Here(s) = pull
    /\ open /\ pull < MaxHeads
    /\ Pushed
    /\ work' = [work EXCEPT ![where[s]] = pull + 1]
    /\ UNCHANGED <<where, elsewhere, open, issue, log, proc, posts, deaths>>

OtherPushes ==
    /\ open /\ pull < MaxHeads /\ Pushed
    /\ UNCHANGED <<where, work, elsewhere, open, issue, log, proc, posts, deaths>>

(* The cook says something else on the stage.                               *)
CookNotes(s) ==
    /\ In(s, "idle") /\ where[s] # None
    /\ Cardinality(Events(s, "note")) < MaxNotes
    /\ log' = [log EXCEPT ![s] = Append(@, [kind |-> "note", run |-> 0, base |-> 0, head |-> 0])]
    /\ UNCHANGED <<where, work, elsewhere, provider, proc, posts, deaths>>

(* Verify passes only a candidate whose issue is awaiting_land.             *)
RunCompletes(i) ==
    /\ ~runs[i].done
    /\ \E ok \in BOOLEAN :
        /\ ok => issue = "awaiting_land"
        /\ runs' = [runs EXCEPT ![i].done = TRUE, ![i].ok = ok]
    /\ UNCHANGED <<where, work, elsewhere, pull, open, issue, log, proc, posts, deaths>>

Restarted(i) == [Cancelled(runs) EXCEPT ![i] = NewRun(runs[i].attempt + 1)]

(* A person or a ceremony has a run rerun.                                  *)
OtherReruns(i) ==
    /\ runs[i].done /\ runs[i].attempt <= MaxReruns
    /\ runs' = Restarted(i)
    /\ UNCHANGED <<where, work, elsewhere, pull, open, issue, log, proc, posts, deaths>>

Lands ==
    /\ open /\ issue = "awaiting_land" /\ runs[pull].done /\ runs[pull].ok
    /\ open' = FALSE
    /\ UNCHANGED <<where, work, elsewhere, pull, issue, runs, log, proc, posts, deaths>>

-----------------------------------------------------------------------------
(* The handoff of a session.                                                *)

(* One session, one worktree on the order's branch, and no other of either. *)
Provenance(s) ==
    /\ where[s] # None /\ Here(s) # 0
    /\ ~elsewhere /\ \A v \in Worktree \ {where[s]} : work[v] = 0
    /\ \A r \in Session \ {s} : where[r] # where[s]

Admitted(s) == open /\ Provenance(s) /\ Here(s) = pull

Begin(s) ==
    /\ In(s, "idle") /\ Admitted(s)
    /\ proc' = [proc EXCEPT ![s] = At("state", pull)]
    /\ UNCHANGED <<where, work, elsewhere, provider, log, posts, deaths>>

\* Mutant of SetState: the state is left to a later step.
SetNothing(s) ==
    /\ In(s, "state") /\ Go(s, "message")
    /\ UNCHANGED <<where, work, elsewhere, provider, log, posts, deaths>>

SetState(s) ==
    /\ In(s, "state")
    /\ issue' = "awaiting_land"
    /\ Go(s, "message")
    /\ UNCHANGED <<where, work, elsewhere, pull, open, runs, log, posts, deaths>>

(* The message counts when it is the only one, names this head and is the   *)
(* last thing said on the stage.                                            *)
Parked(s, head) ==
    \E i \in Events(s, "message") :
        /\ Events(s, "message") = {i} /\ log[s][i].head = head
        /\ \A j \in Events(s, "note") : j < i

Raise(s) == proc' = [proc EXCEPT ![s] = Idle]

Fails(s) == deaths < MaxDeaths /\ deaths' = deaths + 1 /\ Raise(s)

ReadMessage(s) ==
    /\ In(s, "message")
    /\ IF Events(s, "message") = {} THEN Go(s, "intent") ELSE Raise(s)
    /\ UNCHANGED <<where, work, elsewhere, provider, log, posts, deaths>>

Read(s, e, pc) == proc' = [proc EXCEPT ![s].pc = pc, ![s].run = e.run, ![s].base = e.base]

\* Mutant of ReadIntent: every handoff chooses its run anew.
ReadNoIntent(s) ==
    /\ In(s, "intent") /\ Go(s, "choose")
    /\ UNCHANGED <<where, work, elsewhere, provider, log, posts, deaths>>

(* An intent that names another head raises, now and ever after.            *)
ReadIntent(s) ==
    /\ In(s, "intent")
    /\ LET found == Events(s, "intent")
           Mine(i) == found = {i} /\ log[s][i].head = proc[s].head
       IN \/ found = {} /\ Go(s, "choose")
          \/ \E i \in found : Mine(i) /\ Read(s, log[s][i], "source")
          \/ found # {} /\ (\A i \in found : ~Mine(i)) /\ Raise(s)
    /\ UNCHANGED <<where, work, elsewhere, provider, log, posts, deaths>>

Failed(i) == runs[i].done /\ ~runs[i].ok

(* The failed run of this head; the baseline is the attempt it is at.       *)
ChooseRun(s) ==
    /\ In(s, "choose")
    /\ IF Failed(proc[s].head)
       THEN Read(s, [run |-> proc[s].head, base |-> runs[proc[s].head].attempt], "emit")
       ELSE Raise(s)
    /\ UNCHANGED <<where, work, elsewhere, provider, log, posts, deaths>>

(* An event of the session, appended by the runtime's own binary.           *)
Logged(s, kind) ==
    log' = [log EXCEPT ![s] = Append(@, [kind |-> kind, run |-> proc[s].run,
                                         base |-> proc[s].base, head |-> proc[s].head])]

(* The intent is on disk before the rerun is asked for.                     *)
EmitIntent(s) ==
    /\ In(s, "emit")
    /\ Logged(s, "intent")
    /\ Go(s, "source")
    /\ UNCHANGED <<where, work, elsewhere, provider, posts, deaths>>

\* Mutant of ReadSource: an attempt that was requested already has drifted.
AdoptNothing(s) ==
    /\ In(s, "source")
    /\ IF runs[proc[s].run].attempt = proc[s].base THEN Go(s, "post") ELSE Raise(s)
    /\ UNCHANGED <<where, work, elsewhere, provider, log, posts, deaths>>

(* A run at its baseline is rerun, one attempt later is adopted, anything   *)
(* else has drifted.                                                        *)
ReadSource(s) ==
    /\ In(s, "source")
    /\ LET i == proc[s].run
           due == runs[i].attempt - proc[s].base
       IN CASE due = 0 /\ Failed(i) -> Go(s, "post")
            [] due = 1 -> Go(s, "park")
            [] OTHER -> Raise(s)
    /\ UNCHANGED <<where, work, elsewhere, provider, log, posts, deaths>>

(* The provider refuses to rerun a run that is going on.  The answer may    *)
(* not arrive.                                                              *)
PostRerun(s) ==
    /\ In(s, "post")
    /\ LET i == proc[s].run IN
       IF runs[i].done
       THEN /\ runs' = Restarted(i)
            /\ posts' = [posts EXCEPT ![s] = @ + 1]
            /\ \/ Go(s, "park") /\ UNCHANGED deaths
               \/ Fails(s)
       ELSE Raise(s) /\ UNCHANGED <<runs, posts, deaths>>
    /\ UNCHANGED <<where, work, elsewhere, pull, open, issue, log>>

EmitMessage(s) ==
    /\ In(s, "park")
    /\ IF Events(s, "message") = {} THEN Logged(s, "message") ELSE UNCHANGED log
    /\ Raise(s)
    /\ UNCHANGED <<where, work, elsewhere, provider, posts, deaths>>

(* The handoff dies or a call of its raises; everything it read is gone.    *)
Dies(s) ==
    /\ ~In(s, "idle") /\ Fails(s)
    /\ UNCHANGED <<where, work, elsewhere, provider, log, posts>>

HandoffStep(s) ==
    \/ Begin(s) \/ SetState(s) \/ ReadMessage(s) \/ ReadIntent(s) \/ ChooseRun(s)
    \/ EmitIntent(s) \/ ReadSource(s) \/ PostRerun(s) \/ EmitMessage(s)

Next ==
    \/ \E s \in Session : HandoffStep(s) \/ Dies(s) \/ CookPushes(s) \/ CookNotes(s)
    \/ \E w \in Worktree : RemoveWorktree(w)
    \/ \E s \in Session, w \in Worktree : SpawnSession(s, w)
    \/ \E i \in 1..Len(runs) : RunCompletes(i) \/ OtherReruns(i)
    \/ OtherPushes \/ OtherCheckout \/ Lands

Spec == Init /\ [][Next]_vars

(* The cook runs a handoff that failed again; a run ends.                   *)
Fairness ==
    /\ \A s \in Session : WF_vars(HandoffStep(s))
    /\ \A i \in Heads : WF_vars(i \in 1..Len(runs) /\ RunCompletes(i))

FairSpec == Spec /\ Fairness

-----------------------------------------------------------------------------
SameRerun(e, f) == e.run = f.run /\ e.base = f.base /\ e.head = f.head

(* Wherever a handoff died and however often it is resumed, its session     *)
(* records one intent, has one rerun made and leaves one message, which is  *)
(* of its intent (noodles.py:1411-1434, runtime_contract.py:899-1090).      *)
HandedOverOnce ==
    \A s \in Session :
        /\ posts[s] <= 1
        /\ \A kind \in {"intent", "message"} : \A i, j \in Events(s, kind) : i = j
        /\ \A j \in Events(s, "message") : \E i \in Events(s, "intent") :
              i < j /\ SameRerun(log[s][i], log[s][j])

(* A session that parked has been verified again: the issue is              *)
(* awaiting_land, and the run it names is past the attempt that failed      *)
(* without it (noodles.py:1368-1434).                                       *)
ParkedIsRerun ==
    \A s \in Session : \A i \in Events(s, "message") :
        /\ issue = "awaiting_land"
        /\ log[s][i].run = log[s][i].head
        /\ runs[log[s][i].run].attempt > log[s][i].base

(* What stops a session's handoff for good, by name: a candidate that is    *)
(* not admitted, something said after its message, an intent whose head or  *)
(* attempt moved on, a run that passed before there was an intent.          *)
Refused(s) ==
    \/ ~Admitted(s)
    \/ Events(s, "message") # {} /\ ~Parked(s, pull)
    \/ \E i \in Events(s, "intent") :
          log[s][i].head # pull \/ runs[pull].attempt > log[s][i].base + 1
    \/ Events(s, "intent") = {} /\ runs[pull].done /\ runs[pull].ok

(* A handoff that is resumed ends with its session parked, unless it is     *)
(* refused in one of those ways.                                            *)
HandoffSettles ==
    \A s \in Session : []<>(Refused(s) \/ (Admitted(s) /\ Parked(s, pull)))
=============================================================================
