---------------------------- MODULE HandoffProofs ----------------------------
(* What is proved of Handoff, for any number of sessions, worktrees, heads, *)
(* reruns and deaths: wherever handoffs end and are run again, each has one *)
(* rerun made at most, and parks only behind a rerun.                       *)
EXTENDS Handoff, TLAPS

USE HandoffAssumption

-----------------------------------------------------------------------------
(***************************************************************************)
(* Type correctness.                                                       *)
(***************************************************************************)

LEMMA NewRunType ==
  ASSUME NEW n \in Nat \ {0}
  PROVE  NewRun(n) \in Run /\ NewRun(n).attempt = n
  BY DEF NewRun, Run

LEMMA InitTypeOK == Init => TypeOK
  <1> SUFFICES ASSUME Init PROVE TypeOK
    OBVIOUS
  <1>1. runs \in Seq(Run) /\ Len(runs) = pull /\ pull \in Heads
    BY NewRunType DEF Init, Heads
  <1>2. log \in [Session -> Seq(Event)]
    BY DEF Init
  <1>3. proc \in [Session -> [pc : Steps, head : 0..MaxHeads, run : 0..MaxHeads, base : Nat]]
    BY DEF Init, Idle, At, Steps
  <1>4. \A s \in Session : proc[s].pc \in {"emit", "source", "post", "park"} <=> proc[s].run # 0
    BY DEF Init, Idle, At
  <1>5. /\ where \in [Session -> Worktree \cup {None}]
        /\ work \in [Worktree -> 0..MaxHeads]
    BY DEF Init
  <1>6. issue \in {"ready", "awaiting_land"} /\ posts \in [Session -> Nat] /\ deaths \in 0..MaxDeaths
    BY DEF Init
  <1>7. open \in BOOLEAN /\ elsewhere \in BOOLEAN
    BY Zenon DEF Init
  <1> QED
    BY <1>1, <1>2, <1>3, <1>4, <1>5, <1>6, <1>7 DEF TypeOK

\* The runs of a candidate grow in number and in attempts, and no other way.
Grown ==
    /\ runs' \in Seq(Run) /\ Len(runs') >= Len(runs)
    /\ \A i \in 1..Len(runs) : runs'[i].attempt >= runs[i].attempt

LEMMA RunType ==
  ASSUME NEW r \in Run
  PROVE  /\ r.attempt \in Nat \ {0}
         /\ [r EXCEPT !.done = TRUE] \in Run
         /\ [r EXCEPT !.done = TRUE].attempt = r.attempt
  BY DEF Run

LEMMA RunsType ==
  ASSUME TypeOK
  PROVE  \A i \in 1..Len(runs) : runs[i] \in Run /\ runs[i].attempt \in Nat
  <1>1. \A i \in 1..Len(runs) : runs[i] \in Run
    BY DEF TypeOK
  <1> QED
    BY <1>1, RunType

LEMMA CancelledType ==
  ASSUME TypeOK
  PROVE  /\ Cancelled(runs) \in Seq(Run) /\ Len(Cancelled(runs)) = Len(runs)
         /\ \A i \in 1..Len(runs) : /\ Cancelled(runs)[i] \in Run
                                    /\ Cancelled(runs)[i].attempt = runs[i].attempt
  <1>1. \A i \in 1..Len(runs) : runs[i] \in Run
    BY DEF TypeOK
  <1>2. \A i \in 1..Len(runs) : [runs[i] EXCEPT !.done = TRUE] \in Run
    BY <1>1, RunType
  <1>3. Len(runs) \in Nat
    BY DEF TypeOK
  <1>4. Cancelled(runs) \in [1..Len(runs) -> Run]
    BY <1>2, <1>3 DEF Cancelled
  <1>5. Cancelled(runs) \in Seq(Run) /\ Len(Cancelled(runs)) = Len(runs)
    BY <1>3, <1>4
  <1>6. \A i \in 1..Len(runs) : Cancelled(runs)[i] = [runs[i] EXCEPT !.done = TRUE]
    BY DEF Cancelled
  <1> QED
    BY <1>1, <1>2, <1>5, <1>6, RunType

LEMMA PushedType ==
  ASSUME TypeOK, Pushed, pull < MaxHeads
  PROVE  Grown /\ pull' \in Heads /\ Len(runs') = pull'
  <1>1. /\ runs' \in Seq(Run) /\ Len(runs') = Len(runs) + 1
        /\ \A i \in 1..Len(runs) : runs'[i] = Cancelled(runs)[i]
    BY CancelledType, NewRunType DEF Pushed
  <1>2. \A i \in 1..Len(runs) : runs[i].attempt \in Nat
    BY RunsType
  <1>3. pull' \in Heads /\ Len(runs) = pull /\ pull' = pull + 1
    BY DEF TypeOK, Pushed, Heads
  <1> QED
    BY <1>1, <1>2, <1>3, CancelledType DEF Grown

LEMMA RestartedType ==
  ASSUME TypeOK, NEW i \in 1..Len(runs), runs' = Restarted(i)
  PROVE  /\ Grown /\ Len(runs') = Len(runs)
         /\ runs'[i].attempt = runs[i].attempt + 1
         /\ \A j \in 1..Len(runs) \ {i} : runs'[j].attempt = runs[j].attempt
  <1> DEFINE again == NewRun(runs[i].attempt + 1)
  <1>1. \A j \in 1..Len(runs) : runs[j].attempt \in Nat
    BY RunsType
  <1>2. again \in Run /\ again.attempt = runs[i].attempt + 1
    BY <1>1, NewRunType
  <1> HIDE DEF again
  <1>3. runs' = [Cancelled(runs) EXCEPT ![i] = again]
    BY DEF Restarted, again
  <1>4. runs' \in Seq(Run) /\ Len(runs') = Len(runs)
    BY <1>2, <1>3, CancelledType
  <1>5. \A j \in 1..Len(runs) : runs'[j] = IF j = i THEN again ELSE Cancelled(runs)[j]
    BY <1>3, CancelledType
  <1> QED
    BY <1>1, <1>2, <1>4, <1>5, CancelledType DEF Grown

LEMMA CompletedType ==
  ASSUME TypeOK, NEW i \in 1..Len(runs), RunCompletes(i)
  PROVE  Grown /\ Len(runs') = Len(runs)
  <1>1. PICK ok \in BOOLEAN : runs' = [runs EXCEPT ![i].done = TRUE, ![i].ok = ok]
    BY DEF RunCompletes
  <1>2. runs[i] \in Run
    BY RunsType
  <1>3. [runs[i] EXCEPT !.done = TRUE, !.ok = ok] \in Run
        /\ [runs[i] EXCEPT !.done = TRUE, !.ok = ok].attempt = runs[i].attempt
    BY <1>2 DEF Run
  <1>4. runs' = [runs EXCEPT ![i] = [runs[i] EXCEPT !.done = TRUE, !.ok = ok]]
    BY <1>1
  <1>5. runs' \in Seq(Run) /\ Len(runs') = Len(runs)
        /\ \A j \in 1..Len(runs) : runs'[j].attempt = runs[j].attempt
    BY <1>3, <1>4 DEF TypeOK
  <1> QED
    BY <1>5, RunsType DEF Grown

\* The log of a session is only ever appended to.
LEMMA LogType ==
  ASSUME TypeOK, NEW s \in Session, NEW e \in Event,
         log' = [log EXCEPT ![s] = Append(@, e)]
  PROVE  /\ log' \in [Session -> Seq(Event)]
         /\ \A r \in Session \ {s} : log'[r] = log[r]
         /\ Len(log'[s]) = Len(log[s]) + 1
         /\ \A i \in 1..Len(log[s]) : log'[s][i] = log[s][i]
         /\ log'[s][Len(log[s]) + 1] = e
  BY DEF TypeOK

LEMMA GoType ==
  ASSUME TypeOK, NEW s \in Session, NEW pc \in Steps, Go(s, pc),
         pc \in {"emit", "source", "post", "park"}
             <=> proc[s].pc \in {"emit", "source", "post", "park"}
  PROVE  /\ proc' \in [Session -> [pc : Steps, head : 0..MaxHeads, run : 0..MaxHeads, base : Nat]]
         /\ \A r \in Session :
               proc'[r].pc \in {"emit", "source", "post", "park"} <=> proc'[r].run # 0
  BY ZenonT(30) DEF TypeOK, Go

LEMMA RaiseType ==
  ASSUME TypeOK, NEW s \in Session, Raise(s)
  PROVE  /\ proc' \in [Session -> [pc : Steps, head : 0..MaxHeads, run : 0..MaxHeads, base : Nat]]
         /\ \A r \in Session :
               proc'[r].pc \in {"emit", "source", "post", "park"} <=> proc'[r].run # 0
  BY DEF TypeOK, Raise, Idle, At, Steps

LEMMA WorldType ==
  ASSUME TypeOK,
         \/ OtherPushes \/ OtherCheckout \/ Lands
         \/ \E w \in Worktree : RemoveWorktree(w)
         \/ \E s \in Session, w \in Worktree : SpawnSession(s, w)
         \/ \E s \in Session : CookPushes(s)
         \/ \E i \in 1..Len(runs) : RunCompletes(i) \/ OtherReruns(i)
  PROVE  TypeOK' /\ UNCHANGED <<log, proc, posts, issue>> /\ (UNCHANGED runs \/ Grown)
  <1>1. CASE OtherCheckout \/ Lands
    BY <1>1 DEF TypeOK, OtherCheckout, Lands, provider
  <1>2. ASSUME NEW w \in Worktree, RemoveWorktree(w)
        PROVE  TypeOK' /\ UNCHANGED <<log, proc, posts, issue, runs>>
    BY <1>2 DEF TypeOK, RemoveWorktree, provider
  <1>3. ASSUME NEW s \in Session, NEW w \in Worktree, SpawnSession(s, w)
        PROVE  TypeOK' /\ UNCHANGED <<log, proc, posts, issue, runs>>
    BY <1>3, SMTT(30) DEF TypeOK, SpawnSession, provider, Heads
  <1>4. CASE OtherPushes
    BY <1>4, PushedType DEF TypeOK, OtherPushes, Grown
  <1>5. ASSUME NEW s \in Session, CookPushes(s)
        PROVE  TypeOK' /\ UNCHANGED <<log, proc, posts, issue>> /\ Grown
    <2>1. work' \in [Worktree -> 0..MaxHeads]
      BY <1>5 DEF TypeOK, CookPushes, Heads
    <2> QED
      BY <1>5, <2>1, PushedType DEF TypeOK, CookPushes, Grown
  <1>6. ASSUME NEW i \in 1..Len(runs), RunCompletes(i) \/ OtherReruns(i)
        PROVE  TypeOK' /\ UNCHANGED <<log, proc, posts, issue>> /\ Grown
    <2>1. Grown /\ Len(runs') = Len(runs)
      BY <1>6, CompletedType, RestartedType DEF OtherReruns
    <2> QED
      BY <1>6, <2>1 DEF TypeOK, RunCompletes, OtherReruns, Grown
  <1> QED
    BY <1>1, <1>2, <1>3, <1>4, <1>5, <1>6

LEMMA ProcType ==
  ASSUME TypeOK, NEW s \in Session
  PROVE  /\ proc[s] \in [pc : Steps, head : 0..MaxHeads, run : 0..MaxHeads, base : Nat]
         /\ proc[s].pc \in Steps /\ proc[s].base \in Nat
         /\ proc[s].head \in 0..MaxHeads /\ proc[s].run \in 0..MaxHeads
  <1>1. proc[s] \in [pc : Steps, head : 0..MaxHeads, run : 0..MaxHeads, base : Nat]
    BY DEF TypeOK
  <1> QED
    BY <1>1

LEMMA EventsType ==
  ASSUME TypeOK, NEW s \in Session, NEW i \in 1..Len(log[s])
  PROVE  log[s][i] \in Event
  BY DEF TypeOK

\* Steps of a handoff that only read, set the issue or end.
LEMMA ReadingType ==
  ASSUME TypeOK, NEW s \in Session,
         \/ Begin(s) \/ SetState(s) \/ ReadMessage(s) \/ ReadSource(s) \/ Dies(s)
  PROVE  TypeOK'
  <1> DEFINE Proc == /\ proc' \in [Session -> [pc : Steps, head : 0..MaxHeads,
                                                run : 0..MaxHeads, base : Nat]]
                     /\ \A r \in Session : proc'[r].pc \in {"emit", "source", "post", "park"}
                                               <=> proc'[r].run # 0
  <1>1. CASE Begin(s)
    <2>1. proc' = [proc EXCEPT ![s] = [pc |-> "state", head |-> pull, run |-> 0, base |-> 0]]
      BY <1>1 DEF Begin, At
    <2>2. pull \in 0..MaxHeads
      BY DEF TypeOK, Heads
    <2>3. Proc
      BY <2>1, <2>2 DEF TypeOK, Steps
    <2> QED
      BY <1>1, <2>3 DEF TypeOK, Begin, provider
  <1>2. CASE SetState(s)
    <2>1. Proc
      BY <1>2, GoType DEF SetState, In, Steps
    <2> QED
      BY <1>2, <2>1 DEF TypeOK, SetState
  <1>3. CASE ReadMessage(s)
    <2>1. Proc
      BY <1>3, GoType, RaiseType DEF ReadMessage, In, Steps
    <2> QED
      BY <1>3, <2>1 DEF TypeOK, ReadMessage, provider
  <1>4. CASE ReadSource(s)
    <2>1. Go(s, "post") \/ Go(s, "park") \/ Raise(s)
      BY <1>4 DEF ReadSource
    <2>2. Proc
      BY <1>4, <2>1, GoType, RaiseType DEF ReadSource, In, Steps
    <2> QED
      BY <1>4, <2>2 DEF TypeOK, ReadSource, provider
  <1>5. CASE Dies(s)
    <2>1. Proc
      BY <1>5, RaiseType DEF Dies, Fails
    <2>2. deaths' \in 0..MaxDeaths
      BY <1>5 DEF TypeOK, Dies, Fails
    <2>3. UNCHANGED <<where, work, elsewhere, pull, open, issue, runs, log, posts>>
      BY <1>5 DEF Dies, provider
    <2> QED
      BY <2>1, <2>2, <2>3 DEF TypeOK
  <1> QED
    BY <1>1, <1>2, <1>3, <1>4, <1>5

-----------------------------------------------------------------------------
(***************************************************************************)
(* What is recorded, and what a handoff under way knows.                   *)
(***************************************************************************)

\* A note of a rerun names its candidate's run and an attempt that was; it is done
\* once the run is past that attempt.
Sound(e, rs) == e.run = e.head /\ e.run \in 1..Len(rs) /\ rs[e.run].attempt >= e.base
Done(e, rs) == Sound(e, rs) /\ rs[e.run].attempt > e.base

\* The log of a session: one intent, which is sound, one message of a rerun that is
\* done, and a rerun requested only for an intent that is done by then.
Recorded(s) ==
    /\ \A kind \in {"intent", "message"} : \A i, j \in Events(s, kind) : i = j
    /\ \A i \in Events(s, "intent") : Sound(log[s][i], runs)
    /\ \A j \in Events(s, "message") :
          /\ issue = "awaiting_land" /\ Done(log[s][j], runs)
          /\ \E i \in Events(s, "intent") : i < j /\ SameRerun(log[s][i], log[s][j])
    /\ posts[s] <= 1
    /\ posts[s] > 0 => \E i \in Events(s, "intent") : Done(log[s][i], runs)

\* And what its handoff read: it knows of no intent only while there is none, what
\* it has rerun is what the intent says, and it asks only if nothing was asked.
Underway(s) ==
    /\ proc[s].pc # "idle" => proc[s].head \in 1..Len(runs)
    /\ proc[s].pc \notin {"idle", "state"} => issue = "awaiting_land"
    /\ proc[s].pc \in {"choose", "emit"} => Events(s, "intent") = {}
    /\ proc[s].pc \in {"emit", "source", "post", "park"} => Sound(proc[s], runs)
    /\ proc[s].pc \in {"source", "post", "park"} =>
          \E i \in Events(s, "intent") : SameRerun(log[s][i], proc[s])
    /\ proc[s].pc = "post" => posts[s] = 0
    /\ proc[s].pc = "park" => Done(proc[s], runs)

Handed == \A s \in Session : Recorded(s) /\ Underway(s)

LEMMA InitHanded == Init => Handed
  BY DEF Init, Handed, Recorded, Underway, Events, Idle, At

LEMMA LaterSound ==
  ASSUME TypeOK, Grown \/ UNCHANGED runs, NEW e, e.base \in Nat, Sound(e, runs)
  PROVE  Sound(e, runs') /\ (Done(e, runs) => Done(e, runs'))
  <1>1. Len(runs) \in Nat /\ runs[e.run].attempt \in Nat
    BY RunsType, SMTT(30) DEF Sound, TypeOK
  <1>2. CASE UNCHANGED runs
    BY <1>2
  <1>3. CASE Grown
    <2>1. /\ Len(runs') \in Nat /\ Len(runs') >= Len(runs)
          /\ runs'[e.run].attempt >= runs[e.run].attempt
      BY <1>3 DEF Grown, Sound
    <2>2. runs'[e.run] \in Run
      BY <1>1, <1>3, <2>1 DEF Grown, Sound
    <2>3. runs'[e.run].attempt \in Nat
      BY <2>2, RunType
    <2> QED
      BY <1>1, <2>1, <2>3, SMTT(30) DEF Sound, Done
  <1> QED
    BY <1>2, <1>3

\* What others do leaves a session's record true, and what its handoff knows.
LEMMA RecordedKept ==
  ASSUME TypeOK, NEW s \in Session, Recorded(s), Grown \/ UNCHANGED runs,
         log'[s] = log[s], posts'[s] = posts[s], issue' \in {issue, "awaiting_land"}
  PROVE  Recorded(s)'
  <1>1. \A i \in 1..Len(log[s]) : log[s][i].base \in Nat
    BY EventsType DEF Event
  <1>2. \A i \in 1..Len(log[s]) :
           /\ Sound(log[s][i], runs) => Sound(log[s][i], runs')
           /\ Done(log[s][i], runs) => Done(log[s][i], runs')
    BY <1>1, LaterSound DEF Done
  <1>3. \A kind \in {"intent", "message"} :
           Events(s, kind)' = Events(s, kind) /\ Events(s, kind) \subseteq 1..Len(log[s])
    BY DEF Events
  <1> QED
    BY <1>2, <1>3 DEF Recorded

LEMMA UnderwayKept ==
  ASSUME TypeOK, NEW s \in Session, Underway(s), Grown \/ UNCHANGED runs,
         log'[s] = log[s], posts'[s] = posts[s], issue' \in {issue, "awaiting_land"},
         proc'[s] = proc[s]
  PROVE  Underway(s)'
  <1>1. proc[s].base \in Nat /\ Len(runs) \in Nat
    BY ProcType DEF TypeOK
  <1>2. /\ Sound(proc[s], runs) => Sound(proc[s], runs')
        /\ Done(proc[s], runs) => Done(proc[s], runs')
    BY <1>1, LaterSound DEF Done
  <1>3. Events(s, "intent")' = Events(s, "intent")
    BY DEF Events
  <1>4. Len(runs') >= Len(runs) /\ Len(runs') \in Nat
    BY <1>1 DEF Grown
  <1> QED
    BY <1>1, <1>2, <1>3, <1>4 DEF Underway

LEMMA Kept ==
  ASSUME TypeOK, Handed, Grown \/ UNCHANGED runs, issue' \in {issue, "awaiting_land"},
         NEW s \in Session, log'[s] = log[s], posts'[s] = posts[s], proc'[s] = proc[s]
  PROVE  Recorded(s)' /\ Underway(s)'
  BY RecordedKept, UnderwayKept DEF Handed

-----------------------------------------------------------------------------
(***************************************************************************)
(* The steps of a handoff.                                                 *)
(***************************************************************************)

LEMMA GoesTo ==
  ASSUME TypeOK, NEW s \in Session, NEW pc \in Steps, Go(s, pc)
  PROVE  /\ proc'[s].pc = pc /\ proc'[s].head = proc[s].head
         /\ proc'[s].run = proc[s].run /\ proc'[s].base = proc[s].base
         /\ \A r \in Session \ {s} : proc'[r] = proc[r]
  <1>1. proc'[s] = [proc[s] EXCEPT !.pc = pc] /\ \A r \in Session \ {s} : proc'[r] = proc[r]
    BY DEF Go, TypeOK
  <1> QED
    BY <1>1, ProcType

\* A step of a handoff that records nothing.
LEMMA StepHanded ==
  ASSUME TypeOK, Handed, NEW s \in Session, UNCHANGED <<log, posts>>,
         Grown \/ UNCHANGED runs, issue' \in {issue, "awaiting_land"},
         \A r \in Session \ {s} : proc'[r] = proc[r], Underway(s)'
  PROVE  Handed'
  <1>1. \A r \in Session \ {s} : Recorded(r)' /\ Underway(r)'
    BY Kept
  <1>2. Recorded(s)'
    BY RecordedKept DEF Handed
  <1> QED
    BY <1>1, <1>2 DEF Handed

LEMMA RaiseHanded ==
  ASSUME TypeOK, Handed, NEW s \in Session, Raise(s),
         UNCHANGED <<log, posts, issue, runs>>
  PROVE  Handed'
  <1>1. proc'[s].pc = "idle" /\ \A r \in Session \ {s} : proc'[r] = proc[r]
    BY DEF Raise, Idle, At, TypeOK
  <1> QED
    BY <1>1, StepHanded DEF Underway

LEMMA BeginHanded ==
  ASSUME TypeOK, Handed, NEW s \in Session, Begin(s)
  PROVE  Handed'
  <1>1. /\ proc'[s].pc = "state" /\ proc'[s].head = pull
        /\ \A r \in Session \ {s} : proc'[r] = proc[r]
        /\ UNCHANGED <<log, posts, issue, runs>>
    BY DEF Begin, At, TypeOK, provider
  <1>2. Underway(s)'
    BY <1>1 DEF Underway, TypeOK, Heads
  <1> QED
    BY <1>1, <1>2, StepHanded

LEMMA SetStateHanded ==
  ASSUME TypeOK, Handed, NEW s \in Session, SetState(s)
  PROVE  Handed'
  <1>1. Go(s, "message") /\ issue' = "awaiting_land" /\ UNCHANGED <<log, posts, runs>>
    BY DEF SetState
  <1>2. Underway(s)'
    BY <1>1, GoesTo DEF SetState, In, Handed, Underway, Steps
  <1> QED
    BY <1>1, <1>2, GoesTo, StepHanded DEF Steps

LEMMA ReadMessageHanded ==
  ASSUME TypeOK, Handed, NEW s \in Session, ReadMessage(s)
  PROVE  Handed'
  <1>1. UNCHANGED <<log, posts, issue, runs>>
    BY DEF ReadMessage, provider
  <1>2. CASE Go(s, "intent")
    <2>1. Underway(s)'
      BY <1>1, <1>2, GoesTo DEF ReadMessage, In, Handed, Underway, Steps
    <2> QED
      BY <1>1, <1>2, <2>1, GoesTo, StepHanded DEF Steps
  <1> QED
    BY <1>1, <1>2, RaiseHanded DEF ReadMessage

\* Reading an intent, or choosing the run of one, sets what the handoff works with.
LEMMA ReadType ==
  ASSUME TypeOK, NEW s \in Session, NEW e, e.run \in 1..MaxHeads, e.base \in Nat,
         NEW pc \in {"emit", "source"}, Read(s, e, pc)
  PROVE  /\ proc' \in [Session -> [pc : Steps, head : 0..MaxHeads, run : 0..MaxHeads, base : Nat]]
         /\ \A r \in Session :
               proc'[r].pc \in {"emit", "source", "post", "park"} <=> proc'[r].run # 0
         /\ proc'[s].pc = pc /\ proc'[s].head = proc[s].head
         /\ proc'[s].run = e.run /\ proc'[s].base = e.base
         /\ \A r \in Session \ {s} : proc'[r] = proc[r]
  <1>1. proc' = [proc EXCEPT ![s] = [[[@ EXCEPT !.pc = pc] EXCEPT !.run = e.run]
                                          EXCEPT !.base = e.base]]
    BY DEF Read
  <1>2. proc'[s] = [pc |-> pc, head |-> proc[s].head, run |-> e.run, base |-> e.base]
    BY <1>1, ProcType DEF TypeOK
  <1>3. \A r \in Session \ {s} : proc'[r] = proc[r]
    BY <1>1 DEF TypeOK
  <1>4. proc'[s] \in [pc : Steps, head : 0..MaxHeads, run : 0..MaxHeads, base : Nat]
    BY <1>2, ProcType DEF Steps
  <1>5. DOMAIN proc' = Session /\ proc' = [r \in Session |-> proc'[r]]
    BY <1>1 DEF TypeOK
  <1>6. proc' \in [Session -> [pc : Steps, head : 0..MaxHeads, run : 0..MaxHeads, base : Nat]]
    BY <1>3, <1>4, <1>5 DEF TypeOK
  <1>7. \A r \in Session : proc'[r].pc \in {"emit", "source", "post", "park"} <=> proc'[r].run # 0
    BY <1>2, <1>3, SMTT(30) DEF TypeOK
  <1> QED
    BY <1>2, <1>3, <1>6, <1>7

LEMMA ReadIntentHanded ==
  ASSUME TypeOK, Handed, NEW s \in Session, ReadIntent(s)
  PROVE  Handed' /\ TypeOK'
  <1>1. UNCHANGED <<where, work, elsewhere, pull, open, issue, runs, log, posts, deaths>>
    BY DEF ReadIntent, provider
  <1>2. \/ Events(s, "intent") = {} /\ Go(s, "choose")
        \/ \E i \in Events(s, "intent") :
              log[s][i].head = proc[s].head /\ Read(s, log[s][i], "source")
        \/ Raise(s)
    BY DEF ReadIntent
  <1>3. CASE Events(s, "intent") = {} /\ Go(s, "choose")
    <2>1. Events(s, "intent")' = {}
      BY <1>1, <1>3 DEF Events
    <2>2. Underway(s)'
      BY <1>1, <1>3, <2>1, GoesTo DEF ReadIntent, In, Handed, Underway, Steps
    <2>3. TypeOK'
      BY <1>1, <1>3, GoType DEF ReadIntent, In, TypeOK, Steps
    <2> QED
      BY <1>1, <1>3, <2>2, <2>3, GoesTo, StepHanded DEF Steps
  <1>4. ASSUME NEW i \in Events(s, "intent"), log[s][i].head = proc[s].head,
               Read(s, log[s][i], "source")
        PROVE  Handed' /\ TypeOK'
    <2>1. Sound(log[s][i], runs) /\ i \in 1..Len(log[s])
      BY DEF Handed, Recorded, Events
    <2>2. log[s][i].run \in 1..MaxHeads /\ log[s][i].base \in Nat
      <3>1. log[s][i].base \in Nat
        BY <2>1, EventsType DEF Event
      <3>2. Len(runs) \in 1..MaxHeads
        BY DEF TypeOK, Heads
      <3> QED
        BY <2>1, <3>1, <3>2 DEF Sound
    <2>3. /\ proc'[s].pc = "source" /\ proc'[s].head = proc[s].head
          /\ proc'[s].run = log[s][i].run /\ proc'[s].base = log[s][i].base
          /\ \A r \in Session \ {s} : proc'[r] = proc[r]
      BY <1>4, <2>2, ReadType
    <2>4. TypeOK'
      BY <1>1, <1>4, <2>2, ReadType DEF TypeOK
    <2>5. Sound(proc'[s], runs) /\ proc[s].head \in 1..Len(runs) /\ issue = "awaiting_land"
      BY <1>4, <2>1, <2>3 DEF Sound, ReadIntent, In, Handed, Underway
    <2>6. SameRerun(log[s][i], proc'[s])
      BY <1>4, <2>3 DEF SameRerun
    <2>7. Underway(s)'
      BY <1>1, <2>3, <2>5, <2>6 DEF Underway, Events
    <2> QED
      BY <1>1, <2>3, <2>4, <2>7, StepHanded
  <1>5. CASE Raise(s)
    BY <1>1, <1>5, RaiseHanded, RaiseType DEF TypeOK
  <1> QED
    BY <1>2, <1>3, <1>4, <1>5

LEMMA ChooseRunHanded ==
  ASSUME TypeOK, Handed, NEW s \in Session, ChooseRun(s)
  PROVE  Handed' /\ TypeOK'
  <1> DEFINE e == [run |-> proc[s].head, base |-> runs[proc[s].head].attempt]
  <1>1. UNCHANGED <<where, work, elsewhere, pull, open, issue, runs, log, posts, deaths>>
    BY DEF ChooseRun, provider
  <1>2. CASE Raise(s)
    BY <1>1, <1>2, RaiseHanded, RaiseType DEF TypeOK
  <1>3. CASE Read(s, e, "emit")
    <2>1. /\ proc[s].head \in 1..Len(runs) /\ issue = "awaiting_land"
          /\ Events(s, "intent") = {}
      BY DEF ChooseRun, In, Handed, Underway
    <2>2. e.run \in 1..MaxHeads /\ e.base \in Nat
      <3>1. runs[proc[s].head].attempt \in Nat
        BY <2>1, RunsType
      <3>2. Len(runs) \in 1..MaxHeads
        BY DEF TypeOK, Heads
      <3> QED
        BY <2>1, <3>1, <3>2
    <2>3. /\ proc'[s].pc = "emit" /\ proc'[s].head = proc[s].head
          /\ proc'[s].run = e.run /\ proc'[s].base = e.base
          /\ \A r \in Session \ {s} : proc'[r] = proc[r]
      BY <1>3, <2>2, ReadType
    <2>4. TypeOK'
      BY <1>1, <1>3, <2>2, ReadType DEF TypeOK
    <2>5. Sound(proc'[s], runs)
      BY <2>1, <2>2, <2>3 DEF Sound
    <2>6. Underway(s)'
      BY <1>1, <2>1, <2>3, <2>5 DEF Underway, Events
    <2> QED
      BY <1>1, <2>3, <2>4, <2>6, StepHanded
  <1> QED
    BY <1>2, <1>3 DEF ChooseRun

LEMMA ReadSourceHanded ==
  ASSUME TypeOK, Handed, NEW s \in Session, ReadSource(s)
  PROVE  Handed'
  <1>1. UNCHANGED <<log, posts, issue, runs>> /\ proc[s].pc = "source"
    BY DEF ReadSource, provider, In
  <1>2. /\ Sound(proc[s], runs) /\ proc[s].head \in 1..Len(runs) /\ issue = "awaiting_land"
        /\ \E i \in Events(s, "intent") : SameRerun(log[s][i], proc[s])
    BY <1>1 DEF Handed, Underway
  <1>3. runs[proc[s].run].attempt \in Nat /\ proc[s].base \in Nat
    BY <1>2, RunsType, ProcType DEF Sound
  <1>4. Events(s, "intent")' = Events(s, "intent")
    BY <1>1 DEF Events
  <1>5. CASE runs[proc[s].run].attempt = proc[s].base /\ Go(s, "post")
    <2>1. posts[s] = 0
      BY <1>2, <1>3, <1>5 DEF Handed, Recorded, Done, SameRerun, TypeOK
    <2>2. Underway(s)'
      BY <1>1, <1>2, <1>4, <1>5, <2>1, GoesTo DEF Underway, Sound, SameRerun, Steps
    <2> QED
      BY <1>1, <1>5, <2>2, GoesTo, StepHanded DEF Steps
  <1>6. CASE runs[proc[s].run].attempt = proc[s].base + 1 /\ Go(s, "park")
    <2>1. Underway(s)'
      BY <1>1, <1>2, <1>3, <1>4, <1>6, GoesTo, SMTT(30) DEF Underway, Sound, Done, SameRerun, Steps
    <2> QED
      BY <1>1, <1>6, <2>1, GoesTo, StepHanded DEF Steps
  <1> QED
    BY <1>1, <1>3, <1>5, <1>6, RaiseHanded DEF ReadSource

LEMMA AppendedEvents ==
  ASSUME TypeOK, NEW s \in Session, NEW e \in Event,
         log' = [log EXCEPT ![s] = Append(@, e)]
  PROVE  /\ \A kind \in {"intent", "message", "note"} :
               /\ Events(s, kind) \subseteq 1..Len(log[s])
               /\ Events(s, kind)' = Events(s, kind)
                                        \cup (IF e.kind = kind THEN {Len(log[s]) + 1} ELSE {})
         /\ \A i \in 1..Len(log[s]) : log'[s][i] = log[s][i]
         /\ log'[s][Len(log[s]) + 1] = e /\ Len(log[s]) \in Nat
         /\ e.kind \in {"intent", "message", "note"}
         /\ \A r \in Session \ {s} : log'[r] = log[r]
  <1> DEFINE n == Len(log[s]) + 1
  <1>1. Len(log[s]) \in Nat
    BY DEF TypeOK
  <1>2. /\ Len(log'[s]) = n /\ log'[s][n] = e
        /\ \A i \in 1..Len(log[s]) : log'[s][i] = log[s][i]
        /\ \A r \in Session \ {s} : log'[r] = log[r]
    BY LogType
  <1>3. ASSUME NEW kind \in {"intent", "message", "note"}
        PROVE  /\ Events(s, kind) \subseteq 1..Len(log[s])
               /\ Events(s, kind)' = Events(s, kind) \cup (IF e.kind = kind THEN {n} ELSE {})
    <2>1. Events(s, kind)' = {i \in 1..n : log'[s][i].kind = kind}
      BY <1>2 DEF Events
    <2>2. Events(s, kind) = {i \in 1..Len(log[s]) : log[s][i].kind = kind}
      BY DEF Events
    <2>3. 1..n = 1..Len(log[s]) \cup {n}
      BY <1>1
    <2> QED
      BY <1>2, <2>1, <2>2, <2>3
  <1>4. e.kind \in {"intent", "message", "note"}
    BY DEF Event
  <1> QED
    BY <1>1, <1>2, <1>3, <1>4

LEMMA CookNotesHanded ==
  ASSUME TypeOK, Handed, NEW s \in Session, CookNotes(s)
  PROVE  Handed' /\ TypeOK'
  <1>1. PICK e \in Event : e.kind = "note" /\ log' = [log EXCEPT ![s] = Append(@, e)]
    <2>1. [kind |-> "note", run |-> 0, base |-> 0, head |-> 0] \in Event
      BY DEF Event
    <2> QED
      BY <2>1 DEF CookNotes
  <1>2. UNCHANGED <<posts, proc, issue, runs>> /\ proc[s].pc = "idle"
    BY DEF CookNotes, provider, In
  <1>3. TypeOK'
    BY <1>1, LogType DEF CookNotes, TypeOK, provider
  <1>4. \A r \in Session \ {s} : Recorded(r)' /\ Underway(r)'
    BY <1>1, <1>2, LogType, Kept
  <1>5. \A kind \in {"intent", "message"} :
           /\ Events(s, kind)' = Events(s, kind)
           /\ \A i \in Events(s, kind) : log'[s][i] = log[s][i]
    <2>1. \A kind \in {"intent", "message"} :
             /\ Events(s, kind) \subseteq 1..Len(log[s])
             /\ Events(s, kind)' = Events(s, kind)
                                      \cup (IF e.kind = kind THEN {Len(log[s]) + 1} ELSE {})
      BY <1>1, AppendedEvents
    <2>2. \A i \in 1..Len(log[s]) : log'[s][i] = log[s][i]
      BY <1>1, AppendedEvents
    <2> QED
      BY <1>1, <2>1, <2>2
  <1>6. Recorded(s)' /\ Underway(s)'
    BY <1>2, <1>5 DEF Handed, Recorded, Underway
  <1> QED
    BY <1>3, <1>4, <1>6 DEF Handed

LEMMA EmitIntentHanded ==
  ASSUME TypeOK, Handed, NEW s \in Session, EmitIntent(s)
  PROVE  Handed' /\ TypeOK'
  <1> DEFINE e == [kind |-> "intent", run |-> proc[s].run, base |-> proc[s].base,
                   head |-> proc[s].head]
             n == Len(log[s]) + 1
  <1>1. e \in Event /\ log' = [log EXCEPT ![s] = Append(@, e)]
    BY ProcType DEF EmitIntent, Logged, Event
  <1>2. /\ Go(s, "source") /\ proc[s].pc = "emit"
        /\ UNCHANGED <<where, work, elsewhere, pull, open, posts, issue, runs, deaths>>
    BY DEF EmitIntent, provider, In
  <1>3. TypeOK'
    BY <1>1, <1>2, LogType, GoType DEF TypeOK, Steps
  <1>4. \A r \in Session \ {s} : Recorded(r)' /\ Underway(r)'
    BY <1>1, <1>2, LogType, GoesTo, Kept DEF Steps
  <1>5. /\ Events(s, "intent") = {} /\ Sound(proc[s], runs)
        /\ issue = "awaiting_land" /\ proc[s].head \in 1..Len(runs)
    BY <1>2 DEF Handed, Underway
  <1>6. Events(s, "message") = {} /\ posts[s] <= 1 /\ ~(posts[s] > 0)
    BY <1>5 DEF Handed, Recorded
  <1>7. /\ Events(s, "intent")' = {n} /\ log'[s][n] = e
        /\ Events(s, "message")' = {}
    <2>1. e.kind = "intent"
      OBVIOUS
    <2> HIDE DEF e
    <2> QED
      BY <1>1, <1>5, <1>6, <2>1, AppendedEvents
  <1>8. Sound(e, runs) /\ SameRerun(e, proc[s])
    BY <1>5 DEF Sound, SameRerun
  <1>9. Recorded(s)'
    BY <1>2, <1>6, <1>7, <1>8 DEF Recorded
  <1>10. Underway(s)'
    <2>1. /\ proc'[s].pc = "source" /\ proc'[s].head = proc[s].head
          /\ proc'[s].run = proc[s].run /\ proc'[s].base = proc[s].base
      BY <1>2, GoesTo DEF Steps
    <2>2. Sound(proc'[s], runs) /\ SameRerun(e, proc'[s])
      BY <1>5, <1>8, <2>1 DEF Sound, SameRerun
    <2> QED
      BY <1>2, <1>5, <1>7, <2>1, <2>2 DEF Underway
  <1> QED
    BY <1>3, <1>4, <1>9, <1>10 DEF Handed

LEMMA PostRerunHanded ==
  ASSUME TypeOK, Handed, NEW s \in Session, PostRerun(s)
  PROVE  Handed' /\ TypeOK'
  <1> DEFINE i == proc[s].run
  <1>1. /\ proc[s].pc = "post"
        /\ UNCHANGED <<where, work, elsewhere, pull, open, issue, log>>
    BY DEF PostRerun, In
  <1>2. /\ Sound(proc[s], runs) /\ issue = "awaiting_land" /\ posts[s] = 0
        /\ proc[s].head \in 1..Len(runs)
        /\ \E j \in Events(s, "intent") : SameRerun(log[s][j], proc[s])
    BY <1>1 DEF Handed, Underway
  <1>3. CASE Raise(s) /\ UNCHANGED <<runs, posts, deaths>>
    BY <1>1, <1>3, RaiseHanded, RaiseType DEF TypeOK
  <1>4. CASE /\ runs' = Restarted(i) /\ posts' = [posts EXCEPT ![s] = @ + 1]
             /\ \/ Go(s, "park") /\ UNCHANGED deaths
                \/ Fails(s)
    <2>1. /\ i \in 1..Len(runs) /\ Grown /\ Len(runs') = Len(runs)
          /\ runs'[i].attempt = runs[i].attempt + 1
          /\ proc[s].base \in Nat /\ runs[i].attempt \in Nat
      BY <1>2, <1>4, RestartedType, RunsType, ProcType DEF Sound
    <2>2. TypeOK'
      <3>1. posts' \in [Session -> Nat]
        BY <1>4 DEF TypeOK
      <3>2. deaths' \in 0..MaxDeaths
        BY <1>4 DEF Fails, TypeOK
      <3>3. Go(s, "park") \/ Raise(s)
        BY <1>4 DEF Fails
      <3>4. /\ proc' \in [Session -> [pc : Steps, head : 0..MaxHeads,
                                      run : 0..MaxHeads, base : Nat]]
            /\ \A r \in Session :
                  proc'[r].pc \in {"emit", "source", "post", "park"} <=> proc'[r].run # 0
        BY <1>1, <3>3, GoType, RaiseType DEF Steps
      <3> QED
        BY <1>1, <2>1, <3>1, <3>2, <3>4 DEF TypeOK, Grown
    <2>3. \A r \in Session \ {s} : log'[r] = log[r] /\ posts'[r] = posts[r] /\ proc'[r] = proc[r]
      BY <1>1, <1>4, GoesTo DEF Fails, Raise, Steps, TypeOK
    <2>4. \A r \in Session \ {s} : Recorded(r)' /\ Underway(r)'
      BY <1>1, <2>1, <2>3, Kept
    <2>5. posts'[s] = 1
      BY <1>2, <1>4 DEF TypeOK
    <2>6. \A j \in 1..Len(log[s]) :
             /\ log[s][j].base \in Nat
             /\ Sound(log[s][j], runs) => Sound(log[s][j], runs')
             /\ Done(log[s][j], runs) => Done(log[s][j], runs')
      BY <2>1, EventsType, LaterSound DEF Event, Done
    <2>7. Done(proc[s], runs')
      BY <1>2, <2>1, LaterSound DEF Sound, Done
    <2>8. \E j \in Events(s, "intent") : Done(log[s][j], runs')
      <3>1. PICK j \in Events(s, "intent") : SameRerun(log[s][j], proc[s])
        BY <1>2
      <3>2. log[s][j].run = proc[s].run /\ log[s][j].base = proc[s].base
            /\ log[s][j].head = proc[s].head
        BY <3>1 DEF SameRerun
      <3> QED
        BY <2>7, <3>2 DEF Done, Sound
    <2>9. \A kind \in {"intent", "message"} :
             Events(s, kind)' = Events(s, kind) /\ Events(s, kind) \subseteq 1..Len(log[s])
      BY <1>1 DEF Events
    <2>10. Recorded(s)'
      BY <1>1, <2>5, <2>6, <2>8, <2>9 DEF Handed, Recorded
    <2>11. CASE Go(s, "park")
      <3>1. /\ proc'[s].pc = "park" /\ proc'[s].head = proc[s].head
            /\ proc'[s].run = proc[s].run /\ proc'[s].base = proc[s].base
        BY <2>11, GoesTo DEF Steps
      <3>2. Underway(s)'
        BY <1>1, <1>2, <2>1, <2>7, <2>9, <3>1 DEF Underway, Sound, Done, SameRerun
      <3> QED
        BY <2>2, <2>4, <2>10, <3>2 DEF Handed
    <2>12. CASE Raise(s)
      <3>1. Underway(s)'
        BY <2>12 DEF Underway, Raise, Idle, At, TypeOK
      <3> QED
        BY <2>2, <2>4, <2>10, <3>1 DEF Handed
    <2> QED
      BY <1>4, <2>11, <2>12 DEF Fails
  <1> QED
    BY <1>3, <1>4 DEF PostRerun

LEMMA EmitMessageHanded ==
  ASSUME TypeOK, Handed, NEW s \in Session, EmitMessage(s)
  PROVE  Handed' /\ TypeOK'
  <1> DEFINE e == [kind |-> "message", run |-> proc[s].run, base |-> proc[s].base,
                   head |-> proc[s].head]
             n == Len(log[s]) + 1
  <1>1. /\ Raise(s) /\ proc[s].pc = "park"
        /\ UNCHANGED <<where, work, elsewhere, pull, open, posts, issue, runs, deaths>>
    BY DEF EmitMessage, provider, In
  <1>2. CASE UNCHANGED log
    BY <1>1, <1>2, RaiseHanded, RaiseType DEF TypeOK
  <1>3. CASE Events(s, "message") = {} /\ log' = [log EXCEPT ![s] = Append(@, e)]
    <2>1. e \in Event
      BY ProcType DEF Event
    <2>2. TypeOK'
      BY <1>1, <1>3, <2>1, LogType, RaiseType DEF TypeOK
    <2>3. /\ proc'[s].pc = "idle"
          /\ \A r \in Session \ {s} : proc'[r] = proc[r]
      BY <1>1 DEF Raise, Idle, At, TypeOK
    <2>4. \A r \in Session \ {s} : Recorded(r)' /\ Underway(r)'
      BY <1>1, <1>3, <2>1, <2>3, LogType, Kept
    <2>5. /\ Done(proc[s], runs) /\ issue = "awaiting_land"
          /\ \E i \in Events(s, "intent") : SameRerun(log[s][i], proc[s])
      BY <1>1 DEF Handed, Underway
    <2>6. /\ Events(s, "intent")' = Events(s, "intent") /\ Events(s, "message")' = {n}
          /\ Events(s, "intent") \subseteq 1..Len(log[s]) /\ Len(log[s]) \in Nat
          /\ log'[s][n] = e /\ \A i \in 1..Len(log[s]) : log'[s][i] = log[s][i]
      <3>1. e.kind = "message"
        OBVIOUS
      <3> HIDE DEF e
      <3> QED
        <4>0. \A kind \in {"intent", "message", "note"} :
                 /\ Events(s, kind) \subseteq 1..Len(log[s])
                 /\ Events(s, kind)' = Events(s, kind)
                                          \cup (IF e.kind = kind THEN {Len(log[s]) + 1} ELSE {})
          BY <1>3, <2>1, AppendedEvents
        <4>1. \A kind \in {"intent", "message"} :
                 /\ Events(s, kind) \subseteq 1..Len(log[s])
                 /\ Events(s, kind)' = Events(s, kind)
                                          \cup (IF e.kind = kind THEN {n} ELSE {})
          BY <4>0, Zenon
        <4>2. log'[s][n] = e /\ Len(log[s]) \in Nat
              /\ \A i \in 1..Len(log[s]) : log'[s][i] = log[s][i]
          BY <1>3, <2>1, AppendedEvents
        <4> QED
          BY <1>3, <3>1, <4>1, <4>2
    <2>7. Done(e, runs) /\ \E i \in Events(s, "intent") : SameRerun(log[s][i], e)
      BY <2>5 DEF Done, Sound, SameRerun
    <2>8. Recorded(s)'
      BY <1>1, <2>5, <2>6, <2>7 DEF Handed, Recorded
    <2>9. Underway(s)'
      BY <2>3 DEF Underway
    <2> QED
      BY <2>2, <2>4, <2>8, <2>9 DEF Handed
  <1> QED
    BY <1>2, <1>3 DEF EmitMessage, Logged

LEMMA NextHanded == TypeOK /\ Handed /\ [Next]_vars => TypeOK' /\ Handed'
  <1> SUFFICES ASSUME TypeOK, Handed, [Next]_vars PROVE TypeOK' /\ Handed'
    OBVIOUS
  <1>1. CASE UNCHANGED vars
    <2>1. TypeOK'
      BY <1>1 DEF vars, provider, TypeOK
    <2> QED
      BY <1>1, <2>1, Kept DEF vars, provider, Handed
  <1>2. ASSUME TypeOK' /\ UNCHANGED <<log, proc, posts, issue>> /\ (UNCHANGED runs \/ Grown)
        PROVE  TypeOK' /\ Handed'
    BY <1>2, Kept DEF Handed
  <1>3. ASSUME NEW s \in Session, HandoffStep(s) \/ CookNotes(s) PROVE TypeOK' /\ Handed'
    BY <1>3, ReadingType, BeginHanded, SetStateHanded, ReadMessageHanded, ReadSourceHanded,
       ReadIntentHanded, ChooseRunHanded, EmitIntentHanded, PostRerunHanded, EmitMessageHanded,
       CookNotesHanded DEF HandoffStep
  <1>4. ASSUME NEW s \in Session, Dies(s) PROVE TypeOK' /\ Handed'
    BY <1>4, ReadingType, RaiseHanded DEF Dies, Fails, provider
  <1> QED
    BY <1>1, <1>2, <1>3, <1>4, WorldType DEF Next

LEMMA AlwaysHanded == Spec => [](TypeOK /\ Handed)
  BY InitTypeOK, InitHanded, NextHanded, PTL DEF Spec

\* Whatever handoffs, pushes, reruns and deaths interleave, every variable keeps its
\* type and a handoff has a run in hand exactly in the steps that work on one.
THEOREM TypeCorrect == Spec => []TypeOK
  BY AlwaysHanded, PTL

\* Of however many sessions, handoffs and deaths: a session's failed run is rerun
\* once at most, behind one intent, and its one message is of that intent.
THEOREM OncePerSession == Spec => []HandedOverOnce
  <1>1. Handed => HandedOverOnce
    BY DEF Handed, Recorded, HandedOverOnce
  <1> QED
    BY <1>1, AlwaysHanded, PTL

\* And it is parked only behind an awaiting_land issue and a run that is past the
\* attempt that failed.
THEOREM ParkedBehindRerun == Spec => []ParkedIsRerun
  <1>1. TypeOK /\ Handed => ParkedIsRerun
    BY DEF Handed, Recorded, Done, Sound, ParkedIsRerun
  <1> QED
    BY <1>1, AlwaysHanded, PTL
=============================================================================
