----------------------------- MODULE Generation -----------------------------
(* One supervised generation: the child that repairs reviews and declares   *)
(* on its output what it waits for and which subject it gave up on, the     *)
(* pipe that carries those lines, and the runner that reads them, ends the  *)
(* generation at its deadlines, drains what is left and names its status    *)
(* (noodles.py: run_supervised_generation, cycle_status, supervise).        *)
(* Time is relative to the start of the generation, in polls of the runner. *)
EXTENDS Integers, Sequences, SequencesExt

CONSTANTS
    Attempt,    \* repair attempts: failure signature and head left behind
    Threshold,  \* struggle_same_signature_attempts
    MaxAttempts,
    Waits,      \* lengths of declared quota waits
    TailLines,  \* SUPERVISE_TAIL_LINES
    Wedge, Rotate, Backoff,
    Burst, Ceiling, Fallback,   \* the three rate limit cooldowns
    Resets,     \* waits a rate limit readback may imply, spent ones included
    MaxLines,   \* bound: lines begun or ended in a generation, declarations aside
    MaxNow      \* bound: the clock of a runner that is blocked on a line

ASSUME GenerationAssumption ==
    /\ \A a \in Attempt : DOMAIN a = {"signature", "head"}
    /\ Threshold \in Nat /\ Threshold >= 2
    /\ {MaxAttempts, Wedge, Rotate, MaxLines, MaxNow} \subseteq Nat
    /\ {TailLines, Backoff, Burst, Ceiling, Fallback} \subseteq Nat \ {0}
    /\ Waits \subseteq Nat /\ Resets \subseteq Int

Line == [kind : {"text", "rate", "struggle"}, wait : {0}]
            \cup [kind : {"wait"}, wait : Waits]

Text == [kind |-> "text", wait |-> 0]

VARIABLES
    history,  \* the child: repair attempts of the subject it has counted
    child,    \* up, asked (it was sent SIGTERM) or ended
    rc,       \* its return code, once it ended
    held,     \* a process it left behind still holds the pipe
    shut,     \* the child closed its output and lives on
    printed,  \* lines and beginnings of lines so far, declarations aside
    pipe,     \* the whole lines that the kernel holds
    buf,      \* those that readline fetched and did not return yet
    piece,    \* what was printed ends in a line without its end: no, or where
              \* its last part is, in the pipe or in buf.  It declares nothing
    now, passed,  \* the clock, and whether the runner looked at it already
    run,      \* the runner: its step and the locals of its generation
    said, older, until, \* history: time of the last output, of the last output
                        \* before this poll, end of the last declared wait, and
    late                \* the longest that a line kept the runner blocked

offspring == <<history, child, rc, held, shut, printed>>
world == <<pipe, piece, now, passed, said, older, until, late>>
vars == <<offspring, world, buf, run>>

Fresh == [pc |-> "start", reason |-> "exited", last |-> 0, looked |-> 0, quota |-> 0,
          declared |-> 0, struggle |-> FALSE, tail |-> <<>>, flooded |-> FALSE,
          status |-> "none", cooldown |-> 0]

TypeOK ==
    /\ history \in Seq(Attempt) /\ Len(history) <= MaxAttempts
    /\ child \in {"up", "asked", "ended"} /\ rc \in {0, 1}
    /\ held \in BOOLEAN /\ shut \in BOOLEAN /\ passed \in BOOLEAN
    /\ printed \in 0..MaxLines
    /\ pipe \in Seq(Line) /\ buf \in Seq(Line) /\ run.tail \in Seq(Line)
    /\ Len(run.tail) <= TailLines /\ piece \in {"no", "pipe", "buf"}
    /\ {now, said, older, until, late, run.last, run.looked, run.quota, run.declared,
        run.cooldown} \subseteq Nat
    /\ run.pc \in {"start", "top", "select", "reading", "grace", "stop", "term", "drain",
                  "status", "sleep", "dead"}
    /\ run.reason \in {"exited", "rotation", "wedge", "output_closed"}
    /\ run.status \in {"none", "ok", "quota_wait", "struggle_detected", "failed"}
    /\ child # "ended" => ~held

Init ==
    /\ run = Fresh
    /\ history = <<>> /\ child = "up" /\ rc = 0 /\ held = FALSE /\ shut = FALSE
    /\ printed = 0 /\ pipe = <<>> /\ buf = <<>> /\ piece = "no" /\ now = 0 /\ passed = FALSE
    /\ said = 0 /\ older = 0 /\ until = 0 /\ late = 0

At(pc) == run.pc = pc
Open == (child # "ended" /\ ~shut) \/ held
Running == run.pc \notin {"start", "status", "sleep", "dead"}
MaxOf(a, b) == IF a >= b THEN a ELSE b

-----------------------------------------------------------------------------
(* The child and what it leaves behind.                                     *)

(* The branch head is back on a commit it had left.                         *)
Returned(h) ==
    LET n == Len(h) IN
    /\ n >= 3 /\ h[n].head # h[n - 1].head
    /\ \E i \in 1..(n - 2) : h[i].head = h[n].head

(* The trailing attempts share one signature.                               *)
Repeated(h) ==
    LET n == Len(h) IN
    n >= Threshold /\ \A i \in (n - Threshold + 1)..n : h[i].signature = h[n].signature

\* Mutant of StruggleVerdict: off by one.
LateVerdict(h) == Returned(h) \/ (Len(h) > Threshold /\ Repeated(h))

StruggleVerdict(h) == Returned(h) \/ Repeated(h)

Says(lines, kind) == \E i \in 1..Len(lines) : lines[i].kind = kind

(* When the last wait that was declared ends.                               *)
Until(lines) ==
    LET waits == {i \in 1..Len(lines) : lines[i].kind = "wait"} IN
    IF waits = {} THEN {until}
    ELSE {now + lines[i].wait : i \in {i \in waits : \A j \in waits : j <= i}}

(* Whole lines, the first of which ends the line that had none, and then,   *)
(* if torn, the beginning of another.                                       *)
Printing(lines, torn) ==
    /\ Running /\ Open
    /\ pipe' = pipe \o lines
    /\ piece' = IF torn THEN "pipe" ELSE IF lines = <<>> THEN piece ELSE "no"
    /\ said' = now
    /\ until' \in Until(lines)
    /\ UNCHANGED <<now, passed, older, late>>

(* One poll of the child finds a repair attempt it has not counted; the     *)
(* attempt that makes the subject a struggle is declared, and the subject   *)
(* is counted no more.                                                      *)
RepairCounted(a) ==
    /\ child # "ended" /\ ~shut /\ Len(history) < MaxAttempts
    /\ ~StruggleVerdict(history)
    /\ history' = Append(history, a)
    /\ IF StruggleVerdict(history')
       THEN Printing(<<[kind |-> "struggle", wait |-> 0]>>, FALSE)
       ELSE Running /\ UNCHANGED world
    /\ UNCHANGED <<child, rc, held, shut, printed, buf, run>>

(* Any process of the generation prints up to two lines at once, and may    *)
(* leave off in the middle of the next.                                     *)
Prints ==
    \E k \in 0..2, torn \in BOOLEAN : \E burst \in [1..k -> {l \in Line : l.kind # "struggle"}] :
        /\ printed' = printed + k + (IF torn THEN 1 ELSE 0)
        /\ printed < printed' /\ printed' <= MaxLines
        /\ Printing(burst, torn)
        /\ UNCHANGED <<history, child, rc, held, shut, buf, run>>

(* The child ends, on its own or as asked; the daemon may outlive it.       *)
ChildEnds ==
    /\ Running /\ child # "ended"
    /\ child' = "ended" /\ rc' \in {0, 1}
    /\ held' \in (IF shut THEN {FALSE} ELSE BOOLEAN)
    /\ UNCHANGED <<history, shut, printed, world, buf, run>>

ChildShuts ==
    /\ Running /\ child # "ended" /\ ~shut
    /\ shut' = TRUE
    /\ UNCHANGED <<history, child, rc, held, printed, world, buf, run>>

OrphanEnds ==
    /\ Running /\ held /\ held' = FALSE
    /\ UNCHANGED <<history, child, rc, shut, printed, world, buf, run>>

(* The runner is blocked in readline: somebody may still end the line.      *)
Hung == At("reading") /\ pipe = <<>> /\ Open

(* select blocks for at most one poll, readline for as long as it takes.    *)
Tick ==
    /\ (At("select") /\ passed) \/ (Hung /\ now < MaxNow)
    /\ now' = now + 1 /\ passed' = FALSE /\ older' = said
    /\ UNCHANGED <<pipe, piece, said, until, late, offspring, buf, run>>

-----------------------------------------------------------------------------
(* The runner.                                                              *)

Rest(cooldown, status) == [Fresh EXCEPT !.pc = "sleep", !.status = status, !.cooldown = cooldown]

(* The heal or the token command raises: a failed cycle.                    *)
HealFails ==
    /\ At("start") /\ run' = Rest(Backoff, "failed")
    /\ UNCHANGED <<offspring, world, buf>>

Spawn ==
    /\ At("start") /\ run' = [run EXCEPT !.pc = "top"]
    /\ UNCHANGED <<offspring, world, buf>>

(* The reading is over, and with it the deadlines.                          *)
Stopped(reason) == [run EXCEPT !.pc = "stop", !.reason = reason, !.last = 0, !.quota = 0]

Poll ==
    /\ At("top")
    /\ run' = IF child = "ended" THEN Stopped("exited") ELSE [run EXCEPT !.pc = "select"]
    /\ UNCHANGED <<offspring, world, buf>>

\* Mutant of Rotates: the deadline is counted from the last output.
RotatesQuiet == now - run.last >= Rotate

Rotates == now >= Rotate
Wedges == now - run.last >= Wedge /\ now >= run.quota

Deadline ==
    /\ At("select") /\ (Rotates \/ Wedges)
    /\ run' = Stopped(IF Rotates THEN "rotation" ELSE "wedge")
    /\ UNCHANGED <<offspring, world, buf>>

InTime == At("select") /\ ~Rotates /\ ~Wedges
Ready == pipe # <<>> \/ piece = "pipe" \/ ~Open

SelectIdle ==
    /\ InTime /\ ~Ready /\ ~passed
    /\ passed' = TRUE
    /\ run' = [run EXCEPT !.pc = "top"]
    /\ UNCHANGED <<pipe, piece, now, said, older, until, late, offspring, buf>>

KeepLast(s) == IF Len(s) > TailLines THEN SubSeq(s, Len(s) - TailLines + 1, Len(s)) ELSE s

\* Mutant of Heard: declarations are taken off the tail alone.
HeardTail(r, l, look) == [r EXCEPT !.tail = KeepLast(Append(@, l)), !.last = look]

(* What one line tells the runner, which last looked at the clock at look.  *)
Heard(r, l, look) ==
    [r EXCEPT !.tail = KeepLast(Append(@, l)),
              !.last = look,
              !.declared = IF l.kind = "wait" THEN l.wait ELSE @,
              !.quota = IF l.kind = "wait" THEN look + l.wait ELSE @,
              !.struggle = @ \/ l.kind = "struggle"]

Piece == IF piece = "no" THEN <<>> ELSE <<Text>>

(* readline returns what it has, and otherwise fetches all the pipe holds;  *)
(* the line without its end is one when nobody is left to end it.           *)
Returns(look) ==
    LET lines == IF buf # <<>> THEN buf ELSE IF pipe # <<>> THEN pipe
                 ELSE IF Open THEN <<>> ELSE Piece IN
    /\ lines # <<>>
    /\ buf' = Tail(lines)
    /\ pipe' = IF buf = <<>> THEN <<>> ELSE pipe
    /\ piece' = IF buf # <<>> \/ piece = "no" THEN piece
                ELSE IF pipe # <<>> THEN "buf" ELSE "no"
    /\ passed' = (now = look)
    /\ late' = MaxOf(late, now - look)
    /\ run' = [Heard(run, lines[1], look) EXCEPT !.pc = "top", !.looked = 0]
    /\ UNCHANGED <<now, said, older, until, offspring>>

ReadLine == InTime /\ Ready /\ Returns(now)

(* There is only the beginning of a line: readline waits for its end, and   *)
(* nobody looks at the deadlines or at the child meanwhile.                 *)
ReadBlocks ==
    /\ InTime /\ piece = "pipe" /\ pipe = <<>> /\ buf = <<>> /\ Open
    /\ piece' = "buf"
    /\ run' = [run EXCEPT !.pc = "reading", !.looked = now]
    /\ UNCHANGED <<pipe, now, passed, said, older, until, late, offspring, buf>>

(* The line has its end, or its last writer has ended: what the clock said  *)
(* before the wait is when the line counts as heard.                        *)
ReadResumes == At("reading") /\ Returns(run.looked)

ReadEnd ==
    /\ InTime /\ ~Open /\ pipe = <<>> /\ buf = <<>> /\ piece = "no"
    /\ run' = [run EXCEPT !.pc = "grace"]
    /\ UNCHANGED <<offspring, world, buf>>

(* SUPERVISE_TERMINATE_GRACE for a child whose output ended.                *)
Grace ==
    /\ At("grace")
    /\ run' = Stopped(IF child = "ended" THEN "exited" ELSE "output_closed")
    /\ UNCHANGED <<offspring, world, buf>>

Terminate ==
    /\ At("stop")
    /\ run' = [run EXCEPT !.pc = IF child = "ended" THEN "drain" ELSE "term"]
    /\ child' = IF child = "ended" THEN child ELSE "asked"
    /\ UNCHANGED <<history, rc, held, shut, printed, world, buf>>

\* Mutant of Kill: the runner waits for the child.
KillNot ==
    /\ At("term") /\ child = "ended"
    /\ run' = [run EXCEPT !.pc = "drain"]
    /\ UNCHANGED <<offspring, world, buf>>

(* The second grace period ends with the child, or with its being killed.   *)
Kill ==
    /\ At("term")
    /\ run' = [run EXCEPT !.pc = "drain"]
    /\ child' = "ended"
    /\ IF child = "ended" THEN UNCHANGED <<rc, held>>
       ELSE rc' = 1 /\ held' \in (IF shut THEN {FALSE} ELSE BOOLEAN)
    /\ UNCHANGED <<history, shut, printed, world, buf>>

WaitsIn(s) == {s[i].wait : i \in {j \in 1..Len(s) : s[j].kind = "wait"}}

(* The non-blocking read of what is left: with nothing in the pipe and      *)
(* somebody holding its other end it raises, what was buffered included.    *)
Drain ==
    /\ At("drain")
    /\ IF pipe = <<>> /\ piece # "pipe" /\ held
       THEN run' = [run EXCEPT !.pc = "dead"]
       ELSE LET left == buf \o pipe \o Piece
                tail == KeepLast(run.tail \o left)
                declared == {run.declared} \cup WaitsIn(tail)
            IN \E longest \in declared :
                  /\ \A w \in declared : longest >= w
                  /\ run' = [run EXCEPT
                        !.pc = "status",
                        !.tail = tail,
                        !.flooded = Len(left) > TailLines,
                        !.declared = longest,
                        !.struggle = @ \/ Says(tail, "struggle")]
    /\ pipe' = <<>> /\ buf' = <<>> /\ piece' = "no"
    /\ UNCHANGED <<now, passed, said, older, until, late, offspring>>

RateLimited == rc # 0 /\ Says(run.tail, "rate")

\* Mutant of RateLimitCooldown: a reset in the past is taken as it is.
RateLimitRaw(full, wait) == IF full THEN Burst ELSE IF wait < Ceiling THEN MaxOf(wait, 0) ELSE Fallback

(* A full bucket means secondary limiting; a spent or far reset falls back. *)
RateLimitCooldown(full, wait) ==
    IF full THEN Burst ELSE IF 0 < wait /\ wait < Ceiling THEN wait ELSE Fallback

Classified(status, cooldown) == run' = [run EXCEPT !.pc = "sleep", !.status = status, !.cooldown = cooldown]

CycleStatus ==
    /\ At("status")
    /\ IF rc = 0 /\ run.reason = "exited" /\ ~run.struggle THEN Classified("ok", 0)
       ELSE IF run.declared > 0 THEN Classified("quota_wait", run.declared)
       ELSE IF RateLimited
       THEN \/ \E full \in BOOLEAN, wait \in Resets :
                    Classified("quota_wait", RateLimitCooldown(full, wait))
            \/ run' = [run EXCEPT !.pc = "dead"]     \* the readback raises
       ELSE IF run.struggle THEN Classified("struggle_detected", Backoff)
       ELSE Classified("failed", IF rc # 0 /\ run.reason = "exited" THEN Backoff ELSE 0)
    /\ UNCHANGED <<offspring, world, buf>>

(* The receipt is logged, the runner sleeps, the next generation is new.    *)
Sleep ==
    /\ At("sleep") /\ run' = Fresh
    /\ history' = <<>> /\ child' = "up" /\ rc' = 0 /\ held' = FALSE /\ shut' = FALSE
    /\ printed' = 0 /\ pipe' = <<>> /\ buf' = <<>> /\ piece' = "no" /\ now' = 0 /\ passed' = FALSE
    /\ said' = 0 /\ older' = 0 /\ until' = 0 /\ late' = 0

RunnerStep ==
    \/ HealFails \/ Spawn \/ Poll \/ Deadline \/ SelectIdle \/ ReadLine \/ ReadBlocks
    \/ ReadResumes \/ ReadEnd \/ Grace \/ Terminate \/ Kill \/ Drain \/ CycleStatus \/ Sleep

Next ==
    \/ \E a \in Attempt : RepairCounted(a)
    \/ Prints \/ ChildEnds \/ ChildShuts \/ OrphanEnds \/ Tick
    \/ RunnerStep

Spec == Init /\ [][Next]_vars

(* The runner is one thread that always goes on, and time passes.           *)
FairSpec == Spec /\ WF_vars(RunnerStep) /\ WF_vars(Tick)
-----------------------------------------------------------------------------
(* The runner ends a generation in time and not before.  Time passes its    *)
(* rotation only while the runner is blocked in readline, on a line without *)
(* its end that somebody may still end, and no line is read after it,       *)
(* however many there are.  It is killed as wedged only when it printed     *)
(* nothing for as long, the last poll aside, whose lines may come too late, *)
(* and the last wait it declared is over or among the lines that the runner *)
(* has not read - within the time that readline kept the runner from the    *)
(* clock (noodles.py:4167-4179).                                            *)
EndedInTime ==
    [][/\ now' > now => now' <= Rotate \/ (At("reading") /\ buf \o pipe = <<>> /\ piece # "no" /\ Open)
       /\ At("select") /\ now >= Rotate /\ run' # run => run'.reason = "rotation"
       /\ At("select") /\ run'.pc = "stop" /\ run'.reason = "wedge"
            => /\ older + Wedge <= now + late \/ older + 1 = now
               /\ until <= now + late \/ Says(buf \o pipe, "wait")]_vars

(* What the attempts themselves say: the same failure Threshold times in a  *)
(* row, or a head that was left and came back.                              *)
NoEvidence ==
    \/ \E i \in 0..(Len(history) - Threshold) :
          \A j \in 1..Threshold : history[i + j].signature = history[i + 1].signature
    \/ \E i, j, k \in 1..Len(history) :
          i < j /\ j < k /\ history[i].head = history[k].head /\ history[j].head # history[k].head

(* A generation whose attempts stopped producing evidence says so on its    *)
(* receipt and is never a clean one, and no other generation is blamed -    *)
(* unless what was left in the pipe at its end was more than the tail keeps *)
(* (noodles.py:4153-4160, 4101-4117).                                       *)
StruggleOnReceipt ==
    run.pc \in {"status", "sleep"} /\ ~run.flooded /\ history # <<>>
        => /\ run.struggle <=> NoEvidence
           /\ NoEvidence => run.status # "ok"

(* A generation that ended over the provider's budget is followed by a      *)
(* wait, one that lasts as long as the wait it declared last - and, where   *)
(* it declared none, no longer than the longest of the three cooldowns,     *)
(* whatever reset is read back (noodles.py:4077-4087, 4110-4114).           *)
QuotaIsWaited ==
    At("sleep") /\ run.status = "quota_wait"
        => /\ run.cooldown > 0 /\ (~run.flooded => now + run.cooldown >= until)
           /\ run.declared = 0 => \E c \in {Burst, Ceiling, Fallback} : run.cooldown <= c

(* Generation follows generation, whatever the child does with its signals  *)
(* and its children - unless the runner itself is dead, or is left for good *)
(* in a readline whose line nobody ends and nobody closes.                  *)
GenerationsGoOn == []<>(At("start") \/ At("dead")) \/ <>[]Hung
=============================================================================
