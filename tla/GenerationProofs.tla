--------------------------- MODULE GenerationProofs ---------------------------
(* What is proved of Generation, for every deadline, wait and number of     *)
(* lines: the runner's readings are typed, it ends a generation in time and *)
(* not before, and what the child declared of its struggle and its waits is *)
(* on the receipt - or among the lines that the runner has not read yet.    *)
EXTENDS Generation, SequenceTheorems, TLAPS

USE GenerationAssumption

-----------------------------------------------------------------------------
(***************************************************************************)
(* Type correctness, by the parts of the state.                            *)
(***************************************************************************)

Pcs == {"start", "top", "select", "reading", "grace", "stop", "term", "drain", "status", "sleep", "dead"}
Reasons == {"exited", "rotation", "wedge", "output_closed"}
Statuses == {"none", "ok", "quota_wait", "struggle_detected", "failed"}

Local == [pc : Pcs, reason : Reasons, last : Nat, looked : Nat, quota : Nat, declared : Nat,
          struggle : BOOLEAN, tail : Seq(Line), flooded : BOOLEAN,
          status : Statuses, cooldown : Nat]
RunTyped == run \in Local /\ Len(run.tail) <= TailLines

LinesTyped == pipe \in Seq(Line) /\ buf \in Seq(Line) /\ piece \in {"no", "pipe", "buf"}
ClockTyped == now \in Nat /\ said \in Nat /\ older \in Nat /\ until \in Nat /\ late \in Nat
FlagTyped == passed \in BOOLEAN
ChildTyped ==
    /\ history \in Seq(Attempt) /\ Len(history) <= MaxAttempts
    /\ child \in {"up", "asked", "ended"} /\ rc \in {0, 1}
    /\ held \in BOOLEAN /\ shut \in BOOLEAN
    /\ printed \in 0..MaxLines
    /\ child # "ended" => ~held

Typed == RunTyped /\ LinesTyped /\ ClockTyped /\ FlagTyped /\ ChildTyped

LEMMA TypedIsTypeOK == Typed => TypeOK
  BY DEF Typed, RunTyped, Local, LinesTyped, ClockTyped, FlagTyped, ChildTyped, TypeOK, Pcs, Reasons, Statuses

LEMMA FreshTyped ==
  Fresh \in Local /\ Fresh.tail = <<>>
  BY DEF Local, Fresh, Pcs, Reasons, Statuses

LEMMA InitTyped == Init => Typed
  <1> SUFFICES ASSUME Init PROVE Typed
    OBVIOUS
  <1>1. RunTyped
    BY FreshTyped DEF Init, RunTyped
  <1>2. LinesTyped
    BY DEF Init, LinesTyped
  <1>3. ClockTyped
    BY DEF Init, ClockTyped
  <1>4. FlagTyped
    BY Zenon DEF Init, FlagTyped
  <1>5. ChildTyped
    <2>1. history \in Seq(Attempt) /\ Len(history) <= MaxAttempts /\ printed \in 0..MaxLines
      BY DEF Init
    <2>2. held \in BOOLEAN /\ shut \in BOOLEAN
      BY Zenon DEF Init
    <2> QED
      BY <2>1, <2>2 DEF Init, ChildTyped
  <1> QED
    BY <1>1, <1>2, <1>3, <1>4, <1>5 DEF Typed

LEMMA LineTyped ==
  ASSUME NEW l \in Line
  PROVE  l.wait \in Nat
  <1>1. CASE l \in [kind : {"text", "rate", "struggle"}, wait : {0}]
    BY <1>1
  <1>2. CASE l \in [kind : {"wait"}, wait : Waits]
    BY <1>2
  <1> QED
    BY <1>1, <1>2 DEF Line

LEMMA PieceTyped == Piece \in Seq(Line)
  <1>1. Text \in Line
    BY DEF Text, Line
  <1>2. <<Text>> \in Seq(Line) /\ <<>> \in Seq(Line)
    BY <1>1
  <1> HIDE DEF Line
  <1> QED
    BY <1>2 DEF Piece

\* How long a line kept the runner blocked only grows.
LEMMA LateGrows ==
  ASSUME NEW a \in Nat, NEW b \in Nat, NEW look \in Nat
  PROVE  /\ MaxOf(a, b - look) \in Nat
         /\ a <= MaxOf(a, b - look) /\ b <= look + MaxOf(a, b - look)
  BY DEF MaxOf

LEMMA Within ==
  ASSUME NEW a \in Nat, NEW b \in Nat, NEW c \in Nat, NEW d \in Nat, a <= b, b <= c + d
  PROVE  a <= c + d
  OBVIOUS

LEMMA Later ==
  ASSUME NEW a \in Nat, NEW b \in Nat, NEW c \in Nat, NEW d \in Nat, a <= b + c, c <= d
  PROVE  a <= b + d
  OBVIOUS

LEMMA Earlier ==
  ASSUME NEW a \in Nat, NEW b \in Nat, NEW c \in Nat, NEW d \in Nat, NEW w \in Nat,
         a <= b + w, b <= c + d
  PROVE  a <= c + w + d
  OBVIOUS

LEMMA KeepLastTyped ==
  ASSUME NEW s \in Seq(Line)
  PROVE  KeepLast(s) \in Seq(Line) /\ Len(KeepLast(s)) <= TailLines
  <1> DEFINE first == Len(s) - TailLines + 1
  <1>1. CASE Len(s) > TailLines
    <2>1. first \in 1..Len(s) /\ Len(s) - first + 1 = TailLines
      BY <1>1, SMTT(30)
    <2>2. SubSeq(s, first, Len(s)) \in Seq(Line) /\ Len(SubSeq(s, first, Len(s))) = Len(s) - first + 1
      BY <2>1, SMTT(30)
    <2> QED
      BY <1>1, <2>1, <2>2, SMTT(30) DEF KeepLast
  <1>2. CASE ~(Len(s) > TailLines)
    BY <1>2 DEF KeepLast
  <1> QED
    BY <1>1, <1>2

-----------------------------------------------------------------------------
LEMMA UntilTyped ==
  ASSUME Typed, NEW lines \in Seq(Line)
  PROVE  Until(lines) \subseteq Nat
  <1>1. \A i \in 1..Len(lines) : lines[i].wait \in Nat
    BY LineTyped
  <1>2. now \in Nat /\ until \in Nat
    BY DEF Typed, ClockTyped
  <1>3. \A n \in Until(lines) :
           n = until \/ \E i \in 1..Len(lines) : n = now + lines[i].wait
    BY DEF Until
  <1>4. \A i \in 1..Len(lines) : now + lines[i].wait \in Nat
    BY <1>1, <1>2, SMTT(30)
  <1> QED
    BY <1>2, <1>3, <1>4

LEMMA PrintingTyped ==
  ASSUME Typed, NEW lines \in Seq(Line), NEW torn, Printing(lines, torn)
  PROVE  pipe' \in Seq(Line) /\ piece' \in {"no", "pipe", "buf"} /\ ClockTyped' /\ FlagTyped'
  <1>1. pipe' \in Seq(Line) /\ piece' \in {"no", "pipe", "buf"}
    BY DEF Typed, LinesTyped, Printing
  <1>2. ClockTyped'
    BY UntilTyped DEF Typed, ClockTyped, Printing
  <1>3. FlagTyped'
    BY Zenon DEF Typed, FlagTyped, Printing
  <1> QED
    BY <1>1, <1>2, <1>3

LEMMA ChildStepTyped ==
  ASSUME Typed,
         ChildEnds \/ ChildShuts \/ OrphanEnds \/ Tick
  PROVE  Typed'
  <1> USE DEF Typed, LinesTyped, ClockTyped, FlagTyped, ChildTyped, RunTyped
  <1>1. CASE ChildEnds
    BY <1>1 DEF ChildEnds, world
  <1>2. CASE ChildShuts
    BY <1>2 DEF ChildShuts, world
  <1>3. CASE OrphanEnds
    BY <1>3 DEF OrphanEnds, world
  <1>4. CASE Tick
    <2>1. RunTyped' /\ LinesTyped' /\ ChildTyped'
      BY <1>4 DEF Tick, offspring
    <2>2. ClockTyped'
      BY <1>4 DEF Tick
    <2>3. FlagTyped'
      BY <1>4, Zenon DEF Tick
    <2> HIDE DEF LinesTyped, ClockTyped, FlagTyped, ChildTyped, RunTyped
    <2> QED
      BY <2>1, <2>2, <2>3
  <1> QED
    BY <1>1, <1>2, <1>3, <1>4

LEMMA PrintsTyped ==
  ASSUME Typed, Prints \/ \E a \in Attempt : RepairCounted(a)
  PROVE  Typed'
  <1>1. CASE Prints
    <2>0. PICK k \in 0..2, torn \in BOOLEAN : \E burst \in [1..k -> {l \in Line : l.kind # "struggle"}] :
             /\ printed' = printed + k + (IF torn THEN 1 ELSE 0) /\ printed' <= MaxLines
             /\ Printing(burst, torn)
      BY <1>1 DEF Prints
    <2>1. PICK burst \in [1..k -> {l \in Line : l.kind # "struggle"}] :
             /\ printed' = printed + k + (IF torn THEN 1 ELSE 0) /\ printed' <= MaxLines
             /\ Printing(burst, torn)
      BY <2>0
    <2>2. burst \in Seq(Line)
      BY <2>1
    <2>5. pipe' \in Seq(Line) /\ piece' \in {"no", "pipe", "buf"} /\ ClockTyped' /\ FlagTyped'
      BY <2>1, <2>2, PrintingTyped
    <2>6. printed' \in 0..MaxLines
      BY <2>1 DEF Typed, ChildTyped
    <2>7. UNCHANGED <<history, child, rc, held, shut, buf, run>>
      BY <1>1 DEF Prints
    <2> QED
      BY <2>5, <2>6, <2>7 DEF Typed, RunTyped, LinesTyped, ChildTyped
  <1>2. ASSUME NEW a \in Attempt, RepairCounted(a) PROVE Typed'
    <2>1. /\ history' = Append(history, a) /\ Len(history) < MaxAttempts
          /\ UNCHANGED <<child, rc, held, shut, printed, buf, run>>
      BY <1>2 DEF RepairCounted
    <2>2. ChildTyped'
      BY <2>1 DEF Typed, ChildTyped
    <2>3. <<[kind |-> "struggle", wait |-> 0]>> \in Seq(Line)
      BY DEF Line
    <2>4. pipe' \in Seq(Line) /\ piece' \in {"no", "pipe", "buf"} /\ ClockTyped' /\ FlagTyped'
      <3>1. CASE Printing(<<[kind |-> "struggle", wait |-> 0]>>, FALSE)
        BY <2>3, <3>1, PrintingTyped
      <3>2. CASE UNCHANGED world
        BY <3>2 DEF world, Typed, LinesTyped, ClockTyped, FlagTyped
      <3> QED
        BY <1>2, <3>1, <3>2 DEF RepairCounted
    <2> QED
      BY <2>1, <2>2, <2>4 DEF Typed, RunTyped, LinesTyped
  <1> QED
    BY <1>1, <1>2

-----------------------------------------------------------------------------
\* A record of locals stays one, whichever of its fields is set.
LEMMA LocalSet ==
  ASSUME NEW r \in Local
  PROVE  /\ \A v \in Pcs : [r EXCEPT !.pc = v] \in Local /\ [r EXCEPT !.pc = v].tail = r.tail
         /\ \A v \in Reasons : [r EXCEPT !.reason = v] \in Local
                                  /\ [r EXCEPT !.reason = v].tail = r.tail
         /\ \A v \in Nat : /\ [r EXCEPT !.last = v] \in Local /\ [r EXCEPT !.last = v].tail = r.tail
                           /\ [r EXCEPT !.looked = v] \in Local /\ [r EXCEPT !.looked = v].tail = r.tail
                           /\ [r EXCEPT !.quota = v] \in Local /\ [r EXCEPT !.quota = v].tail = r.tail
                           /\ [r EXCEPT !.declared = v] \in Local
                           /\ [r EXCEPT !.declared = v].tail = r.tail
                           /\ [r EXCEPT !.cooldown = v] \in Local
                           /\ [r EXCEPT !.cooldown = v].tail = r.tail
         /\ \A v \in BOOLEAN : /\ [r EXCEPT !.struggle = v] \in Local
                               /\ [r EXCEPT !.struggle = v].tail = r.tail
                               /\ [r EXCEPT !.flooded = v] \in Local
                               /\ [r EXCEPT !.flooded = v].tail = r.tail
         /\ \A v \in Seq(Line) : [r EXCEPT !.tail = v] \in Local /\ [r EXCEPT !.tail = v].tail = v
         /\ \A v \in Statuses : [r EXCEPT !.status = v] \in Local
                                   /\ [r EXCEPT !.status = v].tail = r.tail
  <1> USE DEF Local
  <1>1. \A v \in Pcs : [r EXCEPT !.pc = v] \in Local /\ [r EXCEPT !.pc = v].tail = r.tail
    OBVIOUS
  <1>2. \A v \in Reasons : [r EXCEPT !.reason = v] \in Local /\ [r EXCEPT !.reason = v].tail = r.tail
    OBVIOUS
  <1>3. \A v \in Nat : [r EXCEPT !.last = v] \in Local /\ [r EXCEPT !.last = v].tail = r.tail
    OBVIOUS
  <1>4. \A v \in Nat : [r EXCEPT !.quota = v] \in Local /\ [r EXCEPT !.quota = v].tail = r.tail
    OBVIOUS
  <1>5. \A v \in Nat : [r EXCEPT !.declared = v] \in Local /\ [r EXCEPT !.declared = v].tail = r.tail
    OBVIOUS
  <1>6. \A v \in Nat : [r EXCEPT !.cooldown = v] \in Local /\ [r EXCEPT !.cooldown = v].tail = r.tail
    OBVIOUS
  <1>7. \A v \in BOOLEAN : [r EXCEPT !.struggle = v] \in Local /\ [r EXCEPT !.struggle = v].tail = r.tail
    OBVIOUS
  <1>8. \A v \in BOOLEAN : [r EXCEPT !.flooded = v] \in Local /\ [r EXCEPT !.flooded = v].tail = r.tail
    OBVIOUS
  <1>9. \A v \in Seq(Line) : [r EXCEPT !.tail = v] \in Local /\ [r EXCEPT !.tail = v].tail = v
    OBVIOUS
  <1>10. \A v \in Statuses : [r EXCEPT !.status = v] \in Local /\ [r EXCEPT !.status = v].tail = r.tail
    OBVIOUS
  <1>11. \A v \in Nat : [r EXCEPT !.looked = v] \in Local /\ [r EXCEPT !.looked = v].tail = r.tail
    OBVIOUS
  <1> HIDE DEF Local
  <1> QED
    BY <1>1, <1>2, <1>3, <1>4, <1>5, <1>6, <1>7, <1>8, <1>9, <1>10, <1>11

LEMMA RestTyped ==
  ASSUME NEW cooldown \in Nat, NEW status \in Statuses
  PROVE  Rest(cooldown, status) \in Local /\ Rest(cooldown, status).tail = <<>>
  <1> DEFINE a == [Fresh EXCEPT !.pc = "sleep"]
             b == [a EXCEPT !.status = status]
  <1>1. Rest(cooldown, status) = [b EXCEPT !.cooldown = cooldown]
    BY DEF Rest
  <1>2. a \in Local /\ a.tail = <<>>
    BY FreshTyped, LocalSet DEF Pcs
  <1> HIDE DEF a
  <1>3. b \in Local /\ b.tail = <<>>
    BY <1>2, LocalSet
  <1> HIDE DEF b
  <1>4. [b EXCEPT !.cooldown = cooldown] \in Local /\ [b EXCEPT !.cooldown = cooldown].tail = <<>>
    BY <1>3, LocalSet
  <1> QED
    BY <1>1, <1>4

LEMMA StoppedTyped ==
  ASSUME Typed, NEW reason \in Reasons
  PROVE  Stopped(reason) \in Local /\ Stopped(reason).tail = run.tail
  <1> DEFINE a == [run EXCEPT !.pc = "stop"]
             b == [a EXCEPT !.reason = reason]
             c == [b EXCEPT !.last = 0]
  <1>1. Stopped(reason) = [c EXCEPT !.quota = 0]
    BY DEF Stopped
  <1>2. a \in Local /\ a.tail = run.tail
    BY LocalSet DEF Pcs, Typed, RunTyped
  <1> HIDE DEF a
  <1>3. b \in Local /\ b.tail = run.tail
    BY <1>2, LocalSet
  <1> HIDE DEF b
  <1>4. c \in Local /\ c.tail = run.tail
    BY <1>3, LocalSet
  <1> HIDE DEF c
  <1>5. [c EXCEPT !.quota = 0] \in Local /\ [c EXCEPT !.quota = 0].tail = run.tail
    BY <1>4, LocalSet
  <1> QED
    BY <1>1, <1>5

LEMMA HeardTyped ==
  ASSUME Typed, NEW l \in Line, NEW look \in Nat
  PROVE  Heard(run, l, look) \in Local /\ Len(Heard(run, l, look).tail) <= TailLines
  <1> DEFINE tail == KeepLast(Append(run.tail, l))
             declared == IF l.kind = "wait" THEN l.wait ELSE run.declared
             quota == IF l.kind = "wait" THEN look + l.wait ELSE run.quota
             struggle == run.struggle \/ l.kind = "struggle"
             a == [run EXCEPT !.tail = tail]
             b == [a EXCEPT !.last = look]
             c == [b EXCEPT !.declared = declared]
             d == [c EXCEPT !.quota = quota]
  <1>1. Heard(run, l, look) = [d EXCEPT !.struggle = struggle]
    BY DEF Heard
  <1>2. run \in Local /\ run.tail \in Seq(Line)
    BY DEF Typed, RunTyped, Local
  <1>3. tail \in Seq(Line) /\ Len(tail) <= TailLines
    <2>1. Append(run.tail, l) \in Seq(Line)
      BY <1>2
    <2> QED
      BY <2>1, KeepLastTyped
  <1>4. l.wait \in Nat
    BY LineTyped
  <1>5. declared \in Nat /\ quota \in Nat
    <2>1. run.declared \in Nat /\ run.quota \in Nat
      BY <1>2 DEF Local
    <2> QED
      BY <1>4, <2>1
  <1>6. struggle \in BOOLEAN
    BY <1>2 DEF Local
  <1> HIDE DEF tail, declared, quota, struggle
  <1>7. a \in Local /\ a.tail = tail
    BY <1>2, <1>3, LocalSet
  <1> HIDE DEF a
  <1>8. b \in Local /\ b.tail = tail
    BY <1>7, LocalSet
  <1> HIDE DEF b
  <1>9. c \in Local /\ c.tail = tail
    BY <1>5, <1>8, LocalSet
  <1> HIDE DEF c
  <1>10. d \in Local /\ d.tail = tail
    BY <1>5, <1>9, LocalSet
  <1> HIDE DEF d
  <1>11. [d EXCEPT !.struggle = struggle] \in Local /\ [d EXCEPT !.struggle = struggle].tail = tail
    BY <1>6, <1>10, LocalSet
  <1> QED
    BY <1>1, <1>3, <1>11

\* What readline returns is a line, and what it leaves are lines.
LEMMA ReturnsTyped ==
  ASSUME Typed, NEW look \in Nat, Returns(look)
  PROVE  Typed'
  <1> DEFINE lines == IF buf # <<>> THEN buf ELSE IF pipe # <<>> THEN pipe
                      ELSE IF Open THEN <<>> ELSE Piece
             h == Heard(run, lines[1], look)
             m == [h EXCEPT !.pc = "top"]
  <1>1. /\ lines # <<>> /\ buf' = Tail(lines) /\ pipe' = (IF buf = <<>> THEN <<>> ELSE pipe)
        /\ run' = [h EXCEPT !.pc = "top", !.looked = 0]
        /\ piece' = (IF buf # <<>> \/ piece = "no" THEN piece ELSE IF pipe # <<>> THEN "buf" ELSE "no")
        /\ passed' = (now = look) /\ late' = MaxOf(late, now - look)
        /\ UNCHANGED <<now, said, older, until, offspring>>
    BY DEF Returns
  <1>2. Piece \in Seq(Line)
    BY PieceTyped
  <1>3. lines \in Seq(Line)
    BY <1>2 DEF Typed, LinesTyped
  <1> HIDE DEF lines
  <1>4. lines[1] \in Line /\ Tail(lines) \in Seq(Line)
    BY <1>1, <1>3, SMTT(30)
  <1>5. LinesTyped'
    BY <1>1, <1>4 DEF Typed, LinesTyped
  <1>6. h \in Local /\ Len(h.tail) <= TailLines
    BY <1>4, HeardTyped
  <1> HIDE DEF h
  <1>7. m \in Local /\ m.tail = h.tail /\ run' = [m EXCEPT !.looked = 0]
    BY <1>1, <1>6, LocalSet DEF Pcs
  <1> HIDE DEF m
  <1>8. RunTyped'
    BY <1>6, <1>7, LocalSet DEF RunTyped
  <1>9. late' \in Nat
    BY <1>1, LateGrows DEF Typed, ClockTyped
  <1>10. ClockTyped'
    BY <1>1, <1>9 DEF Typed, ClockTyped
  <1>11. FlagTyped'
    BY <1>1, Zenon DEF FlagTyped
  <1>12. ChildTyped'
    BY <1>1 DEF Typed, ChildTyped, offspring
  <1> QED
    BY <1>5, <1>8, <1>10, <1>11, <1>12 DEF Typed

\* What a step of the runner leaves of the rest of the state.
LEMMA RunnerTyped ==
  ASSUME Typed, RunnerStep
  PROVE  Typed'
  <1> USE DEF At
  <1>1. run \in Local /\ Len(run.tail) <= TailLines /\ pipe \in Seq(Line) /\ buf \in Seq(Line)
    BY DEF Typed, RunTyped, LinesTyped
  <1>2. CASE HealFails
    <2>1. Rest(Backoff, "failed") \in Local /\ Rest(Backoff, "failed").tail = <<>>
      BY RestTyped DEF Statuses
    <2> QED
      BY <1>2, <2>1, SMTT(30) DEF HealFails, offspring, world, Typed, RunTyped, LinesTyped, ClockTyped,
                        FlagTyped, ChildTyped
  <1>3. CASE Spawn \/ Poll \/ Deadline \/ ReadEnd \/ Grace
    <2>1. \/ \E pc \in Pcs : run' = [run EXCEPT !.pc = pc]
          \/ \E reason \in Reasons : run' = Stopped(reason)
      BY <1>3 DEF Spawn, Poll, Deadline, ReadEnd, Grace, Pcs, Reasons
    <2>2. run' \in Local /\ run'.tail = run.tail
      <3>1. ASSUME NEW pc \in Pcs, run' = [run EXCEPT !.pc = pc]
            PROVE  run' \in Local /\ run'.tail = run.tail
        BY <1>1, <3>1, LocalSet
      <3>2. ASSUME NEW reason \in Reasons, run' = Stopped(reason)
            PROVE  run' \in Local /\ run'.tail = run.tail
        BY <3>2, StoppedTyped
      <3> QED
        BY <2>1, <3>1, <3>2
    <2>3. UNCHANGED <<offspring, world, buf>>
      BY <1>3 DEF Spawn, Poll, Deadline, ReadEnd, Grace
    <2> QED
      BY <1>1, <2>2, <2>3 DEF offspring, world, Typed, RunTyped, LinesTyped, ClockTyped,
                              FlagTyped, ChildTyped
  <1>4. CASE SelectIdle
    <2>1. run' \in Local /\ run'.tail = run.tail
      BY <1>1, <1>4, LocalSet DEF SelectIdle, Pcs
    <2>2. FlagTyped'
      BY <1>4, Zenon DEF SelectIdle, FlagTyped
    <2> QED
      BY <1>1, <1>4, <2>1, <2>2 DEF SelectIdle, offspring, Typed, RunTyped, LinesTyped, ClockTyped,
                                    ChildTyped
  <1>5. CASE ReadLine \/ ReadResumes
    <2>1. now \in Nat /\ run.looked \in Nat
      BY <1>1 DEF Local, Typed, ClockTyped
    <2> QED
      BY <1>5, <2>1, ReturnsTyped DEF ReadLine, ReadResumes
  <1>10. CASE ReadBlocks
    <2> DEFINE m == [run EXCEPT !.pc = "reading"]
    <2>1. m \in Local /\ m.tail = run.tail /\ now \in Nat
      BY <1>1, LocalSet DEF Pcs, Typed, ClockTyped
    <2>2. run' = [m EXCEPT !.looked = now]
      BY <1>10 DEF ReadBlocks
    <2> HIDE DEF m
    <2>3. [m EXCEPT !.looked = now] \in Local /\ [m EXCEPT !.looked = now].tail = m.tail
      BY <2>1, LocalSet
    <2>4. run' \in Local /\ run'.tail = run.tail
      BY <2>1, <2>2, <2>3
    <2> QED
      BY <1>1, <1>10, <2>4 DEF ReadBlocks, offspring, Typed, RunTyped, LinesTyped, ClockTyped,
                               FlagTyped, ChildTyped
  <1>6. CASE Terminate \/ Kill
    <2>1. run' \in Local /\ run'.tail = run.tail
      <3>1. \/ run' = [run EXCEPT !.pc = "drain"]
            \/ run' = [run EXCEPT !.pc = "term"]
        BY <1>6 DEF Terminate, Kill
      <3>2. \A v \in {"drain", "term"} :
               [run EXCEPT !.pc = v] \in Local /\ [run EXCEPT !.pc = v].tail = run.tail
        BY <1>1, LocalSet DEF Pcs
      <3> QED
        BY <3>1, <3>2, Zenon
    <2>2. ChildTyped'
      <3>1. CASE Terminate
        BY <3>1 DEF Terminate, Typed, ChildTyped
      <3>2. CASE Kill
        BY <3>2 DEF Kill, Typed, ChildTyped
      <3> QED
        BY <1>6, <3>1, <3>2
    <2> QED
      BY <1>1, <1>6, <2>1, <2>2 DEF Terminate, Kill, world, Typed, RunTyped, LinesTyped, ClockTyped,
                                    FlagTyped
  <1>7. CASE Drain
    <2>1. run' \in Local /\ Len(run'.tail) <= TailLines
      <3>1. CASE run' = [run EXCEPT !.pc = "dead"]
        BY <1>1, <3>1, LocalSet DEF Pcs
      <3>2. CASE run' # [run EXCEPT !.pc = "dead"]
        <4> DEFINE left == buf \o pipe \o Piece
                   tail == KeepLast(run.tail \o left)
                   declared == {run.declared} \cup WaitsIn(tail)
                   flooded == Len(left) > TailLines
                   struggle == run.struggle \/ Says(tail, "struggle")
        <4>1. PICK longest \in declared :
                 run' = [run EXCEPT !.pc = "status", !.tail = tail, !.flooded = flooded,
                                    !.declared = longest, !.struggle = struggle]
          BY <1>7, <3>2 DEF Drain
        <4> DEFINE a == [run EXCEPT !.pc = "status"]
                   b == [a EXCEPT !.tail = tail]
                   c == [b EXCEPT !.flooded = flooded]
                   d == [c EXCEPT !.declared = longest]
        <4>2. run' = [d EXCEPT !.struggle = struggle]
          BY <4>1
        <4>3. run.tail \in Seq(Line) /\ run.declared \in Nat /\ run.struggle \in BOOLEAN
          BY <1>1 DEF Local
        <4>0. Piece \in Seq(Line)
          BY PieceTyped
        <4>4. run.tail \o left \in Seq(Line)
          BY <1>1, <4>0, <4>3
        <4>5. tail \in Seq(Line) /\ Len(tail) <= TailLines
          BY <4>4, KeepLastTyped
        <4>6. \A i \in 1..Len(tail) : tail[i].wait \in Nat
          <5>1. \A i \in 1..Len(tail) : tail[i] \in Line
            BY <4>5
          <5> QED
            BY <5>1, LineTyped
        <4>7. longest \in Nat
          BY <4>3, <4>6 DEF WaitsIn
        <4>8. flooded \in BOOLEAN /\ struggle \in BOOLEAN /\ "status" \in Pcs
          BY <4>3 DEF Pcs
        <4> HIDE DEF left, tail, declared, flooded, struggle
        <4>9. a \in Local
          BY <1>1, <4>8, LocalSet
        <4> HIDE DEF a
        <4>10. b \in Local /\ b.tail = tail
          BY <4>5, <4>9, LocalSet
        <4> HIDE DEF b
        <4>11. c \in Local /\ c.tail = tail
          BY <4>8, <4>10, LocalSet
        <4> HIDE DEF c
        <4>12. d \in Local /\ d.tail = tail
          BY <4>7, <4>11, LocalSet
        <4> HIDE DEF d
        <4> QED
          BY <4>2, <4>5, <4>8, <4>12, LocalSet
      <3> QED
        BY <3>1, <3>2
    <2>2. /\ pipe' = <<>> /\ buf' = <<>> /\ piece' = "no"
          /\ UNCHANGED <<now, passed, said, older, until, late, offspring>>
      BY <1>7 DEF Drain
    <2> QED
      BY <2>1, <2>2 DEF offspring, Typed, RunTyped, LinesTyped, ClockTyped, FlagTyped, ChildTyped
  <1>8. CASE CycleStatus
    <2>1. run' \in Local /\ run'.tail = run.tail
      <3>1. ASSUME NEW status \in Statuses, NEW cooldown \in Nat, Classified(status, cooldown)
            PROVE  run' \in Local /\ run'.tail = run.tail
        <4> DEFINE a == [run EXCEPT !.pc = "sleep"]
                   b == [a EXCEPT !.status = status]
        <4>1. run' = [b EXCEPT !.cooldown = cooldown]
          BY <3>1 DEF Classified
        <4>2. a \in Local /\ a.tail = run.tail
          BY <1>1, LocalSet DEF Pcs
        <4> HIDE DEF a
        <4>3. b \in Local /\ b.tail = run.tail
          BY <4>2, LocalSet
        <4> HIDE DEF b
        <4> QED
          BY <4>1, <4>3, LocalSet, ZenonT(30)
      <3>2. CASE run' = [run EXCEPT !.pc = "dead"]
        BY <1>1, <3>2, LocalSet DEF Pcs
      <3>3. ASSUME NEW full \in BOOLEAN, NEW wait \in Resets
            PROVE  RateLimitCooldown(full, wait) \in Nat
        BY DEF RateLimitCooldown
      <3>4. run.declared \in Nat
        BY <1>1 DEF Local
      <3>5. \/ \E status \in Statuses, cooldown \in Nat : Classified(status, cooldown)
            \/ run' = [run EXCEPT !.pc = "dead"]
        BY <1>8, <3>3, <3>4 DEF CycleStatus, Statuses
      <3> QED
        BY <3>1, <3>2, <3>5
    <2> QED
      BY <1>1, <1>8, <2>1 DEF CycleStatus, offspring, world, Typed, RunTyped, LinesTyped, ClockTyped,
                              FlagTyped, ChildTyped
  <1>9. CASE Sleep
    <2>1. FlagTyped' /\ held' \in BOOLEAN /\ shut' \in BOOLEAN
      BY <1>9, Zenon DEF Sleep, FlagTyped
    <2>2. history' \in Seq(Attempt) /\ Len(history') <= MaxAttempts /\ printed' \in 0..MaxLines
      BY <1>9 DEF Sleep
    <2>3. ChildTyped'
      BY <1>9, <2>1, <2>2 DEF Sleep, ChildTyped
    <2> QED
      BY <1>9, <2>1, <2>3, FreshTyped DEF Sleep, Typed, RunTyped, LinesTyped, ClockTyped
  <1> QED
    BY <1>2, <1>3, <1>4, <1>5, <1>6, <1>7, <1>8, <1>9, <1>10 DEF RunnerStep

LEMMA NextTyped == Typed /\ [Next]_vars => Typed'
  <1> SUFFICES ASSUME Typed, [Next]_vars PROVE Typed'
    OBVIOUS
  <1>1. CASE UNCHANGED vars
    BY <1>1 DEF vars, offspring, world, Typed, RunTyped, LinesTyped, ClockTyped, FlagTyped,
                ChildTyped
  <1>2. CASE Next
    BY <1>2, PrintsTyped, ChildStepTyped, RunnerTyped DEF Next
  <1> QED
    BY <1>1, <1>2

\* Whatever the child prints, closes, leaves behind or survives, what the runner has
\* read and the tail it keeps have their types.
THEOREM TypeCorrect == Spec => []TypeOK
  BY InitTyped, NextTyped, TypedIsTypeOK, PTL DEF Spec

-----------------------------------------------------------------------------
(***************************************************************************)
(* Lines on their way: what a concatenation, a reading and a bounded tail  *)
(* keep.                                                                   *)
(***************************************************************************)

Left == buf \o pipe

LEMMA SaysConcat ==
  ASSUME NEW s \in Seq(Line), NEW t \in Seq(Line), NEW kind
  PROVE  Says(s \o t, kind) <=> Says(s, kind) \/ Says(t, kind)
  <1>1. /\ Len(s \o t) = Len(s) + Len(t)
        /\ \A i \in 1..Len(s) : (s \o t)[i] = s[i]
        /\ \A i \in 1..Len(t) : (s \o t)[Len(s) + i] = t[i]
    OBVIOUS
  <1>2. Says(s, kind) => Says(s \o t, kind)
    BY <1>1, SMTT(30) DEF Says
  <1>3. ASSUME Says(t, kind) PROVE Says(s \o t, kind)
    <2>1. PICK i \in 1..Len(t) : t[i].kind = kind
      BY <1>3 DEF Says
    <2>2. Len(s) + i \in 1..Len(s \o t) /\ (s \o t)[Len(s) + i] = t[i]
      BY <1>1
    <2> QED
      BY <2>1, <2>2 DEF Says
  <1>4. ASSUME Says(s \o t, kind) PROVE Says(s, kind) \/ Says(t, kind)
    <2>1. PICK i \in 1..Len(s \o t) : (s \o t)[i].kind = kind
      BY <1>4 DEF Says
    <2>2. CASE i \in 1..Len(s)
      BY <1>1, <2>1, <2>2 DEF Says
    <2>3. CASE i \notin 1..Len(s)
      <3>1. i - Len(s) \in 1..Len(t) /\ i = Len(s) + (i - Len(s))
        BY <1>1, <2>1, <2>3, SMTT(90)
      <3>2. (s \o t)[i] = t[i - Len(s)]
        BY <1>1, <3>1
      <3> QED
        BY <2>1, <3>1, <3>2 DEF Says
    <2> QED
      BY <2>2, <2>3
  <1> QED
    BY <1>2, <1>3, <1>4

LEMMA SaysOne ==
  ASSUME NEW l \in Line, NEW kind
  PROVE  Says(<<l>>, kind) <=> l.kind = kind
  BY DEF Says

\* A bounded tail says nothing that was not said.
LEMMA KeepLastIndex ==
  ASSUME NEW s \in Seq(Line)
  PROVE  LET cut == IF Len(s) > TailLines THEN Len(s) - TailLines ELSE 0
         IN  /\ cut \in Nat /\ Len(KeepLast(s)) = Len(s) - cut
             /\ \A i \in 1..Len(s) - cut : KeepLast(s)[i] = s[cut + i]
  <1>1. CASE Len(s) > TailLines
    <2> DEFINE cut == Len(s) - TailLines
    <2>1. cut \in Nat /\ cut + 1 \in 1..Len(s) /\ Len(s) - cut = TailLines /\ Len(s) \in Nat
      BY <1>1, SMTT(30)
    <2>2. KeepLast(s) = SubSeq(s, cut + 1, Len(s))
      BY <1>1 DEF KeepLast
    <2>4. cut = IF Len(s) > TailLines THEN Len(s) - TailLines ELSE 0
      BY <1>1
    <2> HIDE DEF cut
    <2>3. /\ Len(SubSeq(s, cut + 1, Len(s))) = Len(s) - cut
          /\ \A i \in 1..Len(s) - cut : SubSeq(s, cut + 1, Len(s))[i] = s[cut + i]
      <3> DEFINE first == cut + 1
                 last == Len(s)
      <3>1. /\ first \in Int /\ last \in Int /\ first <= last
            /\ last - first + 1 = Len(s) - cut
            /\ \A i \in 1..Len(s) - cut : first + i - 1 = cut + i
        BY <2>1
      <3>2. ASSUME NEW i \in first..last PROVE s[i] \in Line
        <4>1. i \in 1..Len(s)
          BY <2>1
        <4> QED
          BY <4>1, ElementOfSeq
      <3> HIDE DEF first, last
      <3>4. /\ Len(SubSeq(s, first, last)) = IF first <= last THEN last - first + 1 ELSE 0
            /\ \A i \in 1..last - first + 1 : SubSeq(s, first, last)[i] = s[first + i - 1]
        BY <3>1, <3>2, SubSeqProperties
      <3> QED
        BY <3>1, <3>4 DEF first, last
    <2> QED
      BY <2>1, <2>2, <2>3, <2>4
  <1>2. CASE ~(Len(s) > TailLines)
    BY <1>2 DEF KeepLast
  <1> QED
    BY <1>1, <1>2

LEMMA KeepLastSays ==
  ASSUME NEW s \in Seq(Line), NEW kind, Says(KeepLast(s), kind)
  PROVE  Says(s, kind)
  <1>1. PICK i \in 1..Len(KeepLast(s)) : KeepLast(s)[i].kind = kind
    BY DEF Says
  <1>2. PICK cut \in Nat : /\ Len(KeepLast(s)) = Len(s) - cut
                           /\ \A j \in 1..Len(s) - cut : KeepLast(s)[j] = s[cut + j]
    BY KeepLastIndex
  <1>3. cut + i \in 1..Len(s) /\ KeepLast(s)[i] = s[cut + i]
    BY <1>1, <1>2, SMTT(30)
  <1> QED
    BY <1>1, <1>3 DEF Says

\* It holds every line of a last part that fits.
LEMMA KeepLastEnd ==
  ASSUME NEW s \in Seq(Line), NEW t \in Seq(Line), Len(t) <= TailLines, NEW i \in 1..Len(t)
  PROVE  \E j \in 1..Len(KeepLast(s \o t)) : KeepLast(s \o t)[j] = t[i]
  <1> DEFINE u == s \o t
             cut == IF Len(u) > TailLines THEN Len(u) - TailLines ELSE 0
  <1>1. u \in Seq(Line) /\ Len(u) = Len(s) + Len(t) /\ u[Len(s) + i] = t[i]
    OBVIOUS
  <1> HIDE DEF u
  <1>2. /\ cut \in Nat /\ Len(KeepLast(u)) = Len(u) - cut
        /\ \A j \in 1..Len(u) - cut : KeepLast(u)[j] = u[cut + j]
    BY <1>1, KeepLastIndex
  <1>3. cut <= Len(s) /\ Len(s) \in Nat /\ Len(t) \in Nat
    BY <1>1, SMTT(30)
  <1> HIDE DEF cut
  <1>4. Len(s) + i - cut \in 1..Len(u) - cut /\ cut + (Len(s) + i - cut) = Len(s) + i
    <2>1. i \in Nat /\ 1 <= i /\ i <= Len(t) /\ Len(u) = Len(s) + Len(t)
      BY <1>1
    <2> QED
      BY <1>2, <1>3, <2>1
  <1>5. KeepLast(u)[Len(s) + i - cut] = t[i]
    BY <1>1, <1>2, <1>4
  <1> QED
    BY <1>2, <1>4, <1>5 DEF u

LEMMA KeepLastSaysEnd ==
  ASSUME NEW s \in Seq(Line), NEW t \in Seq(Line), Len(t) <= TailLines, NEW kind, Says(t, kind)
  PROVE  Says(KeepLast(s \o t), kind)
  <1>1. PICK i \in 1..Len(t) : t[i].kind = kind
    BY DEF Says
  <1>2. PICK j \in 1..Len(KeepLast(s \o t)) : KeepLast(s \o t)[j] = t[i]
    BY KeepLastEnd
  <1> QED
    BY <1>1, <1>2 DEF Says

LEMMA TailOfConcat ==
  ASSUME NEW s \in Seq(Line), NEW t \in Seq(Line), s # <<>>
  PROVE  Tail(s \o t) = Tail(s) \o t
  <1>1. /\ s \o t \in Seq(Line) /\ s \o t # <<>> /\ Len(s \o t) = Len(s) + Len(t)
        /\ Len(s) \in Nat \ {0} /\ Len(t) \in Nat
    OBVIOUS
  <1>2. /\ Tail(s \o t) \in Seq(Line) /\ Len(Tail(s \o t)) = Len(s) + Len(t) - 1
        /\ \A i \in 1..Len(s) + Len(t) - 1 : Tail(s \o t)[i] = (s \o t)[i + 1]
    BY <1>1, HeadTailProperties
  <1>3. /\ Tail(s) \in Seq(Line) /\ Len(Tail(s)) = Len(s) - 1
        /\ \A i \in 1..Len(s) - 1 : Tail(s)[i] = s[i + 1]
    BY HeadTailProperties
  <1>4. Tail(s) \o t \in Seq(Line) /\ Len(Tail(s) \o t) = Len(s) + Len(t) - 1
    BY <1>1, <1>3
  <1>5. ASSUME NEW i \in 1..Len(s) + Len(t) - 1
        PROVE  Tail(s \o t)[i] = (Tail(s) \o t)[i]
    <2>1. CASE i <= Len(s) - 1
      <3>1. (Tail(s) \o t)[i] = Tail(s)[i] /\ (s \o t)[i + 1] = s[i + 1]
        BY <1>1, <1>3, <2>1
      <3> QED
        BY <1>1, <1>2, <1>3, <2>1, <3>1
    <2>2. CASE ~(i <= Len(s) - 1)
      <3> DEFINE k == i + 1 - Len(s)
      <3>1. /\ k \in 1..Len(t) /\ i = Len(Tail(s)) + k /\ i + 1 = Len(s) + k
        BY <1>1, <1>3, <2>2
      <3> HIDE DEF k
      <3>2. (Tail(s) \o t)[Len(Tail(s)) + k] = t[k]
        BY <1>3, <3>1
      <3>3. (s \o t)[Len(s) + k] = t[k]
        BY <3>1
      <3> QED
        BY <1>2, <3>1, <3>2, <3>3
    <2> QED
      BY <2>1, <2>2
  <1> QED
    BY <1>2, <1>4, <1>5, SeqEqual

LEMMA SaysTail ==
  ASSUME NEW s \in Seq(Line), s # <<>>, NEW kind
  PROVE  Says(s, kind) <=> s[1].kind = kind \/ Says(Tail(s), kind)
  <1>1. /\ Len(s) \in Nat \ {0} /\ Len(Tail(s)) = Len(s) - 1
        /\ \A i \in 1..Len(s) - 1 : Tail(s)[i] = s[i + 1]
    OBVIOUS
  <1>2. ASSUME Says(Tail(s), kind) PROVE Says(s, kind)
    <2>1. PICK i \in 1..Len(s) - 1 : s[i + 1].kind = kind
      BY <1>1, <1>2 DEF Says
    <2> QED
      BY <1>1, <2>1 DEF Says
  <1>3. s[1].kind = kind => Says(s, kind)
    BY <1>1 DEF Says
  <1>4. ASSUME Says(s, kind), s[1].kind # kind PROVE Says(Tail(s), kind)
    <2>1. PICK i \in 1..Len(s) : s[i].kind = kind
      BY <1>4 DEF Says
    <2>2. i - 1 \in 1..Len(s) - 1 /\ s[(i - 1) + 1] = s[i]
      BY <1>1, <1>4, <2>1
    <2> QED
      BY <1>1, <2>1, <2>2 DEF Says
  <1> QED
    BY <1>2, <1>3, <1>4
-----------------------------------------------------------------------------
(***************************************************************************)
(* The deadlines.                                                          *)
(***************************************************************************)

\* While the runner reads: what was printed and is not in the pipe was heard, as the
\* time that readline was blocked goes, no earlier than it was printed, and what was
\* printed before this poll was heard since, or printed as the last poll ended.  A
\* runner that is blocked looked at the clock in time and has nothing to read.
Timed ==
    /\ said <= now /\ older <= now
    /\ run.pc = "start" => now = 0 /\ run.last = 0 /\ ~passed
    /\ run.pc = "reading" =>
          /\ run.looked <= now /\ run.looked < Rotate
          /\ buf = <<>> /\ (piece # "no" \/ pipe # <<>>)
    /\ run.pc \in {"top", "select"} =>
          /\ passed => now < Rotate
          /\ pipe = <<>> /\ piece # "pipe" => said <= run.last + late
          /\ passed => said <= run.last + late \/ said = now
          /\ older <= run.last + late \/ older + 1 = now

LEMMA InitTimed == Init => Timed
  BY DEF Init, Timed, Fresh

LEMMA LocalsTyped ==
  ASSUME Typed
  PROVE  /\ run.last \in Nat /\ now \in Nat /\ said \in Nat /\ older \in Nat
         /\ run.looked \in Nat /\ late \in Nat /\ run.quota \in Nat
         /\ pipe \in Seq(Line) /\ buf \in Seq(Line) /\ run.pc \in Pcs
  BY DEF Typed, RunTyped, Local, ClockTyped, LinesTyped

LEMMA PrintingTimed ==
  ASSUME Typed, Timed, NEW lines \in Seq(Line), NEW torn \in BOOLEAN, lines # <<>> \/ torn,
         Printing(lines, torn), UNCHANGED <<buf, run>>
  PROVE  Timed'
  <1>1. ~(pipe' = <<>> /\ piece' # "pipe") /\ (pipe' # <<>> \/ piece' # "no")
    <2>1. CASE lines # <<>>
      <3>1. pipe \o lines # <<>>
        BY <2>1, LocalsTyped
      <3> QED
        BY <3>1 DEF Printing
    <2>2. CASE torn
      BY <2>2 DEF Printing
    <2> QED
      BY <2>1, <2>2
  <1>2. said' = now /\ UNCHANGED <<now, passed, older, late, buf, run>> /\ run.pc # "start"
    BY DEF Printing, Running
  <1> QED
    BY <1>1, <1>2, LocalsTyped, SMTT(90) DEF Timed

LEMMA ChildTimed ==
  ASSUME Typed, Timed,
         \/ Prints \/ ChildEnds \/ ChildShuts \/ OrphanEnds \/ Tick
         \/ \E a \in Attempt : RepairCounted(a)
  PROVE  Timed'
  <1>1. CASE Prints
    <2>1. PICK k \in 0..2, torn \in BOOLEAN : \E burst \in [1..k -> {l \in Line : l.kind # "struggle"}] :
             /\ printed' = printed + k + (IF torn THEN 1 ELSE 0) /\ printed < printed'
             /\ Printing(burst, torn)
      BY <1>1 DEF Prints
    <2>2. PICK burst \in [1..k -> {l \in Line : l.kind # "struggle"}] :
             Printing(burst, torn)
      BY <2>1
    <2>3. burst \in Seq(Line) /\ Len(burst) = k
      BY <2>2
    <2>4. burst # <<>> \/ torn
      <3>1. k > 0 \/ torn
        BY <2>1 DEF Typed, ChildTyped
      <3> QED
        BY <2>3, <3>1
    <2> QED
      BY <1>1, <2>2, <2>3, <2>4, PrintingTimed DEF Prints
  <1>2. ASSUME NEW a \in Attempt, RepairCounted(a) PROVE Timed'
    <2>1. <<[kind |-> "struggle", wait |-> 0]>> \in Seq(Line)
          /\ <<[kind |-> "struggle", wait |-> 0]>> # <<>>
      BY DEF Line
    <2>2. CASE Printing(<<[kind |-> "struggle", wait |-> 0]>>, FALSE)
      BY <1>2, <2>1, <2>2, PrintingTimed DEF RepairCounted
    <2>3. CASE UNCHANGED world
      BY <1>2, <2>3 DEF RepairCounted, world, Timed
    <2> QED
      BY <1>2, <2>2, <2>3 DEF RepairCounted
  <1>3. CASE ChildEnds \/ ChildShuts \/ OrphanEnds
    <2>1. UNCHANGED <<world, buf, run>>
      BY <1>3 DEF ChildEnds, ChildShuts, OrphanEnds
    <2> QED
      BY <2>1 DEF world, Timed
  <1>4. CASE Tick
    <2>1. /\ now' = now + 1 /\ ~passed' /\ older' = said
          /\ UNCHANGED <<pipe, piece, said, late, buf, run>>
          /\ (passed /\ run.pc = "select") \/ run.pc = "reading"
      BY <1>4 DEF Tick, Hung, At
    <2> QED
      BY <2>1, LocalsTyped, SMTT(90) DEF Timed
  <1> QED
    BY <1>1, <1>2, <1>3, <1>4

\* A line is heard at the last look at the clock; the runner goes on to the next poll.
LEMMA MovedReturning ==
  ASSUME Typed, NEW look \in Nat, Returns(look)
  PROVE  \E l \in Line :
            /\ \/ Left # <<>> /\ l = Left[1] /\ Left' = Tail(Left)
               \/ Left = <<>> /\ l = Text /\ Left' = Left
            /\ run'.pc = "top" /\ run'.last = look /\ run'.status = run.status
            /\ run'.declared = IF l.kind = "wait" THEN l.wait ELSE run.declared
            /\ run'.quota = IF l.kind = "wait" THEN look + l.wait ELSE run.quota
            /\ run'.struggle <=> run.struggle \/ l.kind = "struggle"
            /\ run'.tail = KeepLast(Append(run.tail, l))
  <1>1. pipe \in Seq(Line) /\ buf \in Seq(Line)
    BY LocalsTyped
  <1>2. \E l \in Line :
           /\ \/ Left # <<>> /\ l = Left[1] /\ Left' = Tail(Left)
              \/ Left = <<>> /\ l = Text /\ Left' = Left
           /\ run' = [Heard(run, l, look) EXCEPT !.pc = "top", !.looked = 0]
    <2>1. CASE buf # <<>>
      <3>1. /\ buf' = Tail(buf) /\ pipe' = pipe
            /\ run' = [Heard(run, buf[1], look) EXCEPT !.pc = "top", !.looked = 0]
        BY <2>1 DEF Returns
      <3>2. /\ buf \o pipe \in Seq(Line) /\ buf \o pipe # <<>>
            /\ (buf \o pipe)[1] = buf[1] /\ buf[1] \in Line
        BY <1>1, <2>1
      <3>3. Tail(buf \o pipe) = Tail(buf) \o pipe
        BY <1>1, <2>1, TailOfConcat
      <3> QED
        BY <3>1, <3>2, <3>3 DEF Left
    <2>2. CASE buf = <<>> /\ pipe # <<>>
      <3>1. /\ buf' = Tail(pipe) /\ pipe' = <<>>
            /\ run' = [Heard(run, pipe[1], look) EXCEPT !.pc = "top", !.looked = 0]
        BY <2>2 DEF Returns
      <3>2. Left = pipe
        BY <1>1, <2>2 DEF Left
      <3>3. Tail(pipe) \in Seq(Line) /\ Tail(pipe) \o <<>> = Tail(pipe) /\ pipe[1] \in Line
        BY <1>1, <2>2
      <3> QED
        BY <2>2, <3>1, <3>2, <3>3 DEF Left
    <2>3. CASE buf = <<>> /\ pipe = <<>>
      <3>1. /\ ~Open /\ Piece # <<>> /\ buf' = Tail(Piece) /\ pipe' = <<>>
            /\ run' = [Heard(run, Piece[1], look) EXCEPT !.pc = "top", !.looked = 0]
        BY <2>3 DEF Returns
      <3>2. Piece = <<Text>> /\ Piece[1] = Text /\ Tail(Piece) = <<>>
        BY <3>1 DEF Piece
      <3>3. Text \in Line
        BY DEF Text, Line
      <3>4. Left = <<>> /\ Left' = <<>>
        BY <2>3, <3>1, <3>2 DEF Left
      <3>5. run' = [Heard(run, Text, look) EXCEPT !.pc = "top", !.looked = 0]
        BY <3>1, <3>2
      <3> QED
        BY <3>3, <3>4, <3>5
    <2> QED
      BY <2>1, <2>2, <2>3
  <1>3. PICK l \in Line :
           /\ \/ Left # <<>> /\ l = Left[1] /\ Left' = Tail(Left)
              \/ Left = <<>> /\ l = Text /\ Left' = Left
           /\ run' = [Heard(run, l, look) EXCEPT !.pc = "top", !.looked = 0]
    BY <1>2
  <1> DEFINE t == KeepLast(Append(run.tail, l))
             d == IF l.kind = "wait" THEN l.wait ELSE run.declared
             q == IF l.kind = "wait" THEN look + l.wait ELSE run.quota
             g == run.struggle \/ l.kind = "struggle"
  <1>4. run' = [[run EXCEPT !.tail = t, !.last = look, !.declared = d, !.quota = q,
                            !.struggle = g] EXCEPT !.pc = "top", !.looked = 0]
    BY <1>3 DEF Heard
  <1> HIDE DEF t, d, q, g
  <1>5. /\ run'.pc = "top" /\ run'.status = run.status /\ run'.last = look
        /\ run'.declared = d /\ run'.quota = q /\ run'.tail = t /\ run'.struggle = g
    BY <1>4 DEF Typed, RunTyped, Local
  <1> QED
    BY <1>3, <1>5 DEF t, d, q, g

LEMMA RunnerTimed ==
  ASSUME Typed, Timed, RunnerStep
  PROVE  Timed'
  <1> USE DEF At
  <1>1. CASE Spawn \/ Poll
    <2>1. UNCHANGED <<world, buf>>
      BY <1>1 DEF Spawn, Poll
    <2>2. \/ run.pc \in {"start", "top"} /\ run'.pc \in {"top", "select"} /\ run'.last = run.last
          \/ run'.pc = "stop"
      BY <1>1 DEF Spawn, Poll, Stopped, Typed, RunTyped, Local
    <2>3. CASE run.pc = "start"
      <3>1. now = 0 /\ run.last = 0 /\ said = 0 /\ older = 0 /\ ~passed /\ late \in Nat
        BY <2>3, LocalsTyped, SMTT(30) DEF Timed
      <3> QED
        BY <2>1, <2>2, <2>3, <3>1, SMTT(30) DEF Timed, world
    <2>4. CASE run.pc # "start"
      BY <2>1, <2>2, <2>4, LocalsTyped DEF Timed, world
    <2> QED
      BY <2>3, <2>4
  <1>2. CASE SelectIdle
    <2>1. /\ run.pc = "select" /\ ~Rotates /\ pipe = <<>> /\ piece # "pipe"
          /\ run' = [run EXCEPT !.pc = "top"]
          /\ UNCHANGED <<pipe, piece, now, said, older, late>>
      BY <1>2 DEF SelectIdle, InTime, Ready
    <2>2. now < Rotate
      BY <2>1, LocalsTyped, SMTT(30) DEF Rotates
    <2>3. run'.pc = "top" /\ run'.last = run.last
      BY <2>1 DEF Typed, RunTyped, Local
    <2> QED
      BY <2>1, <2>2, <2>3, LocalsTyped DEF Timed
  <1>3. CASE ReadLine \/ ReadResumes
    <2>1. ASSUME NEW look \in Nat, look <= now, look < Rotate, Returns(look)
          PROVE  Timed'
      <3>1. run'.pc = "top" /\ run'.last = look
        BY <2>1, MovedReturning
      <3>2. /\ passed' = (now = look) /\ late' = MaxOf(late, now - look)
            /\ UNCHANGED <<now, said, older>>
        BY <2>1 DEF Returns
      <3>3. now <= look + late' /\ late' \in Nat
        BY <2>1, <3>2, LocalsTyped, LateGrows
      <3>4. said <= look + late' /\ older <= look + late'
        <4>1. said <= now /\ older <= now
          BY DEF Timed
        <4> QED
          BY <2>1, <3>3, <4>1, LocalsTyped, Within
      <3> QED
        BY <2>1, <3>1, <3>2, <3>4, LocalsTyped DEF Timed
    <2>2. CASE ReadLine
      <3>1. now < Rotate /\ Returns(now)
        BY <2>2, LocalsTyped, SMTT(30) DEF ReadLine, InTime, Rotates
      <3> QED
        BY <2>1, <3>1, LocalsTyped
    <2>3. CASE ReadResumes
      BY <2>1, <2>3, LocalsTyped DEF ReadResumes, Timed
    <2> QED
      BY <1>3, <2>2, <2>3
  <1>8. CASE ReadBlocks
    <2>1. /\ now < Rotate /\ buf' = <<>> /\ piece' = "buf" /\ UNCHANGED <<now, said, older>>
          /\ run' = [run EXCEPT !.pc = "reading", !.looked = now]
      BY <1>8, LocalsTyped, SMTT(30) DEF ReadBlocks, InTime, Rotates
    <2>2. run'.pc = "reading" /\ run'.looked = now
      BY <2>1 DEF Typed, RunTyped, Local
    <2> QED
      BY <2>1, <2>2, LocalsTyped, SMTT(30) DEF Timed
  <1>4. CASE HealFails \/ Deadline \/ ReadEnd \/ Grace \/ Terminate \/ Kill
    <2>1. UNCHANGED world
      BY <1>4 DEF HealFails, Deadline, ReadEnd, Grace, Terminate, Kill
    <2>2. run'.pc \notin {"start", "top", "select", "reading"}
      BY <1>4 DEF HealFails, Deadline, ReadEnd, Grace, Terminate, Kill, Rest, Fresh, Stopped,
                  Typed, RunTyped, Local
    <2> QED
      BY <2>1, <2>2 DEF Timed, world
  <1>5. CASE Drain
    <2>1. run'.pc \notin {"start", "top", "select", "reading"}
      BY <1>5 DEF Drain, Typed, RunTyped, Local
    <2>2. UNCHANGED <<now, said, older>>
      BY <1>5 DEF Drain
    <2> QED
      BY <2>1, <2>2 DEF Timed
  <1>6. CASE CycleStatus
    <2>1. run'.pc \notin {"start", "top", "select", "reading"}
      <3>1. run \in Local
        BY DEF Typed, RunTyped
      <3>2. ASSUME NEW status, NEW cooldown, Classified(status, cooldown)
            PROVE  run'.pc = "sleep"
        BY <3>1, <3>2 DEF Classified, Local
      <3>3. run' = [run EXCEPT !.pc = "dead"] => run'.pc = "dead"
        BY <3>1 DEF Local
      <3> QED
        BY <1>6, <3>2, <3>3, ZenonT(30) DEF CycleStatus
    <2>2. UNCHANGED world
      BY <1>6 DEF CycleStatus
    <2> QED
      BY <2>1, <2>2 DEF Timed, world
  <1>7. CASE Sleep
    BY <1>7 DEF Sleep, Fresh, Timed
  <1> QED
    BY <1>1, <1>2, <1>3, <1>4, <1>5, <1>6, <1>7, <1>8 DEF RunnerStep

LEMMA NextTimed == Typed /\ Timed /\ [Next]_vars => Timed'
  <1> SUFFICES ASSUME Typed, Timed, [Next]_vars PROVE Timed'
    OBVIOUS
  <1>1. CASE UNCHANGED vars
    BY <1>1 DEF vars, world, Timed
  <1>2. CASE Next
    BY <1>2, ChildTimed, RunnerTimed DEF Next
  <1> QED
    BY <1>1, <1>2

LEMMA WedgeStep ==
  ASSUME Typed, [Next]_vars, At("select"), run'.pc = "stop", run'.reason = "wedge"
  PROVE  Wedges
  <1>1. run' # run
    BY DEF At
  <1>2. RunnerStep
    BY <1>1 DEF Next, RepairCounted, Prints, ChildEnds, ChildShuts, OrphanEnds, Tick, vars
  <1>3. Deadline
    <2>1. ~(SelectIdle \/ ReadEnd \/ ReadBlocks)
      BY DEF SelectIdle, ReadEnd, ReadBlocks, Typed, RunTyped, Local
    <2>2. ~ReadLine
      BY MovedReturning, LocalsTyped DEF ReadLine
    <2>3. ~(HealFails \/ Spawn \/ Poll \/ ReadResumes \/ Grace \/ Terminate \/ Kill \/ Drain
              \/ CycleStatus \/ Sleep)
      BY DEF At, HealFails, Spawn, Poll, ReadResumes, Grace, Terminate, Kill, Drain, CycleStatus, Sleep
    <2> QED
      BY <1>2, <2>1, <2>2, <2>3 DEF RunnerStep
  <1>4. CASE Rotates
    <2>1. run' = Stopped("rotation")
      BY <1>3, <1>4 DEF Deadline
    <2>2. Stopped("rotation").reason = "rotation"
      BY DEF Stopped, Typed, RunTyped, Local
    <2> QED
      BY <2>1, <2>2
  <1> QED
    BY <1>3, <1>4 DEF Deadline

\* A generation is ended as wedged from a poll that found it silent for as long,
\* what the poll before had read and what readline waited for counted.
LEMMA WedgedSilent ==
  ASSUME Typed, Timed, [Next]_vars, At("select"), run'.pc = "stop", run'.reason = "wedge"
  PROVE  older + Wedge <= now + late \/ older + 1 = now
  <1>1. older <= run.last + late \/ older + 1 = now
    BY DEF Timed, At
  <1>2. now - run.last >= Wedge /\ Wedge \in Nat
    BY WedgeStep DEF Wedges
  <1>3. now \in Nat /\ older \in Nat /\ run.last \in Nat /\ late \in Nat
    BY LocalsTyped
  <1> QED
    BY <1>1, <1>2, <1>3

\* Time passes the rotation only under a blocked readline.
LEMMA ClockInTime ==
  ASSUME Typed, Timed, [Next]_vars, now' > now
  PROVE  now' <= Rotate \/ (At("reading") /\ Left = <<>> /\ piece # "no" /\ Open)
  <1>1. Tick
    <2>1. now \in Nat
      BY LocalsTyped
    <2>2. now' # now /\ now' # 0
      BY <2>1
    <2>3. ~UNCHANGED vars
      BY <2>2 DEF vars, world
    <2>4. ~(Prints \/ ChildEnds \/ ChildShuts \/ OrphanEnds \/ \E a \in Attempt : RepairCounted(a))
      BY <2>2 DEF Prints, Printing, ChildEnds, ChildShuts, OrphanEnds, RepairCounted, world
    <2>5. ~RunnerStep
      BY <2>2 DEF RunnerStep, HealFails, Spawn, Poll, Deadline, SelectIdle, ReadLine, ReadBlocks,
                  ReadResumes, Returns, ReadEnd, Grace, Terminate, Kill, Drain, CycleStatus, Sleep, world
    <2> QED
      BY <2>3, <2>4, <2>5 DEF Next
  <1>2. now' = now + 1
    BY <1>1 DEF Tick
  <1>3. CASE At("select") /\ passed
    BY <1>2, <1>3, LocalsTyped, SMTT(30) DEF Timed, At
  <1>4. CASE Hung
    BY <1>4 DEF Hung, Timed, At, Left
  <1> QED
    BY <1>1, <1>3, <1>4 DEF Tick

\* And past the rotation nothing is read.
LEMMA PastRotation ==
  ASSUME Typed, [Next]_vars, At("select"), now >= Rotate, run' # run
  PROVE  run'.reason = "rotation"
  <1>1. Rotates
    BY DEF Rotates
  <1>2. Deadline
    BY <1>1 DEF Next, RunnerStep, RepairCounted, Prints, ChildEnds, ChildShuts, OrphanEnds, Tick,
                vars, At, HealFails, Spawn, Poll, SelectIdle, ReadLine, ReadBlocks, ReadResumes, ReadEnd,
                Grace, Terminate, Kill, Drain, CycleStatus, Sleep, InTime
  <1>3. run' = Stopped("rotation")
    BY <1>1, <1>2 DEF Deadline
  <1> QED
    BY <1>3 DEF Stopped, Typed, RunTyped, Local
-----------------------------------------------------------------------------
(***************************************************************************)
(* Evidence: counting stops at the first verdict, so the verdict on the    *)
(* whole history is what the history says anywhere.                        *)
(***************************************************************************)

SameAgain(h) ==
    \E i \in 0..(Len(h) - Threshold) :
        \A j \in 1..Threshold : h[i + j].signature = h[i + 1].signature
CameBack(h) ==
    \E i, j, k \in 1..Len(h) :
        i < j /\ j < k /\ h[i].head = h[k].head /\ h[j].head # h[k].head
NoEvidenceIn(h) == SameAgain(h) \/ CameBack(h)

LEMMA VerdictIsEvidence ==
  ASSUME NEW h \in Seq(Attempt), StruggleVerdict(h)
  PROVE  NoEvidenceIn(h)
  <1> DEFINE n == Len(h)
  <1>0. n \in Nat
    OBVIOUS
  <1>1. CASE Returned(h)
    <2>1. PICK i \in 1..(n - 2) : n >= 3 /\ h[n].head # h[n - 1].head /\ h[i].head = h[n].head
      BY <1>1 DEF Returned
    <2>2. i \in 1..n /\ n - 1 \in 1..n /\ n \in 1..n /\ i < n - 1 /\ n - 1 < n
      <3>1. n \in Nat /\ n >= 3 /\ i \in Nat /\ 1 <= i /\ i <= n - 2
        BY <1>0, <2>1
      <3> HIDE DEF n
      <3> QED
        BY <3>1
    <2> QED
      BY <2>1, <2>2 DEF NoEvidenceIn, CameBack
  <1>2. CASE Repeated(h)
    <2>1. n >= Threshold /\ \A i \in (n - Threshold + 1)..n : h[i].signature = h[n].signature
      BY <1>2 DEF Repeated
    <2>2. n - Threshold \in 0..(n - Threshold)
      BY <1>0, <2>1
    <2>3. ASSUME NEW j \in 1..Threshold
          PROVE  h[(n - Threshold) + j].signature = h[(n - Threshold) + 1].signature
      <3>1. (n - Threshold) + j \in (n - Threshold + 1)..n
        BY <1>0, <2>1
      <3>2. (n - Threshold) + 1 \in (n - Threshold + 1)..n
        BY <1>0, <2>1
      <3> HIDE DEF n
      <3> QED
        BY <2>1, <3>1, <3>2
    <2> QED
      BY <2>2, <2>3 DEF NoEvidenceIn, SameAgain
  <1> QED
    BY <1>1, <1>2 DEF StruggleVerdict

LEMMA EvidenceIsVerdict ==
  ASSUME NEW h \in Seq(Attempt), NEW a \in Attempt, ~NoEvidenceIn(h),
         NoEvidenceIn(Append(h, a))
  PROVE  StruggleVerdict(Append(h, a))
  <1> DEFINE g == Append(h, a)
             n == Len(g)
  <1>1. /\ g \in Seq(Attempt) /\ n \in Nat /\ Len(h) = n - 1 /\ n >= 1
        /\ \A i \in 1..n - 1 : g[i] = h[i]
    OBVIOUS
  <1>0. n = Len(g) /\ 1..Len(h) = 1..n - 1 /\ Len(h) - Threshold = n - 1 - Threshold
    BY <1>1
  <1> HIDE DEF g, n
  <1>2. ASSUME NEW i \in 0..(n - Threshold),
               \A j \in 1..Threshold : g[i + j].signature = g[i + 1].signature
        PROVE  Repeated(g)
    <2>1. i = n - Threshold
      <3> SUFFICES ASSUME i # n - Threshold PROVE FALSE
        OBVIOUS
      <3>1. i \in 0..(Len(h) - Threshold)
        BY <1>0, <1>1, <1>2
      <3>2. ASSUME NEW j \in 1..Threshold PROVE h[i + j].signature = h[i + 1].signature
        <4>1. i + j \in 1..n - 1 /\ i + 1 \in 1..n - 1
          <5>1. i + j <= n - 1 /\ i + 1 <= n - 1 /\ i + j >= 1 /\ i + 1 >= 1
            BY <1>0, <1>1, <3>1, SMTT(30)
          <5> QED
            BY <1>1, <3>1, <5>1
        <4> QED
          BY <1>1, <1>2, <4>1
      <3> QED
        BY <3>1, <3>2 DEF SameAgain, NoEvidenceIn
    <2>2. ASSUME NEW k \in (n - Threshold + 1)..n PROVE g[k].signature = g[n].signature
      <3>1. k - i \in 1..Threshold /\ i + (k - i) = k /\ i + Threshold = n /\ Threshold \in 1..Threshold
        BY <1>1, <2>1
      <3>2. g[i + (k - i)].signature = g[i + 1].signature
        BY <1>2, <3>1
      <3>3. g[i + Threshold].signature = g[i + 1].signature
        BY <1>2, <3>1
      <3> QED
        BY <3>1, <3>2, <3>3
    <2>3. n >= Threshold
      BY <1>1, <2>1
    <2> QED
      BY <1>0, <2>2, <2>3 DEF Repeated
  <1>3. ASSUME NEW i \in 1..n, NEW j \in 1..n, NEW k \in 1..n,
               i < j, j < k, g[i].head = g[k].head, g[j].head # g[k].head
        PROVE  Returned(g)
    <2>1. k = n
      <3> SUFFICES ASSUME k # n PROVE FALSE
        OBVIOUS
      <3>0. i \in 1..n - 1 /\ j \in 1..n - 1 /\ k \in 1..n - 1
        BY <1>1, <1>3
      <3>1. i \in 1..Len(h) /\ j \in 1..Len(h) /\ k \in 1..Len(h)
        BY <1>0, <3>0
      <3>2. h[i].head = h[k].head /\ h[j].head # h[k].head
        BY <1>1, <1>3, <3>0
      <3> QED
        BY <1>3, <3>1, <3>2, Zenon DEF CameBack, NoEvidenceIn
    <2>2. g[n].head # g[n - 1].head
      <3> SUFFICES ASSUME g[n].head = g[n - 1].head PROVE FALSE
        OBVIOUS
      <3>0. 1..Len(h) = 1..n - 1 /\ n - 1 < n
        BY <1>0, <1>1
      <3>1. i \in 1..n - 1 /\ j \in 1..n - 1 /\ n - 1 \in 1..n - 1
        BY <1>1, <1>3, <2>1
      <3>2. j < n - 1
        <4>1. j # n - 1
          BY <1>3, <2>1
        <4> QED
          BY <3>1, <4>1, <1>1
      <3>3. h[i].head = h[n - 1].head /\ h[j].head # h[n - 1].head
        BY <1>1, <1>3, <2>1, <3>1
      <3> QED
        <4>1. i \in 1..Len(h) /\ j \in 1..Len(h) /\ n - 1 \in 1..Len(h)
          BY <3>0, <3>1
        <4>2. h[i].head = h[n - 1].head /\ h[j].head # h[n - 1].head
          BY <3>3
        <4> DEFINE m == n - 1
        <4>3. m \in 1..Len(h) /\ j < m /\ h[i].head = h[m].head /\ h[j].head # h[m].head
          BY <3>2, <4>1, <4>2
        <4> HIDE DEF m
        <4> QED
          BY <1>3, <4>1, <4>3, Zenon DEF CameBack, NoEvidenceIn
    <2>3. n >= 3 /\ i \in 1..(n - 2)
      <3>1. i \in Nat /\ j \in Nat /\ n \in Nat /\ 1 <= i /\ i < j /\ j < n
        BY <1>1, <1>3, <2>1, SMTT(30)
      <3>2. i <= n - 2 /\ n >= 3
        BY <3>1
      <3>3. n - 2 \in Int
        BY <3>1
      <3> QED
        BY <3>1, <3>2, <3>3
    <2> QED
      BY <1>0, <1>3, <2>1, <2>2, <2>3 DEF Returned
  <1>4. Repeated(g) \/ Returned(g)
    BY <1>0, <1>2, <1>3 DEF NoEvidenceIn, SameAgain, CameBack, g
  <1> QED
    BY <1>4 DEF StruggleVerdict, g

\* What the child says of itself is what its attempts say.
Counted == NoEvidence <=> StruggleVerdict(history)

LEMMA HistoryEmpty == ~StruggleVerdict(<<>>) /\ ~NoEvidenceIn(<<>>)
  BY DEF StruggleVerdict, Returned, Repeated, NoEvidenceIn, SameAgain, CameBack

LEMMA NextCounted ==
  ASSUME Typed, Counted, [Next]_vars
  PROVE  Counted'
  <1>0. history \in Seq(Attempt)
    BY DEF Typed, ChildTyped
  <1>1. NoEvidence <=> NoEvidenceIn(history)
    BY DEF NoEvidence, NoEvidenceIn, SameAgain, CameBack
  <1>2. NoEvidence' <=> NoEvidenceIn(history')
    BY DEF NoEvidence, NoEvidenceIn, SameAgain, CameBack
  <1>3. CASE UNCHANGED history
    BY <1>1, <1>2, <1>3 DEF Counted
  <1>4. ASSUME NEW a \in Attempt, RepairCounted(a) PROVE Counted'
    <2>1. history' = Append(history, a) /\ ~StruggleVerdict(history)
      BY <1>4 DEF RepairCounted
    <2>2. ~NoEvidenceIn(history)
      BY <1>1, <2>1 DEF Counted
    <2>3. Append(history, a) \in Seq(Attempt)
      BY <1>0
    <2>4. NoEvidenceIn(Append(history, a)) <=> StruggleVerdict(Append(history, a))
      BY <1>0, <2>2, <2>3, VerdictIsEvidence, EvidenceIsVerdict
    <2> QED
      BY <1>2, <2>1, <2>4 DEF Counted
  <1>5. CASE Sleep
    <2>1. history' = <<>>
      BY <1>5 DEF Sleep
    <2> QED
      BY <1>2, <2>1, HistoryEmpty DEF Counted
  <1>6. ASSUME \/ Prints \/ ChildEnds \/ ChildShuts \/ OrphanEnds \/ Tick
        PROVE  UNCHANGED history
    BY <1>6 DEF Prints, ChildEnds, ChildShuts, OrphanEnds, Tick, offspring
  <1>7. ASSUME \/ HealFails \/ Spawn \/ Poll \/ Deadline \/ SelectIdle \/ ReadLine \/ ReadBlocks
               \/ ReadResumes \/ ReadEnd \/ Grace \/ Terminate \/ Kill \/ Drain \/ CycleStatus
        PROVE  UNCHANGED history
    BY <1>7 DEF HealFails, Spawn, Poll, Deadline, SelectIdle, ReadLine, ReadBlocks, ReadResumes,
                Returns, ReadEnd, Grace, Terminate, Kill, Drain, CycleStatus, offspring
  <1>8. UNCHANGED vars => UNCHANGED history
    BY DEF vars, offspring
  <1> QED
    BY <1>3, <1>4, <1>5, <1>6, <1>7, <1>8 DEF Next, RunnerStep
-----------------------------------------------------------------------------
(***************************************************************************)
(* What the runner knows of what was said: a declaration is in its locals  *)
(* or among the lines it has not read.                                     *)
(***************************************************************************)

LastWait(lines, i) ==
    lines[i].kind = "wait" /\ \A j \in 1..Len(lines) : lines[j].kind = "wait" => j <= i

Begun == At("start") =>
    run = Fresh /\ history = <<>> /\ buf = <<>> /\ pipe = <<>> /\ until = 0
Unnamed == run.pc \notin {"sleep", "dead"} => run.status = "none"
Told == Running => /\ StruggleVerdict(history) <=> run.struggle \/ Says(Left, "struggle")
                   /\ Says(run.tail, "struggle") => run.struggle
Owed == Running =>
    \/ /\ ~Says(Left, "wait") /\ until <= now + run.declared
       /\ run.pc \in {"top", "select", "reading"} => until <= run.quota + late
    \/ \E i \in 1..Len(Left) : LastWait(Left, i) /\ until <= now + Left[i].wait
Bounded(cooldown) == \E c \in {Burst, Ceiling, Fallback} : cooldown <= c
Reported ==
    /\ At("status") /\ ~run.flooded
          => (run.struggle <=> StruggleVerdict(history)) /\ until <= now + run.declared
    /\ At("sleep") =>
          /\ ~run.flooded => (run.struggle <=> StruggleVerdict(history))
          /\ run.status = "ok" => ~run.struggle
          /\ run.status = "quota_wait" =>
                /\ run.cooldown > 0 /\ (~run.flooded => until <= now + run.cooldown)
                /\ run.declared = 0 => Bounded(run.cooldown)
Kept == Begun /\ Unnamed /\ Told /\ Owed /\ Reported

LEMMA InitKept == Init => Kept
  BY DEF Init, Kept, Begun, Unnamed, Told, Owed, Reported, Running, At, Fresh

\* A step that only moves the runner, or ends its reading.
LEMMA Moved ==
  ASSUME Typed, NEW v \in Pcs, run' = [run EXCEPT !.pc = v]
  PROVE  /\ run'.pc = v /\ run'.declared = run.declared /\ run'.quota = run.quota
         /\ run'.struggle = run.struggle /\ run'.tail = run.tail /\ run'.status = run.status
  BY DEF Typed, RunTyped, Local

LEMMA MovedToStop ==
  ASSUME Typed, NEW reason, run' = Stopped(reason)
  PROVE  /\ run'.pc = "stop" /\ run'.declared = run.declared
         /\ run'.struggle = run.struggle /\ run'.tail = run.tail /\ run'.status = run.status
  BY DEF Typed, RunTyped, Local, Stopped

Quiet ==
    \/ Spawn \/ Poll \/ Deadline \/ SelectIdle \/ ReadBlocks \/ ReadEnd
    \/ Grace \/ Terminate \/ Kill

LEMMA QuietMoves ==
  ASSUME Typed, Quiet
  PROVE  /\ UNCHANGED <<history, pipe, buf, now, until, late>>
         /\ run.pc \notin {"status", "sleep", "dead"}
         /\ run'.pc \notin {"start", "status", "sleep", "dead"}
         /\ run'.pc \in {"top", "select", "reading"} => run.pc \in {"start", "top", "select"}
                                              /\ run'.quota = run.quota
         /\ run'.declared = run.declared /\ run'.struggle = run.struggle
         /\ run'.tail = run.tail /\ run'.status = run.status
  <1>1. UNCHANGED <<history, pipe, buf, now, until, late>>
    BY DEF Quiet, Spawn, Poll, Deadline, SelectIdle, ReadBlocks, ReadEnd, Grace, Terminate, Kill,
           offspring, world
  <1>2. run.pc \notin {"status", "sleep", "dead"}
    BY DEF Quiet, Spawn, Poll, Deadline, SelectIdle, ReadBlocks, ReadEnd, Grace, Terminate, Kill, At, InTime
  <1>3. \/ \E v \in {"top", "select"} :
              run' = [run EXCEPT !.pc = v] /\ run.pc \in {"start", "top", "select"}
        \/ \E v \in {"grace", "drain", "term"} : run' = [run EXCEPT !.pc = v]
        \/ \E reason \in Reasons : run' = Stopped(reason)
        \/ run.pc = "select" /\ run' = [run EXCEPT !.pc = "reading", !.looked = now]
    BY DEF Quiet, Spawn, Poll, Deadline, SelectIdle, ReadBlocks, ReadEnd, Grace, Terminate, Kill, At, InTime,
           Reasons
  <1>4. {"top", "select", "grace", "drain", "term"} \subseteq Pcs
    BY DEF Pcs
  <1>5. ASSUME NEW v \in {"top", "select"},
               run' = [run EXCEPT !.pc = v] /\ run.pc \in {"start", "top", "select"}
        PROVE  /\ run'.pc \notin {"start", "status", "sleep", "dead"}
               /\ run'.pc \in {"top", "select", "reading"} => run.pc \in {"start", "top", "select"}
                                              /\ run'.quota = run.quota
               /\ run'.declared = run.declared /\ run'.struggle = run.struggle
               /\ run'.tail = run.tail /\ run'.status = run.status
    BY <1>4, <1>5, Moved
  <1>6. ASSUME NEW v \in {"grace", "drain", "term"}, run' = [run EXCEPT !.pc = v]
        PROVE  /\ run'.pc \notin {"start", "status", "sleep", "dead", "top", "select", "reading"}
               /\ run'.declared = run.declared /\ run'.struggle = run.struggle
               /\ run'.tail = run.tail /\ run'.status = run.status
    BY <1>4, <1>6, Moved
  <1>7. ASSUME NEW reason \in Reasons, run' = Stopped(reason)
        PROVE  /\ run'.pc \notin {"start", "status", "sleep", "dead", "top", "select", "reading"}
               /\ run'.declared = run.declared /\ run'.struggle = run.struggle
               /\ run'.tail = run.tail /\ run'.status = run.status
    BY <1>7, MovedToStop
  <1>8. ASSUME run.pc = "select" /\ run' = [run EXCEPT !.pc = "reading", !.looked = now]
        PROVE  /\ run'.pc = "reading" /\ run'.quota = run.quota
               /\ run'.declared = run.declared /\ run'.struggle = run.struggle
               /\ run'.tail = run.tail /\ run'.status = run.status
    BY <1>8 DEF Typed, RunTyped, Local
  <1> QED
    BY <1>1, <1>2, <1>3, <1>5, <1>6, <1>7, <1>8

LEMMA QuietKept ==
  ASSUME Typed, Kept, Quiet
  PROVE  Kept'
  <1>1. Left' = Left
    BY QuietMoves DEF Left
  <1>2. CASE At("start")
    <2>1. /\ run.struggle = FALSE /\ run.tail = <<>> /\ run.quota = 0 /\ run.status = "none"
          /\ run.declared = 0
          /\ history = <<>> /\ Left = <<>> /\ until = 0
      BY <1>2 DEF Kept, Begun, Fresh, Left
    <2>2. ~Says(<<>>, "struggle") /\ ~Says(<<>>, "wait")
      BY DEF Says
    <2>3. now \in Nat /\ late \in Nat
      BY LocalsTyped
    <2>4. Told'
      BY <1>1, <2>1, <2>2, QuietMoves, HistoryEmpty DEF Told
    <2>5. Owed'
      BY <1>1, <2>1, <2>2, <2>3, QuietMoves DEF Owed
    <2> QED
      BY <2>1, <2>4, <2>5, QuietMoves DEF Kept, Begun, Unnamed, Reported, At
  <1>3. CASE ~At("start")
    <2>1. Running
      BY <1>3, QuietMoves DEF Running, At
    <2>2. Told'
      BY <1>1, <2>1, QuietMoves DEF Kept, Told
    <2>3. Owed'
      BY <1>1, <1>3, <2>1, QuietMoves DEF Kept, Owed, At, LastWait
    <2> QED
      BY <2>1, <2>2, <2>3, QuietMoves DEF Kept, Begun, Unnamed, Reported, At
  <1> QED
    BY <1>2, <1>3

LEMMA LinesConcat ==
  ASSUME NEW p \in Seq(Line), NEW q \in Seq(Line), NEW r \in Seq(Line)
  PROVE  p \o (q \o r) = (p \o q) \o r
  <1> DEFINE lhs == p \o (q \o r)
             rhs == (p \o q) \o r
  <1>1. lhs \in Seq(Line) /\ rhs \in Seq(Line) /\ Len(lhs) = Len(rhs)
    OBVIOUS
  <1>2. \A i \in 1..Len(lhs) : lhs[i] = rhs[i]
    BY SMTT(30)
  <1> QED
    BY <1>1, <1>2, SeqEqual

\* A declaration that is printed is among the lines that are left.
LEMMA PrintingTold ==
  ASSUME Typed, NEW lines \in Seq(Line), NEW torn, Printing(lines, torn), UNCHANGED buf, NEW kind
  PROVE  /\ Left' = Left \o lines
         /\ Says(Left', kind) <=> Says(Left, kind) \/ Says(lines, kind)
  <1>1. Left' = Left \o lines
    <2>1. pipe \in Seq(Line) /\ buf \in Seq(Line)
      BY LocalsTyped
    <2>3. lines \in Seq(Line)
      OBVIOUS
    <2>2. buf \o (pipe \o lines) = (buf \o pipe) \o lines
      BY <2>1, <2>3, LinesConcat
    <2> QED
      BY <2>2 DEF Left, Printing
  <1>2. Left \in Seq(Line)
    BY LocalsTyped DEF Left
  <1> QED
    BY <1>1, <1>2, SaysConcat

\* The wait printed last is the last wait that is left.
LEMMA PrintingOwed ==
  ASSUME Typed, Owed, NEW lines \in Seq(Line), NEW torn, Printing(lines, torn),
         UNCHANGED <<buf, run>>
  PROVE  Owed'
  <1> USE DEF Owed
  <1>1. Left' = Left \o lines /\ now' = now /\ late' = late /\ until' \in Until(lines) /\ Running
    BY PrintingTold DEF Printing
  <1>2. Left \in Seq(Line) /\ Len(Left) \in Nat /\ Len(lines) \in Nat
    <2>1. Left \in Seq(Line)
      BY LocalsTyped DEF Left
    <2> QED
      BY <2>1
  <1>3. /\ Len(Left') = Len(Left) + Len(lines)
        /\ \A i \in 1..Len(Left) : Left'[i] = Left[i]
        /\ \A i \in 1..Len(lines) : Left'[Len(Left) + i] = lines[i]
    BY <1>1, <1>2
  <1>4. \A k \in 1..Len(Left') : k \in 1..Len(Left) \/
           \E j \in 1..Len(lines) : k = Len(Left) + j /\ k - Len(Left) = j
    <2>1. ASSUME NEW k \in 1..Len(Left'), k \notin 1..Len(Left)
          PROVE  k - Len(Left) \in 1..Len(lines) /\ k = Len(Left) + (k - Len(Left))
      BY <1>2, <1>3, <2>1
    <2> QED
      BY <2>1
  <1>5. CASE Says(lines, "wait")
    <2>1. PICK i \in 1..Len(lines) :
             /\ lines[i].kind = "wait" /\ until' = now + lines[i].wait
             /\ \A j \in 1..Len(lines) : lines[j].kind = "wait" => j <= i
      BY <1>1, <1>5 DEF Until, Says
    <2>2. Len(Left) + i \in 1..Len(Left') /\ Left'[Len(Left) + i] = lines[i]
      BY <1>2, <1>3, SMTT(30)
    <2>3. ASSUME NEW k \in 1..Len(Left'), Left'[k].kind = "wait" PROVE k <= Len(Left) + i
      <3>1. CASE k \in 1..Len(Left)
        BY <1>2, <3>1
      <3>2. CASE k \notin 1..Len(Left)
        <4>1. PICK j \in 1..Len(lines) : k = Len(Left) + j
          BY <1>4, <3>2
        <4>2. j <= i
          BY <1>3, <2>1, <2>3, <4>1
        <4> QED
          BY <1>2, <4>1, <4>2
      <3> QED
        BY <3>1, <3>2
    <2>4. LastWait(Left', Len(Left) + i)
      BY <2>1, <2>2, <2>3 DEF LastWait
    <2>5. lines[i].wait \in Nat /\ now \in Nat
      BY LineTyped, LocalsTyped, SMTT(30)
    <2>6. until' <= now' + Left'[Len(Left) + i].wait
      <3>1. now + lines[i].wait \in Nat /\ until' = now + lines[i].wait
        <4> DEFINE w == lines[i].wait
        <4>1. w \in Nat /\ until' = now + w /\ now \in Nat
          BY <2>1, <2>5
        <4> HIDE DEF w
        <4>2. now + w \in Nat /\ until' = now + w
          BY <4>1, SMTT(30)
        <4> QED
          BY <4>2 DEF w
      <3>2. now' + Left'[Len(Left) + i].wait = now + lines[i].wait
        BY <1>1, <2>2
      <3> QED
        BY <3>1, <3>2
    <2> QED
      BY <2>2, <2>4, <2>6
  <1>6. CASE ~Says(lines, "wait")
    <2>1. until' = until
      BY <1>1, <1>6 DEF Until, Says
    <2>2. CASE ~Says(Left, "wait")
      <3>1. ~\E i \in 1..Len(Left) : LastWait(Left, i)
        BY <2>2 DEF LastWait, Says
      <3> QED
        BY <1>1, <1>6, <2>1, <2>2, <3>1, PrintingTold
    <2>3. ASSUME NEW i \in 1..Len(Left), LastWait(Left, i), until <= now + Left[i].wait
          PROVE  Owed'
      <3>1. i \in 1..Len(Left') /\ Left'[i] = Left[i]
        BY <1>2, <1>3
      <3>2. ASSUME NEW k \in 1..Len(Left'), Left'[k].kind = "wait" PROVE k <= i
        <4>1. CASE k \in 1..Len(Left)
          BY <1>3, <2>3, <3>2, <4>1 DEF LastWait
        <4>2. CASE k \notin 1..Len(Left)
          <5>1. PICK j \in 1..Len(lines) : k = Len(Left) + j
            BY <1>4, <4>2
          <5>2. lines[j].kind = "wait"
            BY <1>3, <3>2, <5>1
          <5> QED
            BY <1>6, <5>2 DEF Says
        <4> QED
          BY <4>1, <4>2
      <3>3. LastWait(Left', i)
        BY <2>3, <3>1, <3>2 DEF LastWait
      <3> QED
        BY <1>1, <2>1, <2>3, <3>1, <3>3
    <2> QED
      BY <1>1, <2>2, <2>3
  <1> QED
    BY <1>5, <1>6

LEMMA RunUnmoved ==
  ASSUME Kept, Told', Owed', Running, UNCHANGED run
  PROVE  Kept'
  BY DEF Kept, Begun, Unnamed, Reported, Running, At

LEMMA ChildKept ==
  ASSUME Typed, Kept,
         \/ Prints \/ ChildEnds \/ ChildShuts \/ OrphanEnds \/ Tick
         \/ \E a \in Attempt : RepairCounted(a)
  PROVE  Kept'
  <1>1. CASE Prints
    <2>1. PICK k \in 0..2, torn \in BOOLEAN : \E burst \in [1..k -> {l \in Line : l.kind # "struggle"}] :
             Printing(burst, torn)
      BY <1>1 DEF Prints
    <2>2. PICK burst \in [1..k -> {l \in Line : l.kind # "struggle"}] :
             Printing(burst, torn)
      BY <2>1
    <2>3. burst \in Seq(Line) /\ Len(burst) = k
      BY <2>2
    <2>4. ~Says(burst, "struggle")
      BY <2>2, <2>3 DEF Says
    <2>5. Running /\ UNCHANGED <<history, buf, run>>
      BY <1>1, <2>2 DEF Prints, Printing
    <2>6. Told'
      BY <2>2, <2>3, <2>4, <2>5, PrintingTold DEF Kept, Told
    <2>7. Owed'
      BY <2>2, <2>3, <2>5, PrintingOwed DEF Kept
    <2> QED
      BY <2>5, <2>6, <2>7, RunUnmoved
  <1>2. ASSUME NEW a \in Attempt, RepairCounted(a) PROVE Kept'
    <2> DEFINE lines == <<[kind |-> "struggle", wait |-> 0]>>
    <2>1. lines \in Seq(Line) /\ Says(lines, "struggle") /\ ~Says(lines, "wait")
      BY DEF Line, Says
    <2>2. /\ ~StruggleVerdict(history) /\ UNCHANGED <<buf, run>>
          /\ IF StruggleVerdict(history') THEN Printing(lines, FALSE) ELSE Running /\ UNCHANGED world
      BY <1>2 DEF RepairCounted
    <2> HIDE DEF lines
    <2>3. Running
      BY <2>2 DEF Printing
    <2>4. ~run.struggle /\ ~Says(Left, "struggle") /\ ~Says(run.tail, "struggle")
      BY <2>2, <2>3 DEF Kept, Told
    <2>5. CASE StruggleVerdict(history')
      <3>1. Says(Left', "struggle")
        BY <2>1, <2>2, <2>5, PrintingTold
      <3>2. Told'
        BY <2>2, <2>4, <2>5, <3>1 DEF Told
      <3>3. Owed'
        BY <2>1, <2>2, <2>5, PrintingOwed DEF Kept
      <3> QED
        BY <2>2, <2>3, <3>2, <3>3, RunUnmoved
    <2>6. CASE ~StruggleVerdict(history')
      <3>1. Left' = Left /\ now' = now /\ until' = until /\ late' = late
        BY <2>2, <2>6 DEF Left, world
      <3>2. Told'
        BY <2>2, <2>4, <2>6, <3>1 DEF Told
      <3>3. Owed'
        BY <2>2, <2>3, <3>1 DEF Kept, Owed, LastWait
      <3> QED
        BY <2>2, <2>3, <3>2, <3>3, RunUnmoved
    <2> QED
      BY <2>5, <2>6
  <1>3. CASE ChildEnds \/ ChildShuts \/ OrphanEnds \/ Tick
    <2>1. Running /\ UNCHANGED <<history, run>> /\ Left' = Left
          /\ until' = until /\ late' = late
      BY <1>3 DEF ChildEnds, ChildShuts, OrphanEnds, Tick, Hung, Running, At, Left, world, offspring
    <2>2. now' = now \/ now' = now + 1
      BY <1>3 DEF ChildEnds, ChildShuts, OrphanEnds, Tick, world
    <2>3. Told'
      BY <2>1 DEF Kept, Told
    <2>4. Left \in Seq(Line) /\ \A i \in 1..Len(Left) : Left[i].wait \in Nat
      <3>1. Left \in Seq(Line)
        BY LocalsTyped DEF Left
      <3> QED
        BY <3>1, LineTyped
    <2>5. now \in Nat /\ until \in Nat /\ run.declared \in Nat
      BY DEF Typed, ClockTyped, RunTyped, Local
    <2>6. Owed'
      <3>1. until <= now + run.declared => until' <= now' + run'.declared
        BY <2>1, <2>2, <2>5
      <3>2. \A i \in 1..Len(Left) :
               until <= now + Left[i].wait => until' <= now' + Left'[i].wait
        <4> TAKE i \in 1..Len(Left)
        <4>1. Left[i].wait \in Nat /\ Left'[i].wait = Left[i].wait
          BY <2>1, <2>4
        <4> QED
          BY <2>1, <2>2, <2>5, <4>1, SMTT(30)
      <3> QED
        BY <2>1, <3>1, <3>2 DEF Kept, Owed
    <2> QED
      BY <2>1, <2>3, <2>6, RunUnmoved
  <1> QED
    BY <1>1, <1>2, <1>3

LEMMA AppendOne ==
  ASSUME NEW s \in Seq(Line), NEW l \in Line
  PROVE  Append(s, l) = s \o <<l>> /\ Append(s, l) \in Seq(Line)
  <1>1. /\ Append(s, l) \in Seq(Line) /\ s \o <<l>> \in Seq(Line)
        /\ Len(Append(s, l)) = Len(s \o <<l>>)
    OBVIOUS
  <1>2. \A i \in 1..Len(Append(s, l)) : Append(s, l)[i] = (s \o <<l>>)[i]
    OBVIOUS
  <1> QED
    BY <1>1, <1>2, SeqEqual

\* The runner hears the first line that is left: a declaration on it is known from
\* then on, and the last wait stays the last one.
LEMMA ReadKept ==
  ASSUME Typed, Timed, Kept, ReadLine \/ ReadResumes
  PROVE  Kept'
  <1>0. PICK look \in Nat : /\ Returns(look) /\ look <= now
                            /\ run.pc \in {"select", "reading"}
    <2>1. CASE ReadLine
      <3>1. Returns(now) /\ now <= now /\ run.pc = "select"
        BY <2>1, LocalsTyped DEF ReadLine, InTime, At
      <3> QED
        BY <3>1, LocalsTyped
    <2>2. CASE ReadResumes
      <3>1. Returns(run.looked) /\ run.looked <= now /\ run.pc = "reading"
        BY <2>2 DEF ReadResumes, At, Timed
      <3> QED
        BY <3>1, LocalsTyped
    <2> QED
      BY <2>1, <2>2
  <1>1. PICK l \in Line :
           /\ \/ Left # <<>> /\ l = Left[1] /\ Left' = Tail(Left)
              \/ Left = <<>> /\ l = Text /\ Left' = Left
           /\ run'.pc = "top" /\ run'.last = look /\ run'.status = run.status
           /\ run'.declared = IF l.kind = "wait" THEN l.wait ELSE run.declared
           /\ run'.quota = IF l.kind = "wait" THEN look + l.wait ELSE run.quota
           /\ run'.struggle <=> run.struggle \/ l.kind = "struggle"
           /\ run'.tail = KeepLast(Append(run.tail, l))
    BY <1>0, MovedReturning
  <1>2. Left \in Seq(Line)
    BY LocalsTyped DEF Left
  <1>3. /\ Running /\ UNCHANGED <<now, until, history>>
        /\ late' \in Nat /\ late <= late' /\ now <= look + late'
    <2>1. Running /\ UNCHANGED <<now, until, history>> /\ late' = MaxOf(late, now - look)
      BY <1>0 DEF Running, Returns, offspring
    <2> QED
      BY <1>0, <2>1, LocalsTyped, LateGrows
  <1>4. \A kind : kind # "text" => (Says(Left, kind) <=> l.kind = kind \/ Says(Left', kind))
    <2>1. CASE Left # <<>> /\ l = Left[1] /\ Left' = Tail(Left)
      BY <1>2, <2>1, SaysTail
    <2>2. CASE Left = <<>> /\ l = Text /\ Left' = Left
      BY <2>2 DEF Text, Says
    <2> QED
      BY <1>1, <2>1, <2>2
  <1>5. Told'
    <2>1. Says(run'.tail, "struggle") => run'.struggle
      <3> SUFFICES ASSUME Says(run'.tail, "struggle") PROVE run'.struggle
        OBVIOUS
      <3>1. run.tail \in Seq(Line) /\ <<l>> \in Seq(Line)
        BY <1>1 DEF Typed, RunTyped, Local
      <3>2. Append(run.tail, l) = run.tail \o <<l>> /\ Append(run.tail, l) \in Seq(Line)
        BY <1>1, <3>1, AppendOne
      <3>3. Says(run.tail \o <<l>>, "struggle")
        BY <1>1, <3>2, KeepLastSays
      <3>4. Says(run.tail, "struggle") \/ l.kind = "struggle"
        BY <1>1, <3>1, <3>3, SaysConcat, SaysOne
      <3> QED
        BY <1>1, <1>3, <3>4 DEF Kept, Told
    <2> QED
      BY <1>1, <1>3, <1>4, <2>1 DEF Kept, Told
  <1>6. Owed'
    <2>1. CASE ~Says(Left, "wait")
      <3>1. l.kind # "wait" /\ ~Says(Left', "wait")
        BY <1>4, <2>1
      <3>2. until <= now + run.declared /\ until <= run.quota + late
        BY <1>0, <1>3, <2>1 DEF Kept, Owed, LastWait, Says
      <3>3. until <= run.quota + late'
        <4>1. until \in Nat
          BY DEF Typed, ClockTyped
        <4> QED
          BY <1>3, <3>2, <4>1, LocalsTyped, Later
      <3> QED
        BY <1>1, <1>3, <3>1, <3>2, <3>3 DEF Owed
    <2>2. ASSUME NEW i \in 1..Len(Left), LastWait(Left, i), until <= now + Left[i].wait
          PROVE  Owed'
      <3>0. Left # <<>> /\ l = Left[1] /\ Left' = Tail(Left)
        BY <1>1, <2>2
      <3>1. /\ Len(Left) \in Nat /\ Len(Left') = Len(Left) - 1
            /\ \A k \in 1..Len(Left) - 1 : Left'[k] = Left[k + 1]
        BY <1>2, <3>0
      <3>2. CASE i = 1
        <4>1. ~Says(Left', "wait")
          <5> SUFFICES ASSUME NEW k \in 1..Len(Left'), Left'[k].kind = "wait" PROVE FALSE
            BY DEF Says
          <5>1. k + 1 \in 1..Len(Left) /\ Left[k + 1].kind = "wait" /\ k + 1 > 1
            BY <3>1, SMTT(30)
          <5> QED
            BY <2>2, <3>2, <5>1 DEF LastWait
        <4>2. l.kind = "wait" /\ until <= now + l.wait
          BY <2>2, <3>0, <3>2 DEF LastWait
        <4>3. l.wait \in Nat /\ now \in Nat /\ until \in Nat
          BY <1>1, LineTyped, LocalsTyped DEF Typed, ClockTyped
        <4>4. until <= look + l.wait + late'
          <5> DEFINE w == l.wait
          <5>1. /\ w \in Nat /\ look \in Nat /\ late' \in Nat /\ now \in Nat /\ until \in Nat
                /\ until <= now + w /\ now <= look + late'
            BY <1>0, <1>3, <4>2, <4>3
          <5> HIDE DEF w
          <5>2. until <= look + w + late'
            BY <5>1, Earlier
          <5> QED
            BY <5>2 DEF w
        <4> QED
          BY <1>1, <1>3, <4>1, <4>2, <4>4 DEF Owed
      <3>3. CASE i # 1
        <4>1. i - 1 \in 1..Len(Left') /\ Left'[i - 1] = Left[i]
          <5>1. i \in Nat /\ 2 <= i /\ i <= Len(Left)
            BY <3>1, <3>3
          <5>2. i - 1 \in 1..Len(Left) - 1 /\ (i - 1) + 1 = i
            BY <3>1, <5>1
          <5> QED
            BY <3>1, <5>2
        <4>2. ASSUME NEW k \in 1..Len(Left'), Left'[k].kind = "wait" PROVE k <= i - 1
          <5>1. k + 1 \in 1..Len(Left) /\ Left[k + 1].kind = "wait"
            BY <3>1, <4>2, SMTT(30)
          <5>2. k + 1 <= i
            BY <2>2, <5>1 DEF LastWait
          <5> QED
            BY <3>1, <5>2
        <4>3. LastWait(Left', i - 1)
          BY <2>2, <4>1, <4>2 DEF LastWait
        <4> QED
          BY <1>3, <2>2, <4>1, <4>3 DEF Owed
      <3> QED
        BY <3>2, <3>3
    <2> QED
      BY <1>3, <2>1, <2>2 DEF Kept, Owed
  <1>7. run'.pc = "top" /\ run'.status = "none"
    BY <1>0, <1>1 DEF Kept, Unnamed
  <1> QED
    BY <1>5, <1>6, <1>7 DEF Kept, Begun, Unnamed, Reported, At

\* With no more lines left than the tail keeps, the drain hears every declaration.
LEMMA DrainKept ==
  ASSUME Typed, Kept, Drain
  PROVE  Kept'
  <1>1. Running /\ At("drain") /\ UNCHANGED <<history, now, until>>
    BY DEF Drain, Running, At, offspring
  <1>2. CASE run'.pc = "dead"
    BY <1>2 DEF Kept, Begun, Unnamed, Told, Owed, Reported, Running, At
  <1>3. CASE run'.pc # "dead"
    <2> DEFINE rest == Left \o Piece
               tail == KeepLast(run.tail \o rest)
               declared == {run.declared} \cup WaitsIn(tail)
    <2>1. PICK longest \in declared :
             /\ \A w \in declared : longest >= w
             /\ run' = [run EXCEPT !.pc = "status", !.tail = tail,
                                   !.flooded = Len(rest) > TailLines, !.declared = longest,
                                   !.struggle = run.struggle \/ Says(tail, "struggle")]
      BY <1>3 DEF Drain, Left, Typed, RunTyped, Local
    <2>2. /\ run'.pc = "status" /\ run'.status = run.status
          /\ (run'.flooded <=> Len(rest) > TailLines)
          /\ run'.declared = longest
          /\ (run'.struggle <=> run.struggle \/ Says(tail, "struggle"))
      <3> HIDE DEF tail, declared, rest
      <3> QED
        BY <2>1 DEF Typed, RunTyped, Local
    <2>0. Left \in Seq(Line) /\ Piece \in Seq(Line)
      BY LocalsTyped, PieceTyped DEF Left
    <2>3. rest \in Seq(Line) /\ run.tail \in Seq(Line)
      BY <2>0 DEF Typed, RunTyped, Local
    <2>8. Says(rest, "struggle") <=> Says(Left, "struggle")
      <3>1. ~Says(Piece, "struggle")
        BY DEF Piece, Text, Says
      <3> QED
        BY <2>0, <3>1, SaysConcat
    <2>9. \A i \in 1..Len(Left) : i \in 1..Len(rest) /\ rest[i] = Left[i]
      BY <2>0
    <2> HIDE DEF rest
    <2>4. run.tail \o rest \in Seq(Line) /\ Len(rest) \in Nat
      BY <2>3
    <2>5. ASSUME ~run'.flooded PROVE run'.struggle <=> StruggleVerdict(history')
      <3>1. Len(rest) <= TailLines
        BY <2>2, <2>4, <2>5
      <3>2. Says(rest, "struggle") => Says(tail, "struggle")
        BY <2>3, <3>1, KeepLastSaysEnd
      <3>3. Says(tail, "struggle") => Says(run.tail, "struggle") \/ Says(rest, "struggle")
        BY <2>3, <2>4, KeepLastSays, SaysConcat
      <3> HIDE DEF tail
      <3> QED
        BY <1>1, <2>2, <2>8, <3>2, <3>3 DEF Kept, Told
    <2>6. ASSUME ~run'.flooded PROVE until' <= now' + run'.declared
      <3>1. Len(rest) <= TailLines
        BY <2>2, <2>4, <2>6
      <3>2. now \in Nat /\ until \in Nat
        BY DEF Typed, ClockTyped
      <3>3. \A w \in declared : w \in Nat
        <4>1. tail \in Seq(Line)
          BY <2>4, KeepLastTyped
        <4>2. run.declared \in Nat
          BY DEF Typed, RunTyped, Local
        <4> HIDE DEF tail
        <4> QED
          BY <4>1, <4>2, LineTyped DEF WaitsIn
      <3>4. \E w \in declared : until <= now + w
        <4>1. CASE until <= now + run.declared
          BY <4>1
        <4>2. ASSUME NEW i \in 1..Len(Left), LastWait(Left, i), until <= now + Left[i].wait
              PROVE  \E w \in declared : until <= now + w
          <5>1. PICK j \in 1..Len(tail) : tail[j] = Left[i]
            <6>1. i \in 1..Len(rest) /\ rest[i] = Left[i]
              BY <2>9
            <6>2. \A k \in 1..Len(rest) : \E j \in 1..Len(tail) : tail[j] = rest[k]
              BY <2>3, <3>1, KeepLastEnd
            <6> QED
              BY <6>1, <6>2, Zenon
          <5>2. tail[j].kind = "wait"
            BY <4>2, <5>1 DEF LastWait
          <5> HIDE DEF tail
          <5>3. tail[j].wait \in WaitsIn(tail)
            BY <5>2 DEF WaitsIn
          <5> QED
            BY <4>2, <5>1, <5>3
        <4> HIDE DEF declared
        <4> QED
          BY <1>1, <4>1, <4>2 DEF Kept, Owed
      <3> HIDE DEF declared, tail
      <3>5. PICK w \in declared : until <= now + w
        BY <3>4
      <3>6. w \in Nat /\ longest \in Nat /\ w <= longest
        BY <2>1, <3>3
      <3>7. until <= now + longest
        BY <3>2, <3>5, <3>6
      <3> QED
        BY <1>1, <2>2, <3>7
    <2>7. run'.status = "none"
      BY <1>1, <2>2 DEF Kept, Unnamed, At
    <2> HIDE DEF tail, declared
    <2> QED
      BY <2>2, <2>5, <2>6, <2>7 DEF Kept, Begun, Unnamed, Told, Owed, Reported, Running, At
  <1> QED
    BY <1>2, <1>3

\* Named: a clean cycle announced no struggle, and a quota wait lasts as long as what
\* is declared; a cooldown taken from a readback is no shorter than nothing declared.
LEMMA StatusKept ==
  ASSUME Typed, Kept, CycleStatus
  PROVE  Kept'
  <1>1. At("status") /\ UNCHANGED <<history, now, until>>
    BY DEF CycleStatus, offspring, world
  <1>2. run \in Local /\ now \in Nat /\ until \in Nat /\ run.declared \in Nat
    BY DEF Typed, ClockTyped, RunTyped, Local
  <1>3. ASSUME NEW status \in Statuses, NEW cooldown \in Nat, Classified(status, cooldown),
               status = "ok" => ~run.struggle,
               status = "quota_wait" =>
                  /\ cooldown > 0 /\ cooldown >= run.declared
                  /\ run.declared = 0 => Bounded(cooldown)
        PROVE  Kept'
    <2>1. /\ run'.pc = "sleep" /\ run'.status = status /\ run'.cooldown = cooldown
          /\ run'.flooded = run.flooded /\ run'.struggle = run.struggle
          /\ run'.declared = run.declared
      BY <1>2, <1>3 DEF Classified, Local
    <2>2. status = "quota_wait" /\ until <= now + run.declared => until <= now + cooldown
      BY <1>2, <1>3
    <2> QED
      BY <1>1, <1>3, <2>1, <2>2 DEF Kept, Begun, Unnamed, Told, Owed, Reported, Running, At
  <1>4. CASE run' = [run EXCEPT !.pc = "dead"]
    <2>1. run'.pc = "dead"
      BY <1>2, <1>4 DEF Local
    <2> QED
      BY <2>1 DEF Kept, Begun, Unnamed, Told, Owed, Reported, Running, At
  <1>5. \/ ~run.struggle /\ Classified("ok", 0)
        \/ run.declared > 0 /\ Classified("quota_wait", run.declared)
        \/ ~(run.declared > 0) /\ \E full \in BOOLEAN, wait \in Resets :
              Classified("quota_wait", RateLimitCooldown(full, wait))
        \/ run' = [run EXCEPT !.pc = "dead"]
        \/ Classified("struggle_detected", Backoff)
        \/ \E cooldown \in {Backoff, 0} : Classified("failed", cooldown)
    BY DEF CycleStatus
  <1>6. \A full \in BOOLEAN, wait \in Resets :
           /\ RateLimitCooldown(full, wait) \in Nat /\ RateLimitCooldown(full, wait) > 0
           /\ Bounded(RateLimitCooldown(full, wait))
    BY DEF RateLimitCooldown, Bounded
  <1>7. ASSUME ~(run.declared > 0), NEW full \in BOOLEAN, NEW wait \in Resets,
               Classified("quota_wait", RateLimitCooldown(full, wait))
        PROVE  Kept'
    <2>1. RateLimitCooldown(full, wait) >= run.declared
      <3> DEFINE c == RateLimitCooldown(full, wait)
      <3>1. c \in Nat /\ run.declared \in Nat /\ ~(run.declared > 0)
        BY <1>2, <1>6, <1>7
      <3> HIDE DEF c
      <3>2. c >= run.declared
        BY <3>1
      <3> QED
        BY <3>2 DEF c
    <2> QED
      BY <1>3, <1>6, <1>7, <2>1 DEF Statuses
  <1>8. Backoff \in Nat /\ 0 \in Nat
    OBVIOUS
  <1>9. run.declared >= run.declared
    BY <1>2
  <1>10. {"ok", "quota_wait", "struggle_detected", "failed"} \subseteq Statuses
    BY DEF Statuses
  <1>11. CASE ~run.struggle /\ Classified("ok", 0)
    BY <1>3, <1>8, <1>10, <1>11
  <1>12. CASE run.declared > 0 /\ Classified("quota_wait", run.declared)
    BY <1>2, <1>3, <1>9, <1>10, <1>12
  <1>13. CASE Classified("struggle_detected", Backoff)
    BY <1>3, <1>8, <1>10, <1>13
  <1>14. ASSUME NEW cooldown \in {Backoff, 0}, Classified("failed", cooldown)
         PROVE  Kept'
    BY <1>3, <1>8, <1>10, <1>14
  <1> QED
    BY <1>4, <1>5, <1>7, <1>11, <1>12, <1>13, <1>14

LEMMA NextKept ==
  ASSUME Typed, Timed, Kept, [Next]_vars
  PROVE  Kept'
  <1>1. CASE UNCHANGED vars
    BY <1>1 DEF vars, world, offspring, Kept, Begun, Unnamed, Told, Owed, Reported, Running, At,
                Left
  <1>2. CASE HealFails
    <2>1. /\ At("start") /\ UNCHANGED history
          /\ run'.pc = "sleep" /\ run'.status = "failed" /\ ~run'.struggle
      BY <1>2 DEF HealFails, offspring, Rest, Fresh
    <2> QED
      BY <2>1, HistoryEmpty DEF Kept, Begun, Unnamed, Told, Owed, Reported, Running, At
  <1>3. CASE Sleep
    <2>1. Init'
      BY <1>3 DEF Sleep, Init
    <2>2. /\ run'.pc = "start" /\ run' = Fresh /\ run'.status = "none"
          /\ history' = <<>> /\ buf' = <<>> /\ pipe' = <<>> /\ until' = 0
      BY <2>1 DEF Init, Fresh
    <2> QED
      BY <2>2 DEF Kept, Begun, Unnamed, Told, Owed, Reported, Running, At
  <1>4. CASE Quiet \/ ReadLine \/ ReadResumes \/ Drain \/ CycleStatus
    BY <1>4, QuietKept, ReadKept, DrainKept, StatusKept
  <1>5. CASE \/ Prints \/ ChildEnds \/ ChildShuts \/ OrphanEnds \/ Tick
             \/ \E a \in Attempt : RepairCounted(a)
    BY <1>5, ChildKept
  <1> QED
    BY <1>1, <1>2, <1>3, <1>4, <1>5 DEF Next, RunnerStep, Quiet

\* For every threshold, tail and history: a generation whose attempts stopped producing
\* evidence says so on its receipt, and no other generation is blamed.
THEOREM StruggleReported == Spec => []StruggleOnReceipt
  <1>1. Counted /\ Kept => StruggleOnReceipt
    BY DEF Counted, Kept, Unnamed, Reported, StruggleOnReceipt, At
  <1>2. Init => Counted
    <2>1. NoEvidence <=> NoEvidenceIn(history)
      BY DEF NoEvidence, NoEvidenceIn, SameAgain, CameBack
    <2> QED
      BY <2>1, HistoryEmpty DEF Init, Counted
  <1> QED
    BY <1>1, <1>2, InitTyped, NextTyped, InitTimed, NextTimed, NextCounted, InitKept, NextKept, PTL DEF Spec

\* For every wait that may be declared and every cooldown: the runner waits, and waits
\* for as long as the wait that was declared last - and never longer than the longest of
\* the three cooldowns for a wait that was not declared.
THEOREM QuotaWaited == Spec => []QuotaIsWaited
  <1>1. Typed /\ Kept => QuotaIsWaited
    <2> SUFFICES ASSUME Typed, Kept, At("sleep"), run.status = "quota_wait"
                 PROVE  /\ run.cooldown > 0 /\ (~run.flooded => now + run.cooldown >= until)
                        /\ run.declared = 0 => Bounded(run.cooldown)
      BY DEF QuotaIsWaited, Bounded
    <2>1. /\ run.cooldown > 0 /\ (~run.flooded => until <= now + run.cooldown)
          /\ run.declared = 0 => Bounded(run.cooldown)
      BY DEF Kept, Reported
    <2>2. run.cooldown \in Nat /\ now \in Nat /\ until \in Nat
      BY DEF Typed, RunTyped, Local, ClockTyped
    <2> QED
      BY <2>1, <2>2
  <1> QED
    BY <1>1, InitTyped, NextTyped, InitTimed, NextTimed, InitKept, NextKept, PTL DEF Spec

\* Nor is one ended so within the wait that it declared last, once the runner read it,
\* but for the time that readline was blocked.
LEMMA WedgedAfterWait ==
  ASSUME Typed, Kept, [Next]_vars, At("select"), run'.pc = "stop", run'.reason = "wedge"
  PROVE  until <= now + late \/ Says(buf \o pipe, "wait")
  <1>1. now >= run.quota
    BY WedgeStep DEF Wedges
  <1>2. Running /\ run.pc = "select"
    BY DEF At, Running
  <1>3. CASE until <= run.quota + late
    <2>1. run.quota \in Nat /\ now \in Nat /\ until \in Nat /\ late \in Nat
      BY DEF Typed, RunTyped, Local, ClockTyped
    <2> QED
      BY <1>1, <1>3, <2>1
  <1>4. CASE \E i \in 1..Len(Left) : LastWait(Left, i)
    BY <1>4 DEF LastWait, Says, Left
  <1> QED
    BY <1>2, <1>3, <1>4 DEF Kept, Owed

\* For every deadline, and wherever a line breaks off: the clock passes the rotation of
\* a generation only while readline waits for the end of a line that somebody may still
\* end, no line is read after it, and no generation is killed as wedged that was heard
\* from within the wedge deadline or, as far as the runner has read, still waits for what
\* it declared - within the time that readline was blocked.
THEOREM DeadlinesHold == Spec => EndedInTime
  <1>1. Typed /\ Timed /\ Kept /\ [Next]_vars =>
           [/\ now' > now => now' <= Rotate \/ (At("reading") /\ buf \o pipe = <<>> /\ piece # "no" /\ Open)
            /\ At("select") /\ now >= Rotate /\ run' # run => run'.reason = "rotation"
            /\ At("select") /\ run'.pc = "stop" /\ run'.reason = "wedge"
                 => /\ older + Wedge <= now + late \/ older + 1 = now
                    /\ until <= now + late \/ Says(buf \o pipe, "wait")]_vars
    BY ClockInTime, PastRotation, WedgedSilent, WedgedAfterWait DEF Left
  <1> QED
    BY <1>1, InitTyped, NextTyped, InitTimed, NextTimed, InitKept, NextKept, PTL
       DEF Spec, EndedInTime
=============================================================================
