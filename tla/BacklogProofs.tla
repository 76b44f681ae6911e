--------------------------- MODULE BacklogProofs ---------------------------
(***************************************************************************)
(* For any number of roots and issues: the types of the backlog; that a    *)
(* hold is what the history of empty cycles asks for; that the closure     *)
(* sweep reopens nothing in silence; and that a sync does not overwrite    *)
(* what was written before it began, as long as no other root writes to    *)
(* issues between its listing and its end.                                 *)
(***************************************************************************)
EXTENDS Backlog, FiniteSetTheorems, WellFoundedInduction, TLAPS

\* Numbers: every set of them has a least one, and the powers of two are among them.
LEMMA Least ==
  ASSUME NEW S, S \subseteq Nat, S # {}
  PROVE  \E x \in S : \A y \in S : x <= y
  <1>1. PICK x \in S : \A y \in S : <<y, x>> \notin OpToRel(<, Nat)
    BY NatLessThanWellFounded, WFMin
  <1>2. \A y \in S : ~(y < x)
    BY <1>1 DEF OpToRel
  <1> QED
    BY <1>2

LEMMA MinIsLeast ==
  ASSUME NEW S, S \subseteq Nat, S # {}
  PROVE  Min(S) \in S /\ \A y \in S : Min(S) <= y
  BY Least, Zenon DEF Min

LEMMA PowerIsNat ==
  ASSUME NEW k \in Nat
  PROVE  2 ^ k \in Nat
  <1>1. IsFiniteSet(1 .. k) /\ Cardinality(1 .. k) = k
    BY FS_Interval
  <1>2. IsFiniteSet(SUBSET (1 .. k)) /\ Cardinality(SUBSET (1 .. k)) = 2 ^ k
    BY <1>1, FS_SUBSET
  <1> QED
    BY <1>2, FS_CardinalityType

LEMMA BackoffType ==
  ASSUME NEW n \in Nat
  PROVE  Backoff(n) \in 0 .. Ceiling
  <1> USE BackoffAssumption
  <1>1. CASE n = 0
    BY <1>1 DEF Backoff
  <1>2. CASE n # 0
    <2>1. 2 ^ (n - 1) \in Nat
      BY <1>2, PowerIsNat
    <2> DEFINE S == {2 ^ (n - 1), Ceiling}
    <2>2. Min(S) \in S /\ Min(S) <= Ceiling
      BY <2>1, MinIsLeast
    <2>3. Min(S) \in 0 .. Ceiling
      BY <2>1, <2>2
    <2> QED
      BY <1>2, <2>3 DEF Backoff
  <1> QED
    BY <1>1, <1>2

LEMMA LongerType ==
  ASSUME NEW n \in 0 .. MaxEmpty
  PROVE  Longer(n) \in 0 .. MaxEmpty
  <1> DEFINE S == {n + 1, MaxEmpty}
  <1>1. S \subseteq Nat /\ S # {}
    BY BackoffAssumption
  <1>2. Min(S) \in S /\ Min(S) <= MaxEmpty
    BY <1>1, MinIsLeast
  <1> QED
    BY <1>1, <1>2, BackoffAssumption DEF Longer
-----------------------------------------------------------------------------
Listing == UNION {[some -> Body] : some \in SUBSET Issue}
Issues == [provider : Provider, body : Body]
Record == [stage : {"none", "finalists", "complete"}, finalists : Listing,
           items : [Issue -> Status], empty : 0 .. MaxEmpty, hold : 0 .. Ceiling]
Steps == {"idle", "derive", "item", "verify", "patch", "comment", "surface"}
Cycle == [at : Steps, resumed : BOOLEAN, todo : SUBSET Issue, items : [Issue -> Status],
          started : [Issue -> 0 .. MaxEdits + 1]]
Closures == [at : {"idle", "take", "post", "reopen"}, closed : Listing, thread : SUBSET Comment]

InHand == {"verify", "patch", "comment", "surface"}

\* A cycle past its listing works on the finalists of its record, and has one in hand
\* between two calls for it; so has the closure sweep.
Working(r) ==
    /\ sync[r].at \notin {"idle", "derive"} =>
           record[r].stage = "finalists" /\ sync[r].todo \subseteq DOMAIN record[r].finalists
    /\ sync[r].at \in InHand => sync[r].todo # {}
Sweeping == sweep.at # "idle" => DOMAIN sweep.closed # {}

Provided == issue \in [Issue -> Issues] /\ thread \in [Issue -> SUBSET Comment]
            /\ named \in [Issue -> SUBSET Issue] /\ adding \subseteq Issue
Local == record \in [Root -> Record] /\ sync \in [Root -> Cycle] /\ streak \in [Root -> 0 .. MaxEmpty]
Bounds == edits \in 0 .. MaxEdits /\ failures \in 0 .. MaxFailures
Typed ==
    /\ Provided /\ Local /\ sweep \in Closures /\ Bounds
    /\ \A r \in Root : Working(r)
    /\ Sweeping

LEMMA ListingValues ==
  ASSUME NEW f \in Listing
  PROVE  /\ DOMAIN f \subseteq Issue /\ \A i \in DOMAIN f : f[i] \in Body
         /\ DOMAIN f \subseteq Nat /\ (DOMAIN f # {} => Min(DOMAIN f) \in DOMAIN f)
  <1>1. PICK some \in SUBSET Issue : f \in [some -> Body]
    BY DEF Listing
  <1>2. DOMAIN f \subseteq Issue /\ \A i \in DOMAIN f : f[i] \in Body
    BY <1>1
  <1>3. DOMAIN f \subseteq Nat
    BY <1>2, IssueAssumption
  <1> QED
    BY <1>2, <1>3, MinIsLeast

LEMMA ListingMade ==
  ASSUME NEW D \in SUBSET Issue, NEW f \in [D -> Body]
  PROVE  f \in Listing
  BY DEF Listing

\* What a cycle works on.
LEMMA CycleValues ==
  ASSUME Typed, NEW r \in Root
  PROVE  /\ sync[r] \in Cycle /\ record[r] \in Record /\ record[r].finalists \in Listing
         /\ sync[r].todo \subseteq Issue
         /\ sync[r].todo # {} => Current(r) \in sync[r].todo /\ Current(r) \in Issue
         /\ sync[r].at \in InHand \cup {"item"} /\ sync[r].todo # {} =>
                Current(r) \in DOMAIN record[r].finalists /\ Finalist(r) \in Body
  <1>1. sync[r] \in Cycle /\ record[r] \in Record
    BY DEF Typed, Local
  <1>2. record[r].finalists \in Listing /\ sync[r].todo \subseteq Issue
    BY <1>1 DEF Cycle, Record
  <1>3. ASSUME sync[r].todo # {} PROVE Current(r) \in sync[r].todo
    BY <1>2, <1>3, MinIsLeast, IssueAssumption DEF Current
  <1>4. ASSUME sync[r].at \in InHand \cup {"item"}, sync[r].todo # {}
        PROVE  Current(r) \in DOMAIN record[r].finalists /\ Finalist(r) \in Body
    <2>1. sync[r].todo \subseteq DOMAIN record[r].finalists
      BY <1>4 DEF Typed, Working, InHand
    <2> QED
      BY <1>2, <1>3, <1>4, <2>1, ListingValues DEF Finalist
  <1> QED
    BY <1>1, <1>2, <1>3, <1>4

\* The fields of a cycle, one replaced.
LEMMA CycleSet ==
  ASSUME NEW c \in Cycle
  PROVE  /\ \A v \in Steps : LET d == [c EXCEPT !.at = v]
                            IN  /\ d \in Cycle /\ d.at = v /\ d.todo = c.todo
                                /\ d.resumed = c.resumed /\ d.started = c.started /\ d.items = c.items
         /\ \A v \in SUBSET Issue : LET d == [c EXCEPT !.todo = v]
                            IN  /\ d \in Cycle /\ d.at = c.at /\ d.todo = v
                                /\ d.resumed = c.resumed /\ d.started = c.started /\ d.items = c.items
         /\ \A i \in Issue, v \in Status : LET d == [c EXCEPT !.items[i] = v]
                            IN  /\ d \in Cycle /\ d.at = c.at /\ d.todo = c.todo
                                /\ d.resumed = c.resumed /\ d.started = c.started
  BY DEF Cycle

\* What the steps of a cycle do to it.
OthersRest(r) == sync' \in [Root -> Cycle] /\ \A q \in Root \ {r} : sync'[q] = sync[q]
SameCycle(r) == sync'[r].resumed = sync[r].resumed /\ sync'[r].started = sync[r].started
Reported(r) == sync'[r].at = "item" /\ sync'[r].todo = sync[r].todo \ {Current(r)}

LEMMA ReportEffect ==
  ASSUME Typed, NEW r \in Root, NEW status \in Status, sync[r].todo # {}, Report(r, status)
  PROVE  OthersRest(r) /\ SameCycle(r) /\ Reported(r)
  <1>1. sync \in [Root -> Cycle] /\ sync[r] \in Cycle /\ Current(r) \in Issue
        /\ sync[r].todo \ {Current(r)} \in SUBSET Issue
    BY CycleValues DEF Typed, Local
  <1> DEFINE a == [sync[r] EXCEPT !.at = "item"]
             b == [a EXCEPT !.todo = sync[r].todo \ {Current(r)}]
             c == [b EXCEPT !.items[Current(r)] = status]
  <1>2. a \in Cycle /\ a.at = "item" /\ a.todo = sync[r].todo
        /\ a.resumed = sync[r].resumed /\ a.started = sync[r].started /\ a.items = sync[r].items
    BY <1>1, CycleSet DEF Steps
  <1>3. sync' = [sync EXCEPT ![r] = c]
    BY <1>1, <1>2 DEF Report, Cycle
  <1> HIDE DEF a
  <1>4. b \in Cycle /\ b.at = "item" /\ b.todo = sync[r].todo \ {Current(r)}
        /\ b.resumed = sync[r].resumed /\ b.started = sync[r].started
    BY <1>1, <1>2, CycleSet
  <1> HIDE DEF b
  <1>5. c \in Cycle /\ c.at = "item" /\ c.todo = sync[r].todo \ {Current(r)}
        /\ c.resumed = sync[r].resumed /\ c.started = sync[r].started
    BY <1>1, <1>4, CycleSet
  <1> HIDE DEF c
  <1> QED
    BY <1>1, <1>3, <1>5 DEF OthersRest, SameCycle, Reported

LEMMA TypedIsTypeOK == Typed => TypeOK
  <1> SUFFICES ASSUME Typed PROVE TypeOK
    OBVIOUS
  <1>1. \A f \in Listing : IsListing(f)
    BY DEF Listing, IsListing
  <1>2. \A r \in Root : record[r] \in Record /\ sync[r] \in Cycle
    BY DEF Typed, Local
  <1>3. sweep \in Closures
    BY DEF Typed
  <1> QED
    BY <1>1, <1>2, <1>3 DEF TypeOK, Typed, Provided, Local, Bounds, Record, Cycle, Closures, Steps, Issues
-----------------------------------------------------------------------------
\* What is written to an issue.
LEMMA CuredType ==
  ASSUME NEW b \in Body
  PROVE  Cured(b) \in Body /\ Cured(b).text = b.text
  BY DEF Cured, Body

BodyWritten(i, b) ==
    /\ issue'[i].body = b /\ issue'[i].provider = issue[i].provider
    /\ \A j \in Issue \ {i} : issue'[j] = issue[j]

LEMMA WriteEffect ==
  ASSUME Typed, NEW i \in Issue, NEW b \in Body, issue' = [issue EXCEPT ![i].body = b]
  PROVE  issue' \in [Issue -> Issues] /\ BodyWritten(i, b)
  <1>1. issue \in [Issue -> Issues] /\ issue[i] \in Issues
    BY DEF Typed, Provided
  <1> DEFINE new == [issue[i] EXCEPT !.body = b]
  <1>2. new \in Issues /\ new.body = b /\ new.provider = issue[i].provider
    BY <1>1 DEF Issues
  <1>3. issue' = [issue EXCEPT ![i] = new]
    BY <1>1
  <1> HIDE DEF new
  <1> QED
    BY <1>1, <1>2, <1>3 DEF BodyWritten

LEMMA ThreadEffect ==
  ASSUME Typed, NEW i \in Issue, NEW c \in Comment, thread' = [thread EXCEPT ![i] = @ \cup {c}]
  PROVE  thread' \in [Issue -> SUBSET Comment] /\ \A j \in Issue : thread[j] \subseteq thread'[j]
  BY DEF Typed, Provided

\* What judging an issue does to the cycle.
Judged(r) == Reported(r) \/ (sync'[r].at = "surface" /\ sync'[r].todo = sync[r].todo)
HandedOn(r, step) == sync'[r].at = step /\ sync'[r].todo = sync[r].todo

LEMMA HandOnEffect ==
  ASSUME Typed, NEW r \in Root, NEW step \in Steps, sync' = [sync EXCEPT ![r].at = step]
  PROVE  OthersRest(r) /\ SameCycle(r) /\ HandedOn(r, step)
  <1>1. sync \in [Root -> Cycle] /\ sync[r] \in Cycle
    BY DEF Typed, Local
  <1> DEFINE new == [sync[r] EXCEPT !.at = step]
  <1>2. new \in Cycle /\ new.at = step /\ new.todo = sync[r].todo
        /\ new.resumed = sync[r].resumed /\ new.started = sync[r].started
    BY <1>1, CycleSet
  <1>3. sync' = [sync EXCEPT ![r] = new]
    BY <1>1
  <1> HIDE DEF new
  <1> QED
    BY <1>1, <1>2, <1>3 DEF OthersRest, SameCycle, HandedOn

LEMMA DecideEffect ==
  ASSUME Typed, NEW r \in Root, NEW status \in Status, sync[r].todo # {}, Decide(r, status)
  PROVE  OthersRest(r) /\ SameCycle(r) /\ Judged(r)
  <1>1. CASE EldersOf(r) = {}
    BY <1>1, ReportEffect DEF Decide, Judged
  <1>2. CASE EldersOf(r) # {}
    <2>1. sync \in [Root -> Cycle] /\ sync[r] \in Cycle /\ Current(r) \in Issue
      BY CycleValues DEF Typed, Local
    <2> DEFINE a == [sync[r] EXCEPT !.at = "surface"]
               c == [a EXCEPT !.items[Current(r)] = status]
    <2>2. a \in Cycle /\ a.at = "surface" /\ a.todo = sync[r].todo
          /\ a.resumed = sync[r].resumed /\ a.started = sync[r].started /\ a.items = sync[r].items
      BY <2>1, CycleSet DEF Steps
    <2>3. sync' = [sync EXCEPT ![r] = c]
      BY <1>2, <2>1, <2>2 DEF Decide, Cycle
    <2> HIDE DEF a
    <2>4. c \in Cycle /\ c.at = "surface" /\ c.todo = sync[r].todo
          /\ c.resumed = sync[r].resumed /\ c.started = sync[r].started
      BY <2>1, <2>2, CycleSet
    <2> HIDE DEF c
    <2> QED
      BY <2>1, <2>3, <2>4 DEF OthersRest, SameCycle, Judged
  <1> QED
    BY <1>1, <1>2

LEMMA JudgeEffect ==
  ASSUME Typed, NEW r \in Root, NEW b, sync[r].todo # {}, Judge(r, b)
  PROVE  OthersRest(r) /\ SameCycle(r) /\ Judged(r)
  <1>1. CASE ~Parses(Current(r), b)
    BY <1>1, ReportEffect DEF Judge, Judged, Status
  <1>2. CASE Parses(Current(r), b)
    <2>1. PICK status \in Status : Decide(r, status)
      BY <1>2 DEF Judge, Status
    <2> QED
      BY <2>1, DecideEffect
  <1> QED
    BY <1>1, <1>2
-----------------------------------------------------------------------------
\* The calls a cycle makes for the issue it has in hand: where they lead, and what they write.
Call(r) ==
    \/ Plan(r) \/ VerifyLive(r) \/ Patch(r) \/ PostIntake(r) \/ Surface(r)
    \/ SurfaceFails(r) \/ CallFails(r) \/ DependencyReadFails(r)

Advances(r) ==
    \/ Reported(r)
    \/ sync'[r].at \in {"comment", "surface"} /\ sync'[r].todo = sync[r].todo
    \/ sync[r].at = "item" /\ HandedOn(r, NextCall(r)) /\ issue' = issue
    \/ /\ sync[r].at = "verify" /\ HandedOn(r, "patch") /\ issue' = issue
       /\ issue[Current(r)].body = Finalist(r)

Patched(r) == sync[r].at = "patch" /\ BodyWritten(Current(r), Cured(Finalist(r)))

Called(r) ==
    /\ OthersRest(r) /\ SameCycle(r) /\ Advances(r)
    /\ issue' = issue \/ Patched(r)
    /\ Provided' /\ \A i \in Issue : thread[i] \subseteq thread'[i]
    /\ UNCHANGED <<adding, record, sweep, streak, edits>> /\ failures' \in 0 .. MaxFailures

LEMMA CallStarts ==
  ASSUME Typed, NEW r \in Root, Call(r)
  PROVE  sync[r].at \in InHand \cup {"item"} /\ sync[r].todo # {}
  BY DEF Call, Plan, VerifyLive, Patch, PostIntake, Surface, SurfaceFails, CallFails,
         DependencyReadFails, Typed, Working, InHand

LEMMA CallEffect ==
  ASSUME Typed, NEW r \in Root, Call(r)
  PROVE  Called(r)
  <1>0. /\ sync[r].todo # {} /\ Current(r) \in Issue /\ Finalist(r) \in Body
        /\ sync[r].items[Current(r)] \in Status /\ NextCall(r) \in Steps
    BY CallStarts, CycleValues DEF Cycle, NextCall, Steps
  <1>1. failures \in 0 .. MaxFailures
        /\ (failures < MaxFailures /\ failures' = failures + 1 => failures' \in 0 .. MaxFailures)
    BY BoundsAssumption DEF Typed, Bounds
  <1>2. Provided
    BY DEF Typed
  <1>3. CASE Plan(r)
    <2>1. OthersRest(r) /\ SameCycle(r) /\ (Judged(r) \/ HandedOn(r, NextCall(r)))
      BY <1>0, <1>3, HandOnEffect, JudgeEffect DEF Plan
    <2>2. Advances(r)
      BY <1>3, <2>1 DEF Plan, Advances, Judged
    <2> QED
      BY <1>1, <1>2, <1>3, <2>1, <2>2 DEF Plan, Called, Provided
  <1>4. CASE VerifyLive(r)
    <2>1. OthersRest(r) /\ SameCycle(r) /\ Advances(r)
      BY <1>0, <1>4, HandOnEffect, ReportEffect DEF VerifyLive, Advances, Status, Steps
    <2> QED
      BY <1>1, <1>2, <1>4, <2>1 DEF VerifyLive, Called, Provided
  <1>5. CASE Patch(r)
    <2>1. OthersRest(r) /\ SameCycle(r) /\ Advances(r)
      BY <1>0, <1>5, HandOnEffect, JudgeEffect DEF Patch, Advances, Judged, HandedOn, Steps
    <2>2. issue' \in [Issue -> Issues] /\ Patched(r)
      BY <1>0, <1>5, CuredType, WriteEffect DEF Patch, Patched
    <2> QED
      BY <1>1, <1>2, <1>5, <2>1, <2>2 DEF Patch, Called, Provided
  <1>6. CASE PostIntake(r)
    <2>1. OthersRest(r) /\ SameCycle(r) /\ Advances(r)
      BY <1>0, <1>6, JudgeEffect DEF PostIntake, Advances, Judged
    <2>2. thread' \in [Issue -> SUBSET Comment] /\ \A i \in Issue : thread[i] \subseteq thread'[i]
      BY <1>0, <1>6, ThreadEffect DEF PostIntake, Comment
    <2> QED
      BY <1>1, <1>2, <1>6, <2>1, <2>2 DEF PostIntake, Called, Provided
  <1>7. EldersOf(r) \subseteq Issue
    BY <1>0, CallStarts, CycleValues, ListingValues DEF EldersOf, Elders
  <1>8. CASE Surface(r) \/ SurfaceFails(r)
    <2>1. Report(r, sync[r].items[Current(r)])
      BY <1>8 DEF Surface, SurfaceFails
    <2>2. OthersRest(r) /\ SameCycle(r) /\ Advances(r)
      BY <1>0, <2>1, ReportEffect DEF Advances
    <2>3. PICK posted \in SUBSET Issue : named' = [named EXCEPT ![Current(r)] = @ \cup posted]
      BY <1>7, <1>8 DEF Surface, SurfaceFails
    <2>4. named' \in [Issue -> SUBSET Issue]
      BY <1>0, <1>2, <2>3 DEF Provided
    <2> QED
      BY <1>1, <1>2, <1>8, <2>2, <2>4 DEF Surface, SurfaceFails, Called, Provided
  <1>9. CASE CallFails(r)
    <2>1. OthersRest(r) /\ SameCycle(r) /\ Advances(r)
      BY <1>0, <1>9, ReportEffect DEF CallFails, Advances, Status
    <2>2. CASE UNCHANGED <<issue, thread>>
      BY <1>1, <1>2, <1>9, <2>1, <2>2 DEF CallFails, Called, Provided
    <2>3. CASE /\ sync[r].at = "patch" /\ UNCHANGED thread
               /\ issue' = [issue EXCEPT ![Current(r)].body = Cured(Finalist(r))]
      <3>1. issue' \in [Issue -> Issues] /\ Patched(r)
        BY <1>0, <2>3, CuredType, WriteEffect DEF Patched
      <3> QED
        BY <1>1, <1>2, <1>9, <2>1, <2>3, <3>1 DEF CallFails, Called, Provided
    <2>4. CASE /\ sync[r].at = "comment" /\ UNCHANGED issue
               /\ thread' = [thread EXCEPT ![Current(r)] = @ \cup {"intake"}]
      <3>1. thread' \in [Issue -> SUBSET Comment] /\ \A i \in Issue : thread[i] \subseteq thread'[i]
        BY <1>0, <2>4, ThreadEffect DEF Comment
      <3> QED
        BY <1>1, <1>2, <1>9, <2>1, <2>4, <3>1 DEF CallFails, Called, Provided
    <2> QED
      BY <1>9, <2>2, <2>3, <2>4 DEF CallFails
  <1>10. CASE DependencyReadFails(r)
    <2>1. OthersRest(r) /\ SameCycle(r) /\ Advances(r)
      BY <1>0, <1>10, DecideEffect DEF DependencyReadFails, Advances, Judged, Status
    <2> QED
      BY <1>1, <1>2, <1>10, <2>1 DEF DependencyReadFails, Called, Provided
  <1> QED
    BY <1>3, <1>4, <1>5, <1>6, <1>8, <1>9, <1>10 DEF Call
-----------------------------------------------------------------------------
\* How a cycle begins and ends.
LEMMA IdleType == Idle \in Cycle /\ Idle.at = "idle" /\ None \in [Issue -> Status]
  <1>1. None \in [Issue -> Status]
    BY DEF None, Status
  <1>2. [i \in Issue |-> 0] \in [Issue -> 0 .. MaxEdits + 1]
    BY BoundsAssumption
  <1> QED
    BY <1>1, <1>2 DEF Idle, Cycle, Steps

LEMMA LiveListing ==
  ASSUME Typed
  PROVE  /\ Live \in Listing /\ DOMAIN Live \in SUBSET Issue
         /\ \A i \in DOMAIN Live : issue[i].provider = "open" /\ Live[i] = issue[i].body
  <1> DEFINE D == {j \in Issue : issue[j].provider = "open"}
  <1>1. Live \in [D -> Body] /\ D \in SUBSET Issue /\ DOMAIN Live = D
        /\ \A i \in D : issue[i].provider = "open" /\ Live[i] = issue[i].body
    BY DEF Live, Typed, Provided, Issues
  <1> HIDE DEF D
  <1>2. Live \in Listing
    BY <1>1, ListingMade
  <1> QED
    BY <1>1, <1>2

LEMMA BeginEffect ==
  ASSUME Typed, NEW r \in Root, SyncBegins(r)
  PROVE  /\ OthersRest(r) /\ \A i \in Issue : sync'[r].started[i] = issue[i].body.text
         /\ \/ sync'[r].at = "derive" /\ ~sync'[r].resumed
            \/ /\ sync'[r].at = "item" /\ sync'[r].resumed
               /\ record[r].stage = "finalists" /\ sync'[r].todo = DOMAIN record[r].finalists
  <1> DEFINE resumed == record[r].stage = "finalists"
             todo == IF resumed THEN DOMAIN record[r].finalists ELSE {}
             texts == [i \in Issue |-> issue[i].body.text]
             new == [at |-> IF resumed THEN "item" ELSE "derive", resumed |-> resumed, todo |-> todo,
                     items |-> None, started |-> texts]
  <1>1. sync \in [Root -> Cycle]
    BY DEF Typed, Local
  <1>2. texts \in [Issue -> 0 .. MaxEdits + 1] /\ todo \in SUBSET Issue
    BY CycleValues, ListingValues DEF Typed, Provided, Issues, Body
  <1>3. new \in Cycle
    BY <1>2, IdleType DEF Cycle, Steps
  <1>4. sync' = [sync EXCEPT ![r] = new]
    BY Zenon DEF SyncBegins
  <1>5. /\ new.at = (IF resumed THEN "item" ELSE "derive") /\ new.resumed = resumed
        /\ new.todo = todo /\ new.started = texts
    OBVIOUS
  <1> HIDE DEF new, resumed, todo, texts
  <1>6. sync'[r] = new /\ OthersRest(r)
    BY <1>1, <1>3, <1>4 DEF OthersRest
  <1>7. \A i \in Issue : sync'[r].started[i] = issue[i].body.text
    BY <1>5, <1>6 DEF texts
  <1>8. CASE resumed
    BY <1>5, <1>6, <1>7, <1>8 DEF resumed, todo
  <1>9. CASE ~resumed
    BY <1>5, <1>6, <1>7, <1>9
  <1> QED
    BY <1>8, <1>9

LEMMA DeriveEffect ==
  ASSUME Typed, NEW r \in Root, Derive(r)
  PROVE  /\ OthersRest(r) /\ SameCycle(r)
         /\ sync'[r].at = "item" /\ sync'[r].todo = DOMAIN Live
         /\ record' \in [Root -> Record] /\ \A q \in Root \ {r} : record'[q] = record[q]
         /\ record'[r].stage = "finalists" /\ record'[r].finalists = Live
         /\ record'[r].empty = record[r].empty /\ record'[r].hold = 0
  <1>1. /\ sync \in [Root -> Cycle] /\ sync[r] \in Cycle /\ record \in [Root -> Record]
        /\ record[r] \in Record
    BY DEF Typed, Local
  <1>2. Live \in Listing /\ DOMAIN Live \in SUBSET Issue
    BY LiveListing
  <1> DEFINE a == [sync[r] EXCEPT !.at = "item"]
             b == [a EXCEPT !.todo = DOMAIN Live]
             new == [stage |-> "finalists", finalists |-> Live, items |-> None,
                     empty |-> record[r].empty, hold |-> 0]
  <1>3. new \in Record
    BY <1>1, <1>2, IdleType, BackoffAssumption DEF Record
  <1>4. record' = [record EXCEPT ![r] = new]
    BY DEF Derive, Derived
  <1>5. a \in Cycle /\ a.at = "item" /\ a.resumed = sync[r].resumed /\ a.started = sync[r].started
    BY <1>1, CycleSet DEF Steps
  <1>6. sync' = [sync EXCEPT ![r] = b]
    BY <1>1, <1>5 DEF Derive
  <1> HIDE DEF a
  <1>7. b \in Cycle /\ b.at = "item" /\ b.todo = DOMAIN Live
        /\ b.resumed = sync[r].resumed /\ b.started = sync[r].started
    BY <1>2, <1>5, CycleSet
  <1> HIDE DEF b
  <1>8. OthersRest(r) /\ SameCycle(r) /\ sync'[r].at = "item" /\ sync'[r].todo = DOMAIN Live
    BY <1>1, <1>6, <1>7 DEF OthersRest, SameCycle
  <1>9. record' \in [Root -> Record] /\ record'[r] = new /\ \A q \in Root \ {r} : record'[q] = record[q]
    BY <1>1, <1>3, <1>4
  <1> QED
    BY <1>8, <1>9

LEMMA StopEffect ==
  ASSUME Typed, NEW r \in Root, Complete(r) \/ SyncDies(r)
  PROVE  OthersRest(r) /\ sync'[r] = Idle
  BY IdleType DEF Complete, SyncDies, OthersRest, Typed, Local

LEMMA CompleteEffect ==
  ASSUME Typed, NEW r \in Root, Complete(r)
  PROVE  /\ record' \in [Root -> Record] /\ streak' \in [Root -> 0 .. MaxEmpty]
         /\ \A q \in Root \ {r} : record'[q] = record[q] /\ streak'[q] = streak[q]
         /\ DOMAIN record'[r].finalists = {} /\ record'[r].hold = Backoff(record'[r].empty)
         /\ record[r].empty = streak[r] => record'[r].empty = streak'[r]
  <1>1. /\ sync[r] \in Cycle /\ record \in [Root -> Record] /\ record[r] \in Record
        /\ streak \in [Root -> 0 .. MaxEmpty] /\ streak[r] \in 0 .. MaxEmpty
    BY DEF Typed, Local
  <1> DEFINE items == sync[r].items
             empty == IF Empty(items) THEN Longer(record[r].empty) ELSE 0
             new == [stage |-> "complete", finalists |-> Nothing, items |-> items,
                     empty |-> empty, hold |-> Backoff(empty)]
             longer == IF Empty(items) THEN Longer(streak[r]) ELSE 0
  <1>2. empty \in 0 .. MaxEmpty /\ longer \in 0 .. MaxEmpty
    BY <1>1, LongerType, BackoffAssumption DEF Record
  <1>3. Nothing \in Listing /\ DOMAIN Nothing = {}
    <2>1. Nothing \in [{} -> Body]
      BY DEF Nothing
    <2> QED
      BY <2>1, ListingMade
  <1>4. items \in [Issue -> Status]
    BY <1>1 DEF Cycle
  <1>5. Backoff(empty) \in 0 .. Ceiling
    BY <1>2, BackoffType
  <1>6. record' = [record EXCEPT ![r] = new] /\ streak' = [streak EXCEPT ![r] = longer]
    BY <1>1 DEF Complete
  <1>7. record[r].empty = streak[r] => empty = longer
    OBVIOUS
  <1> HIDE DEF empty, longer, items
  <1>8. new \in Record
    BY <1>2, <1>3, <1>4, <1>5 DEF Record
  <1>9. /\ record' \in [Root -> Record] /\ record'[r] = new
        /\ streak' \in [Root -> 0 .. MaxEmpty] /\ streak'[r] = longer
        /\ \A q \in Root \ {r} : record'[q] = record[q] /\ streak'[q] = streak[q]
    BY <1>1, <1>2, <1>6, <1>8
  <1> QED
    BY <1>3, <1>7, <1>9

LEMMA TickEffect ==
  ASSUME Typed, Tick
  PROVE  /\ record' \in [Root -> Record]
         /\ \A r \in Root : /\ record'[r].stage = record[r].stage
                            /\ record'[r].finalists = record[r].finalists
                            /\ record'[r].empty = record[r].empty
                            /\ record'[r].hold \in 0 .. record[r].hold
  <1>1. ASSUME NEW r \in Root
        PROVE  /\ record'[r] \in Record /\ record'[r].stage = record[r].stage
               /\ record'[r].finalists = record[r].finalists
               /\ record'[r].empty = record[r].empty
               /\ record'[r].hold \in 0 .. record[r].hold
    <2> DEFINE n == IF record[r].hold > 0 THEN record[r].hold - 1 ELSE 0
    <2>1. record[r] \in Record /\ record[r].hold \in 0 .. Ceiling
      BY DEF Typed, Local, Record
    <2>2. n \in 0 .. record[r].hold /\ n \in 0 .. Ceiling
      BY <2>1, BackoffAssumption
    <2>3. record'[r] = [record[r] EXCEPT !.hold = n]
      BY <2>1 DEF Tick, Record
    <2> HIDE DEF n
    <2> QED
      BY <2>1, <2>2, <2>3 DEF Record
  <1>2. record' = [r \in Root |-> record'[r]]
    BY DEF Tick
  <1> QED
    BY <1>1, <1>2
-----------------------------------------------------------------------------
\* Authors, the lander and adapter add.
LEMMA WrittenType ==
  ASSUME NEW draft, Written(draft, 0) \in Body, NEW n \in 0 .. MaxEdits + 1
  PROVE  Written(draft, n) \in Body /\ Written(draft, n).text = n
  BY DEF Written, Body

LEMMA TemplateType == Written(Template, 0) \in Body
  BY BoundsAssumption DEF Written, Template, Body, Lack

\* A text that is there can be written anew by nobody: no edit, and no adapter add.
Old(i, text) == text <= edits \/ (text = MaxEdits + 1 /\ i \notin adding /\ issue[i].provider # "absent")

Authored(i) ==
    \/ /\ issue[i].provider = "open" /\ issue'[i].provider = "open"
       /\ edits' = edits + 1 /\ issue'[i].body.text = edits' /\ adding' = adding
    \/ /\ issue'[i].body.text = issue[i].body.text /\ edits' >= edits
       /\ \/ issue'[i].provider = issue[i].provider /\ adding' \subseteq adding
          \/ issue[i].provider = "open" /\ issue'[i].provider \notin {"open", "absent"} /\ adding' = adding
          \/ issue[i].provider = "absent" /\ issue'[i].provider = "open" /\ adding' = adding \cup {i}
    \/ /\ issue'[i].provider = issue[i].provider /\ issue'[i].body.text = MaxEdits + 1
       /\ i \in adding /\ adding' = adding \ {i} /\ edits' = edits

LEMMA WriteAuthored ==
  ASSUME Typed, NEW i \in Issue, NEW draft \in Drafts, Write(i, draft)
  PROVE  /\ Authored(i) /\ issue' \in [Issue -> Issues] /\ edits' \in 0 .. MaxEdits
         /\ \A j \in Issue \ {i} : issue'[j] = issue[j]
  <1> DEFINE new == [Written(draft, edits') EXCEPT !.normalized = issue[i].body.normalized]
  <1>1. edits' \in 0 .. MaxEdits /\ edits' = edits + 1 /\ edits' \in 0 .. MaxEdits + 1
    BY BoundsAssumption DEF Write, Typed, Bounds
  <1>2. issue[i].body.normalized \in BOOLEAN
    BY DEF Typed, Provided, Issues, Body
  <1>3. Written(draft, edits') \in Body /\ Written(draft, edits').text = edits'
    BY <1>1, DraftAssumption, WrittenType
  <1>4. new \in Body /\ new.text = edits'
    BY <1>2, <1>3 DEF Body
  <1>5. issue' = [issue EXCEPT ![i].body = new]
    BY DEF Write
  <1> HIDE DEF new
  <1>6. issue' \in [Issue -> Issues] /\ BodyWritten(i, new)
    BY <1>4, <1>5, WriteEffect
  <1> QED
    BY <1>1, <1>4, <1>6 DEF BodyWritten, Authored, Write

LEMMA MovedEffect ==
  ASSUME Typed, NEW i \in Issue, NEW p \in Provider, issue' = [issue EXCEPT ![i].provider = p]
  PROVE  /\ issue' \in [Issue -> Issues] /\ \A j \in Issue \ {i} : issue'[j] = issue[j]
         /\ issue'[i].provider = p /\ issue'[i].body = issue[i].body
  <1>1. issue \in [Issue -> Issues] /\ issue[i] \in Issues
    BY DEF Typed, Provided
  <1> QED
    BY <1>1 DEF Issues

LEMMA LandEffect ==
  ASSUME Typed, NEW i \in Issue, Land(i)
  PROVE  /\ issue' \in [Issue -> Issues] /\ \A j \in Issue \ {i} : issue'[j] = issue[j]
         /\ issue[i].provider = "open" /\ issue'[i].provider = "completed"
         /\ issue'[i].body.text = issue[i].body.text
  <1>1. issue \in [Issue -> Issues] /\ issue[i] \in Issues /\ issue[i].body \in Body
    BY DEF Typed, Provided, Issues
  <1> DEFINE b == [issue[i].body EXCEPT !.state = "landed"]
             new == [issue[i] EXCEPT !.provider = "completed", !.body = b]
  <1>2. b \in Body /\ b.text = issue[i].body.text
    BY <1>1 DEF Body
  <1>3. issue' = [issue EXCEPT ![i] = new]
    BY <1>1 DEF Land, Issues
  <1> HIDE DEF b
  <1>4. new \in Issues /\ new.provider = "completed" /\ new.body = b
    BY <1>1, <1>2 DEF Issues, Provider
  <1> HIDE DEF new
  <1>5. issue[i].provider = "open"
    BY LiveListing DEF Land
  <1> QED
    BY <1>1, <1>2, <1>3, <1>4, <1>5

AuthorStep(i) ==
    \/ \E draft \in Drafts : Write(i, draft)
    \/ Retire(i) \/ PostReceipt(i) \/ Land(i) \/ AddCreate(i) \/ AddWrite(i) \/ AddDies(i)

AuthorsOnly(i) ==
    /\ Authored(i) /\ \A j \in Issue \ {i} : issue'[j] = issue[j]
    /\ Provided' /\ Bounds' /\ \A j \in Issue : thread[j] \subseteq thread'[j]
    /\ UNCHANGED <<named, syncVars, sweep>>

LEMMA AuthorEffect ==
  ASSUME Typed, NEW i \in Issue, AuthorStep(i)
  PROVE  AuthorsOnly(i)
  <1>0. Provided /\ Bounds /\ issue \in [Issue -> Issues] /\ issue[i] \in Issues
        /\ edits \in 0 .. MaxEdits /\ failures \in 0 .. MaxFailures
    BY DEF Typed, Provided, Bounds
  <1>1. ASSUME NEW draft \in Drafts, Write(i, draft) PROVE AuthorsOnly(i)
    BY <1>0, <1>1, WriteAuthored DEF Write, Provided, Bounds, AuthorsOnly
  <1>2. CASE Retire(i)
    <2>1. /\ issue' \in [Issue -> Issues] /\ \A j \in Issue \ {i} : issue'[j] = issue[j]
          /\ issue'[i].provider = "not_planned" /\ issue'[i].body = issue[i].body
      BY <1>2, MovedEffect DEF Retire, Provider
    <2>2. edits' \in 0 .. MaxEdits /\ edits' >= edits
      BY <1>0, <1>2, BoundsAssumption DEF Retire
    <2> QED
      BY <1>0, <1>2, <2>1, <2>2 DEF Retire, Provided, Bounds, AuthorsOnly, Authored
  <1>3. CASE PostReceipt(i)
    <2>1. thread' \in [Issue -> SUBSET Comment] /\ \A j \in Issue : thread[j] \subseteq thread'[j]
      BY <1>3, ThreadEffect DEF PostReceipt, Comment
    <2> QED
      BY <1>0, <1>3, <2>1 DEF PostReceipt, Provided, Bounds, AuthorsOnly, Authored
  <1>4. CASE Land(i)
    <2>1. /\ issue' \in [Issue -> Issues] /\ \A j \in Issue \ {i} : issue'[j] = issue[j]
          /\ issue[i].provider = "open" /\ issue'[i].provider = "completed"
          /\ issue'[i].body.text = issue[i].body.text
      BY <1>4, LandEffect
    <2>2. UNCHANGED <<thread, named, adding, syncVars, sweep, edits, failures>>
      BY <1>4 DEF Land
    <2>3. Authored(i)
      BY <1>0, <2>1, <2>2 DEF Authored
    <2> QED
      BY <1>0, <2>1, <2>2, <2>3 DEF Provided, Bounds, AuthorsOnly
  <1>5. CASE AddCreate(i)
    <2>1. /\ issue' \in [Issue -> Issues] /\ \A j \in Issue \ {i} : issue'[j] = issue[j]
          /\ issue'[i].provider = "open" /\ issue'[i].body = issue[i].body
      BY <1>5, MovedEffect DEF AddCreate, Provider
    <2> QED
      BY <1>0, <1>5, <2>1 DEF AddCreate, Provided, Bounds, AuthorsOnly, Authored
  <1>6. CASE AddWrite(i)
    <2> DEFINE new == Written(Template, MaxEdits + 1)
    <2>1. new \in Body /\ new.text = MaxEdits + 1
      BY TemplateType, WrittenType, BoundsAssumption
    <2>2. issue' = [issue EXCEPT ![i].body = new]
      BY <1>6 DEF AddWrite
    <2> HIDE DEF new
    <2>3. issue' \in [Issue -> Issues] /\ BodyWritten(i, new)
      BY <2>1, <2>2, WriteEffect
    <2> QED
      BY <1>0, <1>6, <2>1, <2>3 DEF AddWrite, BodyWritten, Provided, Bounds, AuthorsOnly, Authored
  <1>7. CASE AddDies(i)
    <2>1. failures' \in 0 .. MaxFailures
      BY <1>0, <1>7, BoundsAssumption DEF AddDies
    <2> QED
      BY <1>0, <1>7, <2>1 DEF AddDies, Provided, Bounds, AuthorsOnly, Authored
  <1> QED
    BY <1>1, <1>2, <1>3, <1>4, <1>5, <1>6, <1>7 DEF AuthorStep
-----------------------------------------------------------------------------
\* The closure sweep.
SweepOnly ==
    /\ sweep' \in Closures /\ Sweeping' /\ UNCHANGED <<named, adding, syncVars, edits>>
    /\ Provided' /\ Bounds' /\ \A i \in Issue : thread[i] \subseteq thread'[i]

LEMMA ClosureValues ==
  ASSUME Typed, sweep.at # "idle"
  PROVE  /\ sweep \in Closures /\ sweep.closed \in Listing
         /\ Closure \in DOMAIN sweep.closed /\ Closure \in Issue /\ sweep.closed[Closure] \in Body
  <1>1. sweep \in Closures /\ DOMAIN sweep.closed # {}
    BY DEF Typed, Sweeping
  <1>2. sweep.closed \in Listing
    BY <1>1 DEF Closures
  <1>3. Closure \in DOMAIN sweep.closed
    BY <1>1, <1>2, ListingValues DEF Closure
  <1> QED
    BY <1>1, <1>2, <1>3, ListingValues

LEMMA NextClosureType ==
  ASSUME Typed, sweep.at # "idle"
  PROVE  /\ NextClosure \in Closures /\ NextClosure.at \in {"idle", "take"}
         /\ NextClosure.at # "idle" => DOMAIN NextClosure.closed # {}
         /\ DOMAIN NextClosure.closed = DOMAIN sweep.closed \ {Closure}
         /\ \A i \in DOMAIN NextClosure.closed : NextClosure.closed[i] = sweep.closed[i]
  <1> DEFINE D == DOMAIN sweep.closed \ {Closure}
             at == IF DOMAIN sweep.closed = {Closure} THEN "idle" ELSE "take"
             new == [at |-> at, closed |-> Without(Closure), thread |-> {}]
  <1>1. sweep.closed \in Listing /\ Closure \in DOMAIN sweep.closed
    BY ClosureValues
  <1>2. D \in SUBSET Issue /\ \A i \in D : sweep.closed[i] \in Body
    BY <1>1, ListingValues
  <1>3. Without(Closure) = [j \in D |-> sweep.closed[j]]
    BY DEF Without
  <1>4. Without(Closure) \in [D -> Body] /\ \A i \in D : Without(Closure)[i] = sweep.closed[i]
    BY <1>2, <1>3
  <1>5. Without(Closure) \in Listing /\ DOMAIN Without(Closure) = D
    BY <1>2, <1>4, ListingMade
  <1>6. NextClosure = new
    BY DEF NextClosure
  <1>7. at \in {"idle", "take"} /\ (at # "idle" => D # {})
    BY <1>1
  <1> HIDE DEF at
  <1>8. new \in Closures /\ new.at = at /\ new.closed = Without(Closure)
    BY <1>5, <1>7 DEF Closures
  <1> QED
    BY <1>4, <1>5, <1>6, <1>7, <1>8

LEMMA RestingType == Resting \in Closures /\ Resting.at = "idle" /\ DOMAIN Resting.closed = {}
  <1>1. Nothing \in [{} -> Body]
    BY DEF Nothing
  <1>2. Nothing \in Listing /\ DOMAIN Nothing = {}
    BY <1>1, ListingMade
  <1> HIDE DEF Nothing
  <1> QED
    BY <1>2 DEF Resting, Closures

LEMMA SweepListsEffect ==
  ASSUME Typed, SweepLists
  PROVE  /\ SweepOnly /\ issue' = issue /\ thread' = thread /\ sweep'.at = "take"
         /\ \A i \in DOMAIN sweep'.closed :
                issue[i].provider = "not_planned" /\ sweep'.closed[i] = issue[i].body
  <1> DEFINE D == {j \in Issue : Retired(j)}
             bodies == [i \in D |-> issue[i].body]
             new == [at |-> "take", closed |-> bodies, thread |-> {}]
  <1>1. /\ bodies \in [D -> Body] /\ D \in SUBSET Issue /\ DOMAIN bodies = D
        /\ \A i \in D : issue[i].provider = "not_planned" /\ bodies[i] = issue[i].body
    BY DEF Retired, Typed, Provided, Issues
  <1>2. D # {}
    BY DEF SweepLists
  <1>3. sweep' = new
    BY Zenon DEF SweepLists, Resting
  <1> HIDE DEF D
  <1>4. bodies \in Listing
    BY <1>1, ListingMade
  <1> HIDE DEF bodies
  <1>5. sweep' \in Closures /\ sweep'.at = "take" /\ sweep'.closed = bodies
    BY <1>3, <1>4 DEF Closures
  <1>6. UNCHANGED <<issue, thread, named, adding, syncVars, edits, failures>>
    BY DEF SweepLists
  <1> QED
    BY <1>1, <1>2, <1>5, <1>6 DEF SweepOnly, Sweeping, Typed, Provided, Bounds

LEMMA ReadThreadEffect ==
  ASSUME Typed, ReadThread
  PROVE  /\ SweepOnly /\ issue' = issue /\ thread' = thread
         /\ \/ sweep' = NextClosure
            \/ sweep'.at = "post" /\ sweep'.closed = sweep.closed /\ sweep'.thread = thread[Closure]
  <1> DEFINE new == [sweep EXCEPT !.at = "post", !.thread = thread[Closure]]
  <1>1. UNCHANGED <<issue, thread, named, adding, syncVars, edits, failures>> /\ sweep.at # "idle"
    BY DEF ReadThread
  <1>2. Provided /\ Bounds /\ sweep \in Closures /\ thread[Closure] \in SUBSET Comment
    BY <1>1, ClosureValues DEF Typed, Provided
  <1>3. CASE sweep' = NextClosure
    BY <1>1, <1>2, <1>3, NextClosureType DEF SweepOnly, Sweeping, Provided, Bounds
  <1>4. CASE sweep' = new
    <2>1. /\ sweep' \in Closures /\ sweep'.at = "post" /\ sweep'.closed = sweep.closed
          /\ sweep'.thread = thread[Closure]
      BY <1>2, <1>4 DEF Closures
    <2>2. Sweeping'
      BY <1>1, <2>1 DEF Typed, Sweeping
    <2> QED
      BY <1>1, <1>2, <2>1, <2>2 DEF SweepOnly, Provided, Bounds
  <1> QED
    BY <1>3, <1>4 DEF ReadThread

LEMMA PostDiagnosticEffect ==
  ASSUME Typed, PostDiagnostic
  PROVE  /\ SweepOnly /\ issue' = issue
         /\ sweep.at = "post" /\ sweep'.at = "reopen" /\ sweep'.closed = sweep.closed
         /\ "diagnostic" \in sweep.thread \/ "diagnostic" \in thread'[Closure]
  <1>1. UNCHANGED <<issue, named, adding, syncVars, edits, failures>> /\ sweep.at = "post"
        /\ sweep' = [sweep EXCEPT !.at = "reopen"]
    BY DEF PostDiagnostic
  <1>2. Provided /\ Bounds /\ sweep \in Closures /\ Closure \in Issue
    BY <1>1, ClosureValues DEF Typed
  <1>3. sweep' \in Closures /\ sweep'.at = "reopen" /\ sweep'.closed = sweep.closed /\ Sweeping'
    BY <1>1, <1>2 DEF Closures, Typed, Sweeping
  <1>4. /\ thread' \in [Issue -> SUBSET Comment] /\ \A i \in Issue : thread[i] \subseteq thread'[i]
        /\ "diagnostic" \in sweep.thread \/ "diagnostic" \in thread'[Closure]
    <2>1. CASE "diagnostic" \in sweep.thread
      BY <1>2, <2>1 DEF PostDiagnostic, Provided
    <2>2. CASE thread' = [thread EXCEPT ![Closure] = @ \cup {"diagnostic"}]
      BY <1>2, <2>2 DEF Provided, Comment
    <2> QED
      BY <2>1, <2>2 DEF PostDiagnostic
  <1> QED
    BY <1>1, <1>2, <1>3, <1>4 DEF SweepOnly, Provided, Bounds

LEMMA ReopenEffect ==
  ASSUME Typed, Reopen
  PROVE  /\ SweepOnly /\ sweep' = NextClosure /\ thread' = thread /\ sweep.at = "reopen"
         /\ issue'[Closure].provider = "open"
         /\ issue'[Closure].body.text \in {issue[Closure].body.text, sweep.closed[Closure].text}
         /\ \A i \in Issue \ {Closure} : issue'[i] = issue[i]
  <1>1. UNCHANGED <<thread, named, adding, syncVars, edits, failures>> /\ sweep.at = "reopen"
        /\ sweep' = NextClosure
    BY DEF Reopen
  <1>2. /\ Provided /\ Bounds /\ issue \in [Issue -> Issues] /\ Closure \in Issue
        /\ sweep.closed[Closure] \in Body /\ issue[Closure].body \in Body
    BY <1>1, ClosureValues DEF Typed, Provided, Issues
  <1> DEFINE listed == sweep.closed[Closure]
             blocked == [listed EXCEPT !.state = "blocked"]
             b == IF listed.state = "blocked" THEN issue[Closure].body ELSE blocked
             new == [provider |-> "open", body |-> b]
  <1>3. blocked \in Body /\ blocked.text = listed.text
    BY <1>2 DEF Body
  <1>4. b \in Body /\ b.text \in {issue[Closure].body.text, listed.text}
    BY <1>2, <1>3
  <1>5. issue' = [issue EXCEPT ![Closure] = new]
    BY Zenon DEF Reopen
  <1> HIDE DEF b
  <1>6. new \in Issues /\ new.provider = "open" /\ new.body = b
    BY <1>4 DEF Issues, Provider
  <1> HIDE DEF new
  <1>7. issue' \in [Issue -> Issues] /\ issue'[Closure] = new
        /\ \A i \in Issue \ {Closure} : issue'[i] = issue[i]
    BY <1>2, <1>5, <1>6
  <1>8. SweepOnly
    BY <1>1, <1>2, <1>7, NextClosureType DEF SweepOnly, Sweeping, Provided, Bounds
  <1> QED
    BY <1>1, <1>4, <1>6, <1>7, <1>8

LEMMA SweepDiesEffect ==
  ASSUME Typed, SweepDies
  PROVE  SweepOnly /\ issue' = issue /\ thread' = thread /\ sweep' = Resting
  <1>1. UNCHANGED <<issue, thread, named, adding, syncVars, edits>> /\ sweep' = Resting
        /\ failures' \in 0 .. MaxFailures
    BY BoundsAssumption DEF SweepDies, Typed, Bounds
  <1> QED
    BY <1>1, RestingType DEF SweepOnly, Sweeping, Typed, Provided, Bounds
-----------------------------------------------------------------------------
\* Type correctness.
LEMMA InitTyped == Init => Typed
  <1> SUFFICES ASSUME Init PROVE Typed
    OBVIOUS
  <1>1. issue \in [Issue -> Issues]
    BY FirstAssumption DEF Init, Issues
  <1>2. Provided
    BY <1>1 DEF Init, Provided
  <1>3. NoRecord \in Record
    <2>1. Nothing \in [{} -> Body]
      BY DEF Nothing
    <2>2. Nothing \in Listing
      BY <2>1, ListingMade
    <2> HIDE DEF Nothing
    <2> QED
      BY <2>2, IdleType, BackoffAssumption DEF NoRecord, Record
  <1>4. Local
    BY <1>3, IdleType, BackoffAssumption DEF Init, Local
  <1>5. Bounds
    BY BoundsAssumption DEF Init, Bounds
  <1>6. sweep \in Closures /\ Sweeping
    BY RestingType DEF Init, Sweeping
  <1>7. ASSUME NEW r \in Root PROVE Working(r)
    BY IdleType DEF Init, Working, InHand
  <1> QED
    BY <1>2, <1>4, <1>5, <1>6, <1>7 DEF Typed

\* A cycle that is left alone with its record works on.
LEMMA WorksOn ==
  ASSUME Typed, NEW r \in Root, sync'[r] = sync[r], record'[r].stage = record[r].stage,
         record'[r].finalists = record[r].finalists
  PROVE  Working(r)'
  BY DEF Typed, Working

LEMMA CallKeeps ==
  ASSUME Typed, NEW r \in Root, Call(r)
  PROVE  Typed'
  <1>1. Called(r) /\ sync[r].todo # {} /\ sync[r].at \in InHand \cup {"item"}
    BY CallEffect, CallStarts
  <1>2. Local'
    BY <1>1 DEF Called, OthersRest, Typed, Local
  <1>3. Working(r)'
    <2>1. record'[r].stage = "finalists" /\ sync[r].todo \subseteq DOMAIN record'[r].finalists
      BY <1>1 DEF Called, Typed, Working, InHand
    <2>2. sync'[r].todo \subseteq sync[r].todo /\ (sync'[r].at # "item" => sync'[r].todo = sync[r].todo)
      BY <1>1 DEF Called, Advances, Reported, HandedOn
    <2> QED
      BY <1>1, <2>1, <2>2 DEF Working, InHand
  <1>4. ASSUME NEW q \in Root \ {r} PROVE Working(q)'
    BY <1>1, <1>4, WorksOn DEF Called, OthersRest
  <1>5. Bounds' /\ sweep' \in Closures /\ Sweeping'
    BY <1>1 DEF Called, Typed, Bounds, Sweeping
  <1> QED
    BY <1>1, <1>2, <1>3, <1>4, <1>5 DEF Called, Typed

\* What every step of a cycle leaves behind it.
LEMMA CycleKeeps ==
  ASSUME Typed, NEW r \in Root, SyncBegins(r) \/ Derive(r) \/ Complete(r) \/ SyncDies(r)
  PROVE  Typed'
  <1>1. UNCHANGED <<issue, thread, named, adding, sweep, edits>> /\ failures' \in 0 .. MaxFailures
    BY BoundsAssumption
       DEF SyncBegins, Derive, Complete, SyncDies, Typed, Bounds
  <1>2. Provided' /\ sweep' \in Closures /\ Sweeping' /\ Bounds'
    BY <1>1 DEF Typed, Provided, Sweeping, Bounds
  <1>3. CASE SyncBegins(r)
    <2>1. OthersRest(r) /\ UNCHANGED <<record, streak>>
      BY <1>3, BeginEffect DEF SyncBegins
    <2>2. Working(r)'
      BY <1>3, <2>1, BeginEffect DEF Working, InHand
    <2>3. ASSUME NEW q \in Root \ {r} PROVE Working(q)'
      BY <2>1, <2>3, WorksOn DEF OthersRest
    <2> QED
      BY <1>2, <2>1, <2>2, <2>3 DEF Typed, Local, OthersRest
  <1>4. CASE Derive(r)
    <2>1. OthersRest(r) /\ streak' = streak
      BY <1>4, DeriveEffect DEF Derive
    <2>2. Working(r)'
      BY <1>4, DeriveEffect DEF Working, InHand
    <2>3. ASSUME NEW q \in Root \ {r} PROVE Working(q)'
      BY <1>4, <2>1, <2>3, DeriveEffect, WorksOn DEF OthersRest
    <2> QED
      BY <1>2, <1>4, <2>1, <2>2, <2>3, DeriveEffect DEF Typed, Local, OthersRest
  <1>5. CASE Complete(r)
    <2>1. OthersRest(r) /\ sync'[r] = Idle
      BY <1>5, StopEffect
    <2>2. Working(r)'
      BY <2>1, IdleType DEF Working, InHand
    <2>3. ASSUME NEW q \in Root \ {r} PROVE Working(q)'
      BY <1>5, <2>1, <2>3, CompleteEffect, WorksOn DEF OthersRest
    <2> QED
      BY <1>2, <1>5, <2>1, <2>2, <2>3, CompleteEffect DEF Typed, Local, OthersRest
  <1>6. CASE SyncDies(r)
    <2>1. OthersRest(r) /\ sync'[r] = Idle /\ UNCHANGED <<record, streak>>
      BY <1>6, StopEffect DEF SyncDies
    <2>2. Working(r)'
      BY <2>1, IdleType DEF Working, InHand
    <2>3. ASSUME NEW q \in Root \ {r} PROVE Working(q)'
      BY <2>1, <2>3, WorksOn DEF OthersRest
    <2> QED
      BY <1>2, <2>1, <2>2, <2>3 DEF Typed, Local, OthersRest
  <1> QED
    BY <1>3, <1>4, <1>5, <1>6

LEMMA SweepKeeps == ASSUME Typed, Sweep \/ SweepDies PROVE SweepOnly
  BY SweepListsEffect, ReadThreadEffect, PostDiagnosticEffect, ReopenEffect, SweepDiesEffect
     DEF Sweep

\* The steps, by what they may change: an author's, a call of a cycle, another step of
\* a cycle, the sweep's, and time's.
LEMMA StepKinds ==
  ASSUME Typed, Next
  PROVE  \/ \E i \in Issue : AuthorStep(i)
         \/ \E r \in Root : Call(r)
         \/ \E r \in Root : SyncBegins(r) \/ Derive(r) \/ Complete(r) \/ SyncDies(r)
         \/ Sweep \/ SweepDies
         \/ Tick
  BY DEF Next, Authors, AuthorStep, Sync, Call

LEMMA StepTyped == Typed /\ [Next]_vars => Typed'
  <1> SUFFICES ASSUME Typed, [Next]_vars PROVE Typed'
    OBVIOUS
  <1>1. ASSUME UNCHANGED syncVars PROVE Local' /\ \A r \in Root : Working(r)'
    <2>1. UNCHANGED <<record, sync, streak>>
      BY <1>1 DEF syncVars
    <2> QED
      BY <2>1, WorksOn DEF Typed, Local
  <1>2. ASSUME NEW i \in Issue, AuthorStep(i) PROVE Typed'
    <2>1. AuthorsOnly(i)
      BY <1>2, AuthorEffect
    <2> QED
      BY <1>1, <2>1 DEF AuthorsOnly, Typed, Sweeping
  <1>3. CASE Sweep \/ SweepDies
    <2>1. SweepOnly
      BY <1>3, SweepKeeps
    <2> QED
      BY <1>1, <2>1 DEF SweepOnly, Typed
  <1>4. CASE Tick
    <2>1. UNCHANGED <<issue, thread, named, adding, sync, sweep, streak, edits, failures>>
      BY <1>4 DEF Tick
    <2>2. Provided' /\ sweep' \in Closures /\ Sweeping' /\ Bounds'
      BY <2>1 DEF Typed, Provided, Sweeping, Bounds
    <2>3. \A r \in Root : Working(r)'
      BY <1>4, <2>1, TickEffect, WorksOn
    <2> QED
      BY <1>4, <2>1, <2>2, <2>3, TickEffect DEF Typed, Local
  <1>5. CASE UNCHANGED vars
    <2>1. UNCHANGED <<issue, thread, named, adding, syncVars, sweep, edits, failures>>
      BY <1>5 DEF vars
    <2>2. Provided' /\ sweep' \in Closures /\ Sweeping' /\ Bounds'
      BY <2>1 DEF Typed, Provided, Sweeping, Bounds
    <2> QED
      BY <1>1, <2>1, <2>2 DEF Typed
  <1> QED
    BY <1>2, <1>3, <1>4, <1>5, CallKeeps, CycleKeeps, StepKinds

\* Every variable keeps its type: the intervals of a backed-off frontier stay within the
\* ceiling, and what a cycle has in hand is a finalist of its record (sync_backlog).
THEOREM TypeCorrect == Spec => []TypeOK
  <1>1. Typed => TypeOK
    BY TypedIsTypeOK
  <1> QED
    BY <1>1, InitTyped, StepTyped, PTL DEF Spec

LEMMA AlwaysTyped == Spec => []Typed
  BY InitTyped, StepTyped, PTL DEF Spec
-----------------------------------------------------------------------------
\* Holds.
LEMMA HoldStep ==
  ASSUME Typed, HoldMatchesHistory, Next
  PROVE  HoldMatchesHistory'
  <1> USE DEF HoldMatchesHistory
  <1>0. \A r \in Root : /\ record[r].hold \in Nat /\ streak[r] \in 0 .. MaxEmpty
                        /\ Backoff(streak[r]) \in 0 .. Ceiling
    BY BackoffType, BackoffAssumption DEF Typed, Local, Record
  <1>1. CASE UNCHANGED <<record, streak>>
    BY <1>1
  <1>2. ASSUME NEW r \in Root, Derive(r) PROVE HoldMatchesHistory'
    <2>1. /\ record'[r].empty = record[r].empty /\ record'[r].hold = 0 /\ streak' = streak
          /\ \A q \in Root \ {r} : record'[q] = record[q]
      BY <1>2, DeriveEffect DEF Derive
    <2>2. 0 <= Backoff(streak[r])
      BY <1>0, BackoffAssumption
    <2>3. ASSUME NEW q \in Root
          PROVE  record'[q].empty = streak'[q] /\ record'[q].hold <= Backoff(streak'[q])
      BY <2>1, <2>2
    <2> QED
      BY <2>3
  <1>3. ASSUME NEW r \in Root, Complete(r) PROVE HoldMatchesHistory'
    <2>1. /\ record'[r].empty = streak'[r] /\ record'[r].hold = Backoff(streak'[r])
          /\ \A q \in Root \ {r} : record'[q] = record[q] /\ streak'[q] = streak[q]
          /\ streak'[r] \in 0 .. MaxEmpty
      BY <1>3, CompleteEffect
    <2>2. Backoff(streak'[r]) \in 0 .. Ceiling
      BY <2>1, BackoffType, BackoffAssumption
    <2>3. record'[r].hold <= Backoff(streak'[r])
      BY <2>1, <2>2, BackoffAssumption
    <2>4. ASSUME NEW q \in Root
          PROVE  record'[q].empty = streak'[q] /\ record'[q].hold <= Backoff(streak'[q])
      BY <2>1, <2>3
    <2> QED
      BY <2>4
  <1>4. CASE Tick
    <2>1. ASSUME NEW r \in Root
          PROVE  record'[r].empty = streak'[r] /\ record'[r].hold <= Backoff(streak'[r])
      <3>1. record'[r].empty = record[r].empty /\ record'[r].hold \in 0 .. record[r].hold
            /\ streak'[r] = streak[r]
        BY <1>4, TickEffect DEF Tick
      <3> QED
        BY <1>0, <3>1, BackoffAssumption
    <2> QED
      BY <2>1
  <1>5. ASSUME NEW i \in Issue, AuthorStep(i) PROVE UNCHANGED <<record, streak>>
    BY <1>5, AuthorEffect DEF AuthorsOnly, syncVars
  <1>6. ASSUME NEW r \in Root, Call(r) PROVE UNCHANGED <<record, streak>>
    BY <1>6, CallEffect DEF Called
  <1>7. ASSUME NEW r \in Root, SyncBegins(r) \/ SyncDies(r) PROVE UNCHANGED <<record, streak>>
    BY <1>7 DEF SyncBegins, SyncDies
  <1>8. ASSUME Sweep \/ SweepDies PROVE UNCHANGED <<record, streak>>
    BY <1>8, SweepKeeps DEF SweepOnly, syncVars
  <1> QED
    BY <1>1, <1>2, <1>3, <1>4, <1>5, <1>6, <1>7, <1>8, StepKinds

\* The count in a record is the number of cycles in a row that completed with nothing
\* schedulable, whatever died and was resumed between them, and no hold is longer than
\* that count asks for (sync_backlog).
THEOREM HoldIsHistory == Spec => []HoldMatchesHistory
  <1>1. Init => HoldMatchesHistory
    <2>1. Backoff(0) = 0
      BY DEF Backoff
    <2> QED
      BY <2>1 DEF Init, HoldMatchesHistory, NoRecord
  <1>2. Typed /\ HoldMatchesHistory /\ [Next]_vars => HoldMatchesHistory'
    <2> SUFFICES ASSUME Typed, HoldMatchesHistory, [Next]_vars PROVE HoldMatchesHistory'
      OBVIOUS
    <2>1. CASE UNCHANGED vars
      BY <2>1 DEF vars, syncVars, HoldMatchesHistory
    <2> QED
      BY <2>1, HoldStep
  <1> QED
    BY <1>1, <1>2, AlwaysTyped, PTL DEF Spec
-----------------------------------------------------------------------------
\* Who opens an issue, and what its thread says by then.
ClosureRead ==
    /\ sweep.at = "post" => sweep.thread \subseteq thread[Closure]
    /\ sweep.at = "reopen" => "diagnostic" \in thread[Closure]

\* Outside the sweep an issue's provider state moves only from open or absent.
LEMMA OutsideSweep ==
  ASSUME Typed, Next, ~Sweep, ~SweepDies
  PROVE  /\ sweep' = sweep /\ \A i \in Issue : thread[i] \subseteq thread'[i]
         /\ \A i \in Issue : issue[i].provider = "not_planned" => issue'[i].provider = "not_planned"
  <1>1. ASSUME NEW j \in Issue, AuthorStep(j)
        PROVE  /\ sweep' = sweep /\ \A i \in Issue : thread[i] \subseteq thread'[i]
               /\ \A i \in Issue : issue[i].provider = "not_planned" =>
                      issue'[i].provider = "not_planned"
    <2>1. AuthorsOnly(j)
      BY <1>1, AuthorEffect
    <2>2. issue[j].provider = "not_planned" => issue'[j].provider = "not_planned"
      BY <2>1 DEF AuthorsOnly, Authored
    <2> QED
      BY <2>1, <2>2 DEF AuthorsOnly
  <1>2. ASSUME NEW r \in Root, Call(r)
        PROVE  /\ sweep' = sweep /\ \A i \in Issue : thread[i] \subseteq thread'[i]
               /\ \A i \in Issue : issue[i].provider = "not_planned" =>
                      issue'[i].provider = "not_planned"
    <2>1. Called(r)
      BY <1>2, CallEffect
    <2> QED
      BY <2>1 DEF Called, Patched, BodyWritten
  <1>3. ASSUME NEW r \in Root, SyncBegins(r) \/ Derive(r) \/ Complete(r) \/ SyncDies(r)
        PROVE  UNCHANGED <<issue, thread, sweep>>
    BY <1>3 DEF SyncBegins, Derive, Complete, SyncDies
  <1>4. ASSUME Tick PROVE UNCHANGED <<issue, thread, sweep>>
    BY <1>4 DEF Tick
  <1> QED
    BY <1>1, <1>2, <1>3, <1>4, StepKinds

LEMMA ClosureReadStep ==
  ASSUME Typed, ClosureRead, Next
  PROVE  ClosureRead'
  <1>0. sweep.at # "idle" => Closure \in Issue
    BY ClosureValues
  <1>1. CASE ~Sweep /\ ~SweepDies
    <2>1. sweep' = sweep /\ \A i \in Issue : thread[i] \subseteq thread'[i]
      BY <1>1, OutsideSweep
    <2> QED
      BY <1>0, <2>1 DEF ClosureRead, Closure
  <1>2. CASE SweepLists \/ Reopen \/ SweepDies
    <2>1. sweep'.at \in {"idle", "take"}
      <3>1. SweepLists => sweep'.at = "take"
        BY SweepListsEffect
      <3>2. Reopen => sweep'.at \in {"idle", "take"}
        BY ReopenEffect, NextClosureType
      <3>3. SweepDies => sweep'.at = "idle"
        BY SweepDiesEffect, RestingType
      <3> QED
        BY <1>2, <3>1, <3>2, <3>3
    <2> QED
      BY <2>1 DEF ClosureRead
  <1>3. CASE ReadThread
    <2>0. sweep.at # "idle" /\ thread' = thread
      BY <1>3 DEF ReadThread
    <2>1. CASE sweep' = NextClosure
      BY <2>0, <2>1, NextClosureType DEF ClosureRead
    <2>2. CASE sweep'.at = "post" /\ sweep'.closed = sweep.closed /\ sweep'.thread = thread[Closure]
      BY <2>0, <2>2 DEF ClosureRead, Closure
    <2> QED
      BY <1>3, <2>1, <2>2, ReadThreadEffect
  <1>4. CASE PostDiagnostic
    <2>1. /\ sweep.at = "post" /\ sweep'.at = "reopen" /\ sweep'.closed = sweep.closed
          /\ "diagnostic" \in sweep.thread \/ "diagnostic" \in thread'[Closure]
          /\ \A i \in Issue : thread[i] \subseteq thread'[i]
      BY <1>4, PostDiagnosticEffect DEF SweepOnly
    <2>2. "diagnostic" \in thread'[Closure]
      BY <1>0, <2>1 DEF ClosureRead
    <2> QED
      BY <2>1, <2>2 DEF ClosureRead, Closure
  <1> QED
    BY <1>1, <1>2, <1>3, <1>4 DEF Sweep

LEMMA ReopenedStep ==
  ASSUME Typed, ClosureRead, Next, NEW i \in Issue,
         issue[i].provider = "not_planned", issue'[i].provider = "open"
  PROVE  "diagnostic" \in thread[i]
  <1>1. Sweep \/ SweepDies
    BY OutsideSweep
  <1>2. ~SweepDies /\ ~SweepLists /\ ~ReadThread /\ ~PostDiagnostic
    BY SweepDiesEffect, SweepListsEffect, ReadThreadEffect, PostDiagnosticEffect
  <1>3. Reopen
    BY <1>1, <1>2 DEF Sweep
  <1>4. i = Closure
    BY <1>3, ReopenEffect
  <1> QED
    BY <1>3, <1>4 DEF ClosureRead, Reopen

\* The sweep opens a retired issue only when its thread names the defects, whether this
\* sweep posted them or an earlier one that stopped (reopen_bare_closure): between the
\* reading of a thread and the reopening, the thread only grows.
THEOREM ReopenedIsNamed == Spec => ReopenedNamed
  <1>1. Init => ClosureRead
    BY RestingType DEF Init, ClosureRead
  <1>2. Typed /\ ClosureRead /\ [Next]_vars => ClosureRead'
    <2>1. ClosureRead /\ UNCHANGED vars => ClosureRead'
      BY DEF vars, ClosureRead, Closure
    <2> QED
      BY <2>1, ClosureReadStep
  <1> DEFINE Named == \A i \in Issue :
                 issue[i].provider = "not_planned" /\ issue'[i].provider = "open" =>
                     "diagnostic" \in thread[i]
  <1>3. Typed /\ ClosureRead /\ [Next]_vars => [Named]_vars
    BY ReopenedStep
  <1> HIDE DEF Named
  <1>4. Spec => [][Named]_vars
    BY <1>1, <1>2, <1>3, AlwaysTyped, PTL DEF Spec
  <1> QED
    BY <1>4 DEF Named, ReopenedNamed
-----------------------------------------------------------------------------
\* Old edits.  No text comes back that an author or adapter add wrote once, except from
\* where it is kept: the finalists of a record and the bodies the sweep listed.
Text(i) == issue[i].body.text

KnownListing(i) ==
    i \in DOMAIN sweep.closed => issue[i].provider = "not_planned" /\ Old(i, sweep.closed[i].text)
KnownToRoot(r, i) ==
    /\ Old(i, sync[r].started[i])
    /\ i \in DOMAIN record[r].finalists => Old(i, record[r].finalists[i].text)
TextsKnown ==
    \A i \in Issue :
        /\ i \in adding => issue[i].provider # "absent"
        /\ Old(i, Text(i)) /\ KnownListing(i)
        /\ \A r \in Root : KnownToRoot(r, i)

LEMMA OldZero == ASSUME Typed, NEW i \in Issue PROVE Old(i, 0)
  BY DEF Old, Typed, Bounds

\* What is old stays old, and an issue stays.
Aged(i) ==
    /\ edits <= edits' /\ (issue[i].provider # "absent" => issue'[i].provider # "absent")
    /\ i \in adding' => i \in adding \/ (issue[i].provider = "absent" /\ issue'[i].provider = "open")

LEMMA OldStays ==
  ASSUME Typed, Typed', NEW i \in Issue, Aged(i), NEW n \in 0 .. MaxEdits + 1, Old(i, n)
  PROVE  Old(i, n)'
  BY BoundsAssumption DEF Aged, Old, Typed, Bounds

\* Where the text of an issue comes from, in a step of each kind.
LEMMA AuthorAges ==
  ASSUME Typed, NEW j \in Issue, AuthorStep(j), NEW i \in Issue
  PROVE  /\ Aged(i) /\ sweep' = sweep /\ UNCHANGED <<record, sync>>
         /\ i # j => issue'[i] = issue[i]
  <1>1. AuthorsOnly(j) /\ edits \in Nat
    BY AuthorEffect, BoundsAssumption DEF Typed, Bounds
  <1>2. edits <= edits' /\ (issue[i].provider # "absent" => issue'[i].provider # "absent")
    BY <1>1 DEF AuthorsOnly, Authored
  <1>3. i \in adding' => i \in adding \/ (issue[i].provider = "absent" /\ issue'[i].provider = "open")
    BY <1>1 DEF AuthorsOnly, Authored
  <1> QED
    BY <1>1, <1>2, <1>3 DEF AuthorsOnly, Aged, syncVars

LEMMA CallAges ==
  ASSUME Typed, NEW r \in Root, Call(r), NEW i \in Issue
  PROVE  /\ Aged(i) /\ sweep' = sweep /\ record' = record
         /\ issue'[i].provider = issue[i].provider
         /\ \/ issue'[i] = issue[i]
            \/ /\ sync[r].at = "patch" /\ i = Current(r) /\ i \in DOMAIN record[r].finalists
               /\ issue'[i].body.text = record[r].finalists[i].text
  <1>1. Called(r) /\ edits \in Nat
    BY CallEffect, BoundsAssumption DEF Typed, Bounds
  <1>2. Current(r) \in DOMAIN record[r].finalists /\ Finalist(r) \in Body
    BY CallStarts, CycleValues
  <1>3. \/ issue' = issue
        \/ sync[r].at = "patch" /\ BodyWritten(Current(r), Cured(Finalist(r)))
    BY <1>1 DEF Called, Patched
  <1>4. Cured(Finalist(r)).text = Finalist(r).text
    BY <1>2, CuredType
  <1>5. issue'[i].provider = issue[i].provider
    BY <1>3 DEF BodyWritten
  <1>6. \/ issue'[i] = issue[i]
        \/ /\ sync[r].at = "patch" /\ i = Current(r) /\ i \in DOMAIN record[r].finalists
           /\ issue'[i].body.text = record[r].finalists[i].text
    BY <1>2, <1>3, <1>4 DEF BodyWritten, Finalist
  <1> QED
    BY <1>1, <1>5, <1>6 DEF Called, Aged

LEMMA SweepAges ==
  ASSUME Typed, Sweep \/ SweepDies, NEW i \in Issue
  PROVE  /\ Aged(i) /\ UNCHANGED <<record, sync>>
         /\ i \in DOMAIN sweep'.closed =>
                /\ issue'[i] = issue[i]
                /\ \/ i \in DOMAIN sweep.closed /\ sweep'.closed[i] = sweep.closed[i]
                   \/ issue[i].provider = "not_planned" /\ sweep'.closed[i] = issue[i].body
         /\ \/ issue'[i].body = issue[i].body
            \/ /\ i \in DOMAIN sweep.closed /\ i \notin DOMAIN sweep'.closed
               /\ issue'[i].body.text \in {Text(i), sweep.closed[i].text}
  <1>1. SweepOnly /\ edits \in Nat
    BY SweepKeeps, BoundsAssumption DEF Typed, Bounds
  <1>2. UNCHANGED <<record, sync, adding, edits>>
    BY <1>1 DEF SweepOnly, syncVars
  <1> DEFINE Listed == i \in DOMAIN sweep'.closed =>
                /\ issue'[i] = issue[i]
                /\ \/ i \in DOMAIN sweep.closed /\ sweep'.closed[i] = sweep.closed[i]
                   \/ issue[i].provider = "not_planned" /\ sweep'.closed[i] = issue[i].body
             Kept == \/ issue'[i].body = issue[i].body
                     \/ /\ i \in DOMAIN sweep.closed /\ i \notin DOMAIN sweep'.closed
                        /\ issue'[i].body.text \in {Text(i), sweep.closed[i].text}
  <1>3. ASSUME issue' = issue PROVE Aged(i) /\ Kept
    BY <1>1, <1>2, <1>3 DEF Aged
  <1>4. CASE SweepLists
    <2>1. Listed
      BY <1>4, SweepListsEffect
    <2> QED
      BY <1>2, <1>3, <1>4, <2>1, SweepListsEffect
  <1>5. CASE ReadThread
    <2>1. sweep.at # "idle"
      BY <1>5 DEF ReadThread
    <2>2. Listed
      BY <1>5, <2>1, ReadThreadEffect, NextClosureType
    <2> QED
      BY <1>2, <1>3, <1>5, <2>2, ReadThreadEffect
  <1>6. CASE PostDiagnostic
    BY <1>2, <1>3, <1>6, PostDiagnosticEffect
  <1>7. CASE SweepDies
    BY <1>2, <1>3, <1>7, SweepDiesEffect, RestingType
  <1>8. CASE Reopen
    <2>1. /\ sweep' = NextClosure /\ issue'[Closure].provider = "open" /\ Closure \in Issue
          /\ issue'[Closure].body.text \in {Text(Closure), sweep.closed[Closure].text}
          /\ \A j \in Issue \ {Closure} : issue'[j] = issue[j]
          /\ Closure \in DOMAIN sweep.closed
      BY <1>8, ReopenEffect, ClosureValues DEF Text
    <2>2. /\ DOMAIN sweep'.closed = DOMAIN sweep.closed \ {Closure}
          /\ \A j \in DOMAIN sweep'.closed : sweep'.closed[j] = sweep.closed[j]
      BY <1>8, <2>1, ReopenEffect, NextClosureType
    <2>3. Aged(i)
      BY <1>1, <1>2, <2>1 DEF Aged
    <2> QED
      BY <1>2, <2>1, <2>2, <2>3
  <1> QED
    BY <1>4, <1>5, <1>6, <1>7, <1>8 DEF Sweep

LEMMA CycleAges ==
  ASSUME Typed, NEW r \in Root, SyncBegins(r) \/ Derive(r) \/ Complete(r) \/ SyncDies(r),
         NEW i \in Issue
  PROVE  Aged(i) /\ UNCHANGED <<issue, sweep>>
  <1>1. UNCHANGED <<issue, adding, sweep, edits>> /\ edits \in Nat
    BY BoundsAssumption DEF SyncBegins, Derive, Complete, SyncDies, Typed, Bounds
  <1> QED
    BY <1>1 DEF Aged

LEMMA TextTypes ==
  ASSUME Typed, NEW i \in Issue
  PROVE  /\ Text(i) \in 0 .. MaxEdits + 1
         /\ i \in DOMAIN sweep.closed => sweep.closed[i].text \in 0 .. MaxEdits + 1
         /\ \A r \in Root : /\ sync[r].started[i] \in 0 .. MaxEdits + 1
                            /\ i \in DOMAIN record[r].finalists =>
                                   record[r].finalists[i].text \in 0 .. MaxEdits + 1
  <1>1. issue[i].body \in Body
    BY DEF Typed, Provided, Issues
  <1>2. i \in DOMAIN sweep.closed => sweep.closed[i] \in Body
    BY ListingValues DEF Typed, Closures
  <1>3. ASSUME NEW r \in Root
        PROVE  /\ sync[r].started[i] \in 0 .. MaxEdits + 1
               /\ i \in DOMAIN record[r].finalists => record[r].finalists[i] \in Body
    <2>1. sync[r] \in Cycle /\ record[r].finalists \in Listing
      BY CycleValues
    <2> QED
      BY <2>1, ListingValues DEF Cycle
  <1> QED
    BY <1>1, <1>2, <1>3 DEF Body, Text

\* What root r knows of i is known in the next state when the root takes no step.
LEMMA RootKnows ==
  ASSUME Typed, Typed', TextsKnown, NEW i \in Issue, Aged(i), NEW r \in Root,
         sync'[r] = sync[r], record'[r].finalists = record[r].finalists
  PROVE  KnownToRoot(r, i)'
  BY TextTypes, OldStays DEF TextsKnown, KnownToRoot

LEMMA AuthorKnows ==
  ASSUME Typed, Typed', TextsKnown, NEW j \in Issue, AuthorStep(j), NEW i \in Issue
  PROVE  Old(i, Text(i))' /\ KnownListing(i)'
  <1>1. Aged(i) /\ sweep' = sweep /\ (i # j => issue'[i] = issue[i])
    BY AuthorAges
  <1>2. Authored(j)
    BY AuthorEffect DEF AuthorsOnly
  <1>3. Old(i, Text(i)) /\ Text(i) \in 0 .. MaxEdits + 1
    BY TextTypes DEF TextsKnown
  <1>4. Old(i, Text(i))'
    <2>1. CASE Text(i)' = Text(i)
      BY <1>1, <1>3, <2>1, OldStays
    <2>2. CASE i = j /\ Text(i)' = edits'
      BY <2>2, <1>3 DEF Old, Typed, Bounds
    <2>3. CASE i = j /\ Text(i)' = MaxEdits + 1 /\ i \in adding /\ adding' = adding \ {i}
      BY <1>1, <1>2, <2>3 DEF Old, Aged, TextsKnown
    <2> QED
      BY <1>1, <1>2, <2>1, <2>2, <2>3 DEF Authored, Text
  <1>5. KnownListing(i)'
    <2>1. KnownListing(i)
      BY DEF TextsKnown
    <2>2. issue[i].provider = "not_planned" => issue'[i].provider = "not_planned"
      BY <1>1, <1>2 DEF Authored
    <2> QED
      BY <1>1, <2>1, <2>2, TextTypes, OldStays DEF KnownListing
  <1> QED
    BY <1>4, <1>5

LEMMA CallKnows ==
  ASSUME Typed, Typed', TextsKnown, NEW r \in Root, Call(r), NEW i \in Issue
  PROVE  Old(i, Text(i))' /\ KnownListing(i)' /\ \A q \in Root : KnownToRoot(q, i)'
  <1>1. /\ Aged(i) /\ sweep' = sweep /\ record' = record /\ issue'[i].provider = issue[i].provider
        /\ \/ issue'[i] = issue[i]
           \/ /\ i \in DOMAIN record[r].finalists
              /\ issue'[i].body.text = record[r].finalists[i].text
    BY CallAges
  <1>2. Old(i, Text(i)) /\ KnownListing(i) /\ KnownToRoot(r, i)
    BY DEF TextsKnown
  <1>3. Old(i, Text(i))'
    <2>1. Text(i)' \in 0 .. MaxEdits + 1 /\ Old(i, Text(i)')
      BY <1>1, <1>2, TextTypes DEF Text, KnownToRoot
    <2>2. PICK n \in 0 .. MaxEdits + 1 : n = Text(i)'
      BY <2>1
    <2> QED
      BY <1>1, <2>1, <2>2, OldStays
  <1>4. KnownListing(i)'
    BY <1>1, <1>2, TextTypes, OldStays DEF KnownListing
  <1>5. ASSUME NEW q \in Root PROVE KnownToRoot(q, i)'
    <2>1. sync'[q].started = sync[q].started
      BY CallEffect DEF Called, OthersRest, SameCycle
    <2>2. KnownToRoot(q, i)
      BY DEF TextsKnown
    <2> QED
      BY <1>1, <2>1, <2>2, TextTypes, OldStays DEF KnownToRoot
  <1> QED
    BY <1>3, <1>4, <1>5

LEMMA CycleKnows ==
  ASSUME Typed, Typed', TextsKnown, NEW r \in Root,
         SyncBegins(r) \/ Derive(r) \/ Complete(r) \/ SyncDies(r), NEW i \in Issue
  PROVE  Old(i, Text(i))' /\ KnownListing(i)' /\ \A q \in Root : KnownToRoot(q, i)'
  <1>1. Aged(i) /\ UNCHANGED <<issue, sweep>>
    BY CycleAges
  <1>2. Old(i, Text(i)) /\ KnownListing(i) /\ KnownToRoot(r, i) /\ Old(i, 0)
    BY OldZero DEF TextsKnown
  <1>3. Old(i, Text(i))'
    BY <1>1, <1>2, TextTypes, OldStays DEF Text
  <1>4. KnownListing(i)'
    BY <1>1, <1>2, TextTypes, OldStays DEF KnownListing
  <1>5. ASSUME NEW q \in Root \ {r} PROVE KnownToRoot(q, i)'
    <2>1. sync'[q] = sync[q] /\ record'[q].finalists = record[q].finalists
      <3>1. ASSUME SyncBegins(r) \/ SyncDies(r)
            PROVE  sync'[q] = sync[q] /\ record' = record
        BY <3>1, BeginEffect, StopEffect DEF SyncBegins, SyncDies, OthersRest
      <3>2. ASSUME Derive(r) PROVE sync'[q] = sync[q] /\ record'[q] = record[q]
        BY <3>2, DeriveEffect DEF OthersRest
      <3>3. ASSUME Complete(r) PROVE sync'[q] = sync[q] /\ record'[q] = record[q]
        BY <3>3, StopEffect, CompleteEffect DEF OthersRest
      <3> QED
        BY <3>1, <3>2, <3>3
    <2> QED
      BY <1>1, <2>1, RootKnows
  <1>6. KnownToRoot(r, i)'
    <2> DEFINE known(n) == n \in 0 .. MaxEdits + 1 /\ Old(i, n)
    <2>1. \A n : known(n) => Old(i, n)'
      BY <1>1, OldStays
    <2>2. known(Text(i)) /\ known(0) /\ known(sync[r].started[i])
          /\ (i \in DOMAIN record[r].finalists => known(record[r].finalists[i].text))
      BY <1>2, TextTypes, BoundsAssumption DEF KnownToRoot
    <2> HIDE DEF known
    <2>3. CASE SyncBegins(r)
      <3>1. sync'[r].started[i] = Text(i) /\ record' = record
        BY <2>3, BeginEffect DEF Text, SyncBegins
      <3> QED
        BY <2>1, <2>2, <3>1 DEF KnownToRoot
    <2>4. CASE Derive(r)
      <3>1. /\ sync'[r].started = sync[r].started /\ record'[r].finalists = Live
            /\ i \in DOMAIN Live => Live[i].text = Text(i)
        BY <2>4, DeriveEffect, LiveListing DEF SameCycle, Text
      <3> QED
        BY <2>1, <2>2, <3>1 DEF KnownToRoot
    <2>5. CASE Complete(r) \/ SyncDies(r)
      <3>1. sync'[r].started[i] = 0
        BY <2>5, StopEffect DEF Idle
      <3>2. i \in DOMAIN record'[r].finalists => record' = record
        BY <2>5, CompleteEffect DEF SyncDies
      <3> QED
        BY <2>1, <2>2, <3>1, <3>2 DEF KnownToRoot
    <2> QED
      BY <2>3, <2>4, <2>5
  <1> QED
    BY <1>3, <1>4, <1>5, <1>6

LEMMA SweepKnows ==
  ASSUME Typed, Typed', TextsKnown, Sweep \/ SweepDies, NEW i \in Issue
  PROVE  Old(i, Text(i))' /\ KnownListing(i)'
  <1>1. /\ Aged(i)
        /\ i \in DOMAIN sweep'.closed =>
               /\ issue'[i] = issue[i]
               /\ \/ i \in DOMAIN sweep.closed /\ sweep'.closed[i] = sweep.closed[i]
                  \/ issue[i].provider = "not_planned" /\ sweep'.closed[i] = issue[i].body
        /\ \/ issue'[i].body = issue[i].body
           \/ /\ i \in DOMAIN sweep.closed
              /\ issue'[i].body.text \in {Text(i), sweep.closed[i].text}
    BY SweepAges
  <1>2. Old(i, Text(i)) /\ KnownListing(i)
    BY DEF TextsKnown
  <1> DEFINE known(n) == n \in 0 .. MaxEdits + 1 /\ Old(i, n)
  <1>3. \A n : known(n) => Old(i, n)'
    BY <1>1, OldStays
  <1>4. known(Text(i)) /\ (i \in DOMAIN sweep.closed => known(sweep.closed[i].text))
    BY <1>2, TextTypes DEF KnownListing
  <1> HIDE DEF known
  <1>5. Old(i, Text(i))'
    BY <1>1, <1>3, <1>4 DEF Text
  <1>6. KnownListing(i)'
    BY <1>1, <1>2, <1>3, <1>4 DEF KnownListing, Text
  <1> QED
    BY <1>5, <1>6

LEMMA TextsKnownStep ==
  ASSUME Typed, Typed', TextsKnown, Next
  PROVE  TextsKnown'
  <1> SUFFICES ASSUME NEW i \in Issue
               PROVE  /\ Aged(i) /\ Old(i, Text(i))' /\ KnownListing(i)'
                      /\ \A r \in Root : KnownToRoot(r, i)'
    BY DEF TextsKnown, Aged
  <1>1. ASSUME NEW j \in Issue, AuthorStep(j)
        PROVE  /\ Aged(i) /\ Old(i, Text(i))' /\ KnownListing(i)'
               /\ \A r \in Root : KnownToRoot(r, i)'
    BY <1>1, AuthorAges, AuthorKnows, RootKnows
  <1>2. ASSUME NEW r \in Root, Call(r)
        PROVE  /\ Aged(i) /\ Old(i, Text(i))' /\ KnownListing(i)'
               /\ \A q \in Root : KnownToRoot(q, i)'
    BY <1>2, CallAges, CallKnows
  <1>3. ASSUME NEW r \in Root, SyncBegins(r) \/ Derive(r) \/ Complete(r) \/ SyncDies(r)
        PROVE  /\ Aged(i) /\ Old(i, Text(i))' /\ KnownListing(i)'
               /\ \A q \in Root : KnownToRoot(q, i)'
    BY <1>3, CycleAges, CycleKnows
  <1>4. CASE Sweep \/ SweepDies
    BY <1>4, SweepAges, SweepKnows, RootKnows
  <1>5. CASE Tick
    <2>1. UNCHANGED <<issue, adding, sync, sweep, edits>> /\ edits \in Nat
      BY <1>5, BoundsAssumption DEF Tick, Typed, Bounds
    <2>2. Aged(i)
      BY <2>1 DEF Aged
    <2>3. \A r \in Root : KnownToRoot(r, i)'
      BY <1>5, <2>1, <2>2, TickEffect, RootKnows
    <2>4. Old(i, Text(i)) /\ KnownListing(i)
      BY DEF TextsKnown
    <2> QED
      BY <2>1, <2>2, <2>3, <2>4 DEF Old, Text, KnownListing
  <1> QED
    BY <1>1, <1>2, <1>3, <1>4, <1>5, StepKinds

LEMMA AlwaysKnown == Spec => []TextsKnown
  <1>1. Init => TextsKnown
    <2> SUFFICES ASSUME Init, NEW i \in Issue
                 PROVE  /\ i \notin adding /\ Text(i) = 0 /\ i \notin DOMAIN sweep.closed
                        /\ \A r \in Root : /\ sync[r].started[i] = 0
                                           /\ i \notin DOMAIN record[r].finalists
                        /\ Old(i, 0)
      BY DEF TextsKnown, KnownListing, KnownToRoot
    <2>1. Text(i) = 0 /\ i \notin adding /\ edits = 0
      BY FirstAssumption DEF Init, Text
    <2>2. i \notin DOMAIN sweep.closed
      BY RestingType DEF Init
    <2>3. ASSUME NEW r \in Root
          PROVE  sync[r].started[i] = 0 /\ i \notin DOMAIN record[r].finalists
      BY DEF Init, Idle, NoRecord, Nothing
    <2>4. Old(i, 0)
      BY <2>1 DEF Old
    <2> QED
      BY <2>1, <2>2, <2>3, <2>4
  <1>2. TextsKnown /\ UNCHANGED vars => TextsKnown'
    BY DEF vars, syncVars, TextsKnown, KnownListing, KnownToRoot, Old, Text
  <1>3. Typed /\ Typed' /\ TextsKnown /\ [Next]_vars => TextsKnown'
    BY <1>2, TextsKnownStep
  <1> QED
    BY <1>1, <1>3, AlwaysTyped, PTL DEF Spec
-----------------------------------------------------------------------------
\* An issue a cycle is still to write to, and whether the cycle has read it by then.
Pending(r, i) ==
    /\ sync[r].at \notin {"idle", "derive"} /\ i \in sync[r].todo
    /\ ~(sync[r].at \in {"comment", "surface"} /\ i = Current(r))
Seen(r, i) == ~sync[r].resumed \/ (sync[r].at = "patch" /\ i = Current(r))

Before(r, i) == sync[r].started[i]
After(r, i) == record[r].finalists[i].text

\* The text i had when the cycle began is gone for good.
Gone(r, i) ==
    /\ Text(i) # Before(r, i)
    /\ i \in DOMAIN sweep.closed => sweep.closed[i].text # Before(r, i)

\* A finalist whose text is not the one of the beginning was written since, once the cycle has
\* read it; a resumed cycle has when the issue still is as the finalist says.
WrittenSince(r, i) ==
    Pending(r, i) /\ After(r, i) # Before(r, i) /\ (Seen(r, i) \/ Text(i) = After(r, i)) => Gone(r, i)

\* No root writes to an issue while another is past its listing.
Apart ==
    \A q, r \in Root :
        q # r /\ sync[q].at = "patch" /\ sync'[q] # sync[q] =>
            issue' = issue \/ sync[r].at \in {"idle", "derive"}
PatchesApart == [][Apart]_vars

LEMMA PendingKnown ==
  ASSUME Typed, TextsKnown, NEW r \in Root, NEW i \in Issue, Pending(r, i)
  PROVE  /\ i \in DOMAIN record[r].finalists /\ Old(i, Before(r, i)) /\ Old(i, After(r, i))
         /\ Before(r, i) \in 0 .. MaxEdits + 1 /\ After(r, i) \in 0 .. MaxEdits + 1
  <1>1. i \in DOMAIN record[r].finalists
    BY DEF Pending, Typed, Working
  <1> QED
    BY <1>1, TextTypes DEF TextsKnown, KnownToRoot, Before, After

\* A step that is not the root's: it may change the issue, and what the sweep listed.
RootRests(r) == sync'[r] = sync[r] /\ record'[r].finalists = record[r].finalists

LEMMA RestingRoot ==
  ASSUME NEW r \in Root, NEW i \in Issue, RootRests(r)
  PROVE  /\ Pending(r, i)' <=> Pending(r, i)
         /\ Seen(r, i)' <=> Seen(r, i)
         /\ Before(r, i)' = Before(r, i) /\ After(r, i)' = After(r, i)
  BY DEF RootRests, Pending, Seen, Before, After, Current

LEMMA IssueRests ==
  ASSUME NEW r \in Root, NEW i \in Issue, WrittenSince(r, i), RootRests(r),
         issue'[i].body = issue[i].body, sweep' = sweep
  PROVE  WrittenSince(r, i)'
  BY RestingRoot DEF WrittenSince, Gone, Text

LEMMA AuthorSince ==
  ASSUME Typed, Typed', TextsKnown, NEW j \in Issue, AuthorStep(j),
         NEW r \in Root, NEW i \in Issue, WrittenSince(r, i)
  PROVE  WrittenSince(r, i)'
  <1>1. sweep' = sweep /\ RootRests(r) /\ (i # j => issue'[i] = issue[i])
    BY AuthorAges DEF RootRests
  <1>2. CASE issue'[i].body.text = issue[i].body.text
    BY <1>1, <1>2, RestingRoot DEF WrittenSince, Gone, Text
  <1>3. CASE i = j /\ issue'[i].body.text # issue[i].body.text
    <2>1. SUFFICES ASSUME Pending(r, i), After(r, i) # Before(r, i),
                          Seen(r, i) \/ Text(i)' = After(r, i)
                   PROVE  Gone(r, i)'
      BY <1>1, RestingRoot DEF WrittenSince
    <2>2. /\ Old(i, Before(r, i)) /\ Old(i, After(r, i)) /\ KnownListing(i)
          /\ edits \in 0 .. MaxEdits /\ edits' \in 0 .. MaxEdits
      BY <2>1, PendingKnown DEF TextsKnown, Typed, Bounds
    <2>3. Authored(i)
      BY <1>3, AuthorEffect DEF AuthorsOnly
    <2>4. CASE issue[i].provider = "open" /\ edits' = edits + 1 /\ Text(i)' = edits'
      <3>1. Text(i)' # Before(r, i)
        BY <2>2, <2>4, BoundsAssumption DEF Old
      <3>2. i \notin DOMAIN sweep.closed
        BY <2>2, <2>4 DEF KnownListing
      <3> QED
        BY <1>1, <3>1, <3>2, RestingRoot DEF Gone
    <2>5. CASE i \in adding /\ Text(i)' = MaxEdits + 1
      <3>1. Text(i)' # Before(r, i) /\ Text(i)' # After(r, i)
        BY <2>2, <2>5, BoundsAssumption DEF Old
      <3>2. Gone(r, i)
        BY <2>1, <3>1 DEF WrittenSince
      <3> QED
        BY <1>1, <3>1, <3>2, RestingRoot DEF Gone
    <2> QED
      BY <1>3, <2>3, <2>4, <2>5 DEF Authored, Text
  <1> QED
    BY <1>1, <1>2, <1>3

LEMMA SweepSince ==
  ASSUME Typed, Sweep \/ SweepDies, NEW r \in Root, NEW i \in Issue, WrittenSince(r, i)
  PROVE  WrittenSince(r, i)'
  <1>1. /\ RootRests(r)
        /\ i \in DOMAIN sweep'.closed =>
               /\ issue'[i] = issue[i]
               /\ \/ i \in DOMAIN sweep.closed /\ sweep'.closed[i] = sweep.closed[i]
                  \/ sweep'.closed[i] = issue[i].body
        /\ \/ issue'[i].body = issue[i].body
           \/ /\ i \in DOMAIN sweep.closed /\ i \notin DOMAIN sweep'.closed
              /\ issue'[i].body.text \in {Text(i), sweep.closed[i].text}
    BY SweepAges DEF RootRests
  <1>2. SUFFICES ASSUME Pending(r, i), After(r, i) # Before(r, i),
                        Seen(r, i) \/ Text(i)' = After(r, i)
                 PROVE  /\ Text(i)' # Before(r, i)
                        /\ i \in DOMAIN sweep'.closed => sweep'.closed[i].text # Before(r, i)
    BY <1>1, RestingRoot DEF WrittenSince, Gone
  <1>3. CASE Seen(r, i)
    <2>1. Gone(r, i)
      BY <1>2, <1>3 DEF WrittenSince
    <2> QED
      BY <1>1, <2>1 DEF Gone, Text
  <1>4. CASE Text(i)' = After(r, i)
    <2>1. Text(i)' # Before(r, i)
      BY <1>2, <1>4
    <2>2. ASSUME i \in DOMAIN sweep'.closed PROVE Gone(r, i)
      BY <1>1, <1>2, <1>4, <2>2 DEF WrittenSince, Text
    <2> QED
      BY <1>1, <2>1, <2>2 DEF Gone, Text
  <1> QED
    BY <1>2, <1>3, <1>4

\* A call of the root itself, for the issue in hand: it writes to that one only, and is
\* done with it then.
LEMMA CallSince ==
  ASSUME Typed, NEW r \in Root, Call(r), NEW i \in Issue, WrittenSince(r, i)
  PROVE  WrittenSince(r, i)'
  <1>1. /\ Called(r) /\ sync[r].at \notin {"idle", "derive"} /\ sync[r].todo # {}
        /\ Current(r) \in sync[r].todo
    BY CallEffect, CallStarts, CycleValues DEF InHand
  <1>2. /\ sync'[r].resumed = sync[r].resumed /\ Before(r, i)' = Before(r, i)
        /\ After(r, i)' = After(r, i) /\ sweep' = sweep
    BY <1>1 DEF Called, SameCycle, Before, After
  <1>3. SUFFICES ASSUME Pending(r, i)', After(r, i) # Before(r, i),
                        Seen(r, i)' \/ Text(i)' = After(r, i)
                 PROVE  Gone(r, i)'
    BY <1>2 DEF WrittenSince
  <1>4. CASE i # Current(r) /\ (~sync[r].resumed \/ Text(i)' = After(r, i))
    <2>1. issue'[i] = issue[i]
      BY <1>1, <1>4 DEF Called, Patched, BodyWritten
    <2>2. i \in sync[r].todo
      BY <1>1, <1>3 DEF Called, Advances, Reported, HandedOn, Pending
    <2>3. Pending(r, i) /\ (Seen(r, i) \/ Text(i) = After(r, i))
      BY <1>1, <1>4, <2>1, <2>2 DEF Pending, Seen, Text
    <2>4. Gone(r, i)
      BY <1>3, <2>3 DEF WrittenSince
    <2> QED
      BY <1>2, <2>1, <2>4 DEF Gone, Text
  <1>5. CASE Reported(r)
    <2>1. i # Current(r) /\ (Seen(r, i)' => ~sync[r].resumed)
      BY <1>2, <1>3, <1>5 DEF Reported, Pending, Seen
    <2> QED
      BY <1>3, <1>4, <2>1
  <1>6. CASE sync'[r].at \in {"comment", "surface"} /\ sync'[r].todo = sync[r].todo
    <2>1. i # Current(r) /\ (Seen(r, i)' => ~sync[r].resumed)
      BY <1>2, <1>3, <1>6 DEF Pending, Seen, Current
    <2> QED
      BY <1>3, <1>4, <2>1
  <1>7. CASE sync[r].at = "item" /\ HandedOn(r, NextCall(r)) /\ issue' = issue
    <2>1. Pending(r, i)
      BY <1>3, <1>7 DEF Pending, HandedOn
    <2>2. Seen(r, i)' => Seen(r, i)
      BY <1>2, <1>7 DEF Seen, HandedOn, NextCall
    <2>3. Gone(r, i)
      BY <1>3, <1>7, <2>1, <2>2 DEF WrittenSince, Text
    <2> QED
      BY <1>2, <1>7, <2>3 DEF Gone, Text
  <1>8. CASE /\ sync[r].at = "verify" /\ HandedOn(r, "patch") /\ issue' = issue
             /\ issue[Current(r)].body = Finalist(r)
    <2>1. Pending(r, i)
      BY <1>3, <1>8 DEF Pending, HandedOn
    <2>2. Seen(r, i)' => ~sync[r].resumed \/ i = Current(r)
      BY <1>2, <1>8 DEF Seen, HandedOn, Current
    <2>3. i = Current(r) => Text(i) = After(r, i)
      BY <1>8 DEF Text, After, Finalist
    <2>4. Gone(r, i)
      BY <1>3, <1>8, <2>1, <2>2, <2>3 DEF WrittenSince, Text, Seen
    <2> QED
      BY <1>2, <1>8, <2>4 DEF Gone, Text
  <1> QED
    BY <1>1, <1>5, <1>6, <1>7, <1>8 DEF Called, Advances

\* A listing takes every text from the issue; what is listed is open, so the sweep holds
\* no body of it.
LEMMA CycleSince ==
  ASSUME Typed, TextsKnown, NEW r \in Root,
         SyncBegins(r) \/ Derive(r) \/ Complete(r) \/ SyncDies(r), NEW i \in Issue
  PROVE  WrittenSince(r, i)'
  <1>1. CASE SyncBegins(r)
    <2>1. Before(r, i)' = Text(i)' /\ (sync'[r].at = "derive" \/ (sync'[r].at = "item" /\ sync'[r].resumed))
      BY <1>1, BeginEffect DEF Before, Text, SyncBegins
    <2> QED
      BY <2>1 DEF WrittenSince, Pending, Seen
  <1>2. CASE Derive(r)
    <2>1. /\ sync'[r].todo = DOMAIN Live /\ record'[r].finalists = Live /\ UNCHANGED <<issue, sweep>>
      BY <1>2, DeriveEffect DEF Derive
    <2>2. SUFFICES ASSUME Pending(r, i)', After(r, i)' # Before(r, i)' PROVE Gone(r, i)'
      BY DEF WrittenSince
    <2>3. i \in DOMAIN Live
      BY <2>1, <2>2 DEF Pending
    <2>4. issue[i].provider = "open" /\ After(r, i)' = Text(i)'
      BY <2>1, <2>3, LiveListing DEF After, Text
    <2>5. i \notin DOMAIN sweep'.closed
      BY <2>1, <2>4 DEF TextsKnown, KnownListing
    <2> QED
      BY <2>2, <2>4, <2>5 DEF Gone
  <1>3. CASE Complete(r) \/ SyncDies(r)
    <2>1. sync'[r].at = "idle"
      BY <1>3, StopEffect, IdleType
    <2> QED
      BY <2>1 DEF WrittenSince, Pending
  <1> QED
    BY <1>1, <1>2, <1>3

AllSince == \A r \in Root, i \in Issue : WrittenSince(r, i)

LEMMA SinceStep ==
  ASSUME Typed, Typed', TextsKnown, AllSince, Next, Apart
  PROVE  AllSince'
  <1> SUFFICES ASSUME NEW r \in Root, NEW i \in Issue PROVE WrittenSince(r, i)'
    BY DEF AllSince
  <1>0. WrittenSince(r, i)
    BY DEF AllSince
  <1>1. ASSUME NEW j \in Issue, AuthorStep(j) PROVE WrittenSince(r, i)'
    BY <1>0, <1>1, AuthorSince
  <1>2. ASSUME NEW q \in Root, Call(q) PROVE WrittenSince(r, i)'
    <2>1. CASE q = r
      BY <1>0, <1>2, <2>1, CallSince
    <2>2. CASE q # r
      <3>1. Called(q) /\ RootRests(r) /\ sweep' = sweep
        BY <1>2, <2>2, CallEffect DEF Called, OthersRest, RootRests
      <3>2. CASE issue' = issue
        BY <1>0, <3>1, <3>2, IssueRests
      <3>3. CASE issue' # issue
        <4>1. sync[q].at = "patch"
          BY <3>1, <3>3 DEF Called, Patched
        <4>2. sync'[q] # sync[q]
          BY <3>1, <3>3, <4>1 DEF Called, Advances, Reported
        <4>3. sync[r].at \in {"idle", "derive"}
          BY <2>2, <3>3, <4>1, <4>2 DEF Apart
        <4> QED
          BY <3>1, <4>3, RestingRoot DEF WrittenSince, Pending
      <3> QED
        BY <3>2, <3>3
    <2> QED
      BY <2>1, <2>2
  <1>3. ASSUME NEW q \in Root, SyncBegins(q) \/ Derive(q) \/ Complete(q) \/ SyncDies(q)
        PROVE  WrittenSince(r, i)'
    <2>1. CASE q = r
      BY <1>3, <2>1, CycleSince
    <2>2. CASE q # r
      <3>1. UNCHANGED <<issue, sweep>>
        BY <1>3, CycleAges
      <3>2. RootRests(r)
        BY <1>3, <2>2, BeginEffect, DeriveEffect, StopEffect, CompleteEffect
           DEF RootRests, OthersRest, SyncBegins, SyncDies
      <3> QED
        BY <1>0, <3>1, <3>2, IssueRests
    <2> QED
      BY <2>1, <2>2
  <1>4. CASE Sweep \/ SweepDies
    BY <1>0, <1>4, SweepSince
  <1>5. CASE Tick
    <2>1. RootRests(r) /\ UNCHANGED <<issue, sweep>>
      BY <1>5, TickEffect DEF Tick, RootRests
    <2> QED
      BY <1>0, <2>1, IssueRests
  <1> QED
    BY <1>1, <1>2, <1>3, <1>4, <1>5, StepKinds

\* A step of root r that replaces the text of i.
LEMMA ReplacedStep ==
  ASSUME Typed, TextsKnown, AllSince, Next, NEW r \in Root, NEW i \in Issue,
         Overwrites(r, i), sync'[r] # sync[r]
  PROVE  Text(i) # Before(r, i)
  <1>1. sync[r].at = "patch" /\ i = Current(r) /\ issue' # issue
    BY DEF Overwrites
  <1>2. ASSUME NEW j \in Issue, AuthorStep(j) PROVE FALSE
    BY <1>2, AuthorAges
  <1>3. ASSUME NEW q \in Root, SyncBegins(q) \/ Derive(q) \/ Complete(q) \/ SyncDies(q) PROVE FALSE
    BY <1>1, <1>3, CycleAges
  <1>4. ASSUME Sweep \/ SweepDies PROVE FALSE
    BY <1>4, SweepAges
  <1>5. ASSUME Tick PROVE FALSE
    BY <1>1, <1>5 DEF Tick
  <1>6. PICK q \in Root : Call(q)
    BY <1>2, <1>3, <1>4, <1>5, StepKinds
  <1>7. q = r
    BY <1>6, CallEffect DEF Called, OthersRest
  <1>8. issue'[i].body.text = After(r, i) /\ issue'[i].body.text # Text(i)
    BY <1>6, <1>7, CallAges DEF After, Text, Overwrites
  <1>9. CASE After(r, i) = Before(r, i)
    BY <1>8, <1>9
  <1>10. CASE After(r, i) # Before(r, i)
    <2>1. i \in sync[r].todo
      BY <1>1, CycleValues, CallStarts, <1>6, <1>7
    <2>2. Pending(r, i) /\ Seen(r, i)
      BY <1>1, <2>1 DEF Pending, Seen
    <2> QED
      BY <1>10, <2>2 DEF AllSince, WrittenSince, Gone
  <1> QED
    BY <1>9, <1>10

LEMMA AlwaysSince == Spec /\ PatchesApart => []AllSince
  <1>1. Init => AllSince
    BY IdleType DEF Init, AllSince, WrittenSince, Pending
  <1>2. AllSince /\ UNCHANGED vars => AllSince'
    BY DEF vars, syncVars, AllSince, WrittenSince, Pending, Seen, Gone, Before, After, Text, Current
  <1>3. Typed /\ Typed' /\ TextsKnown /\ AllSince /\ [Next]_vars /\ [Apart]_vars => AllSince'
    BY <1>2, SinceStep
  <1> QED
    BY <1>1, <1>3, AlwaysTyped, AlwaysKnown, PTL DEF Spec, PatchesApart

\* What an author wrote before a sync began is not overwritten by it, however old the
\* finalists it resumed (intake_normalize), as long as no other root writes to issues after
\* it has listed them: one of those may put back what the author replaced.
THEOREM OldEditsAreKept == Spec /\ PatchesApart => OldEditsKept
  <1> DEFINE Keeps == \A r \in Root, i \in Issue :
                 Overwrites(r, i) /\ sync'[r] # sync[r] =>
                     issue[i].body.text # sync[r].started[i]
  <1>1. Typed /\ TextsKnown /\ AllSince /\ [Next]_vars => [Keeps]_vars
    BY ReplacedStep DEF Text, Before
  <1> HIDE DEF Keeps
  <1>2. Spec /\ PatchesApart => [][Keeps]_vars
    BY <1>1, AlwaysTyped, AlwaysKnown, AlwaysSince, PTL DEF Spec
  <1> QED
    BY <1>2 DEF Keeps, OldEditsKept

\* With one root there is nobody to put it back.
THEOREM OneRootKeepsEdits ==
  ASSUME \A q, r \in Root : q = r
  PROVE  Spec => OldEditsKept
  <1>1. Spec => PatchesApart
    <2>1. [Next]_vars => [Apart]_vars
      BY DEF Apart
    <2> QED
      BY <2>1, PTL DEF Spec, PatchesApart
  <1> QED
    BY <1>1, OldEditsAreKept, PTL
=============================================================================
