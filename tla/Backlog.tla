------------------------------- MODULE Backlog -------------------------------
(***************************************************************************)
(* The backlog: each root's adapter sync derives the open issues in one    *)
(* snapshot, repairs the bodies that miss derivable markers                *)
(* (intake_normalize), judges what is schedulable and holds an empty       *)
(* frontier for a doubling interval, in a record from which a cycle that   *)
(* died resumes (sync_backlog).  An issue that quotes the defect an older  *)
(* open one quotes is held, and told so in a comment, until it declares    *)
(* the succession.  Adapter add creates issues; the closure sweep reopens  *)
(* what was retired without a receipt (disposition_contract).  Authors     *)
(* edit, retire and comment meanwhile.                                     *)
(***************************************************************************)
EXTENDS Naturals, FiniteSets, FiniteSetsExt

CONSTANTS
    Root, Issue,
    Depends,        \* edges <<i, j>>: i declares that it depends on j
    FirstIssues,    \* values issue may start with
    Drafts,         \* what an author may write: subject, state, deps, lacks, quotes and elder of a body
    Ceiling,        \* BACKLOG_EMPTY_CEILING_SECONDS over BACKLOG_EMPTY_BASE_SECONDS
    MaxEmpty,       \* bound: the count of empty cycles, far enough to reach Ceiling
    MaxEdits,       \* bound: writes and retirements of authors
    MaxFailures     \* bound: calls that fail and processes that stop

ASSUME IssueAssumption == Issue \subseteq Nat /\ Depends \subseteq Issue \X Issue
ASSUME BackoffAssumption == Ceiling \in Nat \ {0} /\ MaxEmpty \in Nat /\ 2 ^ MaxEmpty > Ceiling
ASSUME BoundsAssumption == MaxEdits \in Nat /\ MaxFailures \in Nat

VARIABLES
    issue,      \* issue[i]: its provider state and its body
    thread,     \* thread[i]: kinds of comments on i
    named,      \* named[i]: the elders a comment on i names
    adding,     \* issues an adapter add has created and not written yet
    record,     \* record[r]: the backlog cycle record of root r
    sync,       \* sync[r]: where the sync of root r is
    sweep,      \* where the closure sweep is
    streak,     \* streak[r]: completed cycles of r since the last with something schedulable
    edits, failures

syncVars == <<record, sync, streak>>
vars == <<issue, thread, named, adding, syncVars, sweep, edits, failures>>

\* What required_section_reasons, completeness_reasons and evidence_reasons may miss in a body.
Lack == {"section", "requirement", "rationale", "evidence"}

\* text is the last edit in it: 0 at first, Template's for adapter add.  A silent body has no depends-on
\* marker but derivable declarations, a prose one declarations nobody can derive.  One defect exists: a
\* body's rationale quotes its tokens or none.  elder is the issue its relation marker names, or 0.
Body == [text : 0 .. MaxEdits + 1, subject : {"own", "pending", "missing"},
         state : {"ready", "blocked", "landed", "missing"},
         deps : {"none", "declared", "silent", "prose"}, lacks : SUBSET Lack,
         quotes : BOOLEAN, elder : Issue \cup {0}, normalized : BOOLEAN]
Provider == {"absent", "open", "not_planned", "completed"}
Comment == {"intake", "diagnostic", "receipt"}

\* A listing is a function from some issues to their bodies.
IsListing(bodies) == \E some \in SUBSET Issue : bodies \in [some -> Body]
Nothing == [i \in {} |-> "none"]

Written(draft, n) ==
    [text |-> n, subject |-> draft.subject, state |-> draft.state, deps |-> draft.deps,
     lacks |-> draft.lacks, quotes |-> draft.quotes, elder |-> draft.elder, normalized |-> FALSE]

ASSUME DraftAssumption == \A draft \in Drafts : Written(draft, 0) \in Body
ASSUME FirstAssumption ==
    \A first \in FirstIssues : /\ first \in [Issue -> [provider : Provider, body : Body]]
                               /\ \A i \in Issue : first[i].body.text = 0

None == [i \in Issue |-> "none"]
Status == {"none", "schedulable", "held", "blocked"}
NoRecord == [stage |-> "none", finalists |-> Nothing, items |-> None, empty |-> 0, hold |-> 0]
Idle == [at |-> "idle", resumed |-> FALSE, todo |-> {}, items |-> None,
         started |-> [i \in Issue |-> 0]]
Resting == [at |-> "idle", closed |-> Nothing, thread |-> {}]

TypeOK ==
    /\ issue \in [Issue -> [provider : Provider, body : Body]]
    /\ thread \in [Issue -> SUBSET Comment] /\ named \in [Issue -> SUBSET Issue]
    /\ adding \subseteq Issue
    /\ \A r \in Root :
        /\ record[r].stage \in {"none", "finalists", "complete"} /\ IsListing(record[r].finalists)
        /\ record[r].items \in [Issue -> Status]
        /\ record[r].empty \in 0 .. MaxEmpty /\ record[r].hold \in 0 .. Ceiling
    /\ sync \in [Root -> [at : {"idle", "derive", "item", "verify", "patch", "comment", "surface"},
                         resumed : BOOLEAN, todo : SUBSET Issue, items : [Issue -> Status],
                         started : [Issue -> 0 .. MaxEdits + 1]]]
    /\ sweep.at \in {"idle", "take", "post", "reopen"}
    /\ IsListing(sweep.closed) /\ sweep.thread \subseteq Comment
    /\ streak \in [Root -> 0 .. MaxEmpty]
    /\ edits \in 0 .. MaxEdits /\ failures \in 0 .. MaxFailures

Init ==
    /\ issue \in FirstIssues
    /\ thread = [i \in Issue |-> {}] /\ named = [i \in Issue |-> {}]
    /\ adding = {}
    /\ record = [r \in Root |-> NoRecord]
    /\ sync = [r \in Root |-> Idle]
    /\ sweep = Resting
    /\ streak = [r \in Root |-> 0]
    /\ edits = 0 /\ failures = 0
-----------------------------------------------------------------------------
\* Mutant of Backoff: no ceiling.
BackoffUncapped(n) == IF n = 0 THEN 0 ELSE 2 ^ (n - 1)

\* backlog_backoff_seconds, in units of the base.
Backoff(n) == IF n = 0 THEN 0 ELSE Min({2 ^ (n - 1), Ceiling})

\* The exact parser takes b as the contract of issue i; a relation to itself is malformed.
Parses(i, b) == b.subject = "own" /\ b.state # "missing" /\ b.elder # i

\* Every predecessor is read from the provider: closed, and landed.
Landed(j) == issue[j].provider = "completed" /\ issue[j].body.state = "landed"

DependenciesLanded(i, b) == b.deps = "declared" => \A j \in Issue : <<i, j>> \in Depends => Landed(j)

\* Mutant of Elders: the later filing is taken for the elder.
Juniors(i, bodies) == {j \in DOMAIN bodies : j > i /\ bodies[i].quotes /\ bodies[j].quotes}

\* fingerprint_elders: the older of the given open issues that quote what i quotes.
Elders(i, bodies) == {j \in DOMAIN bodies : j < i /\ bodies[i].quotes /\ bodies[j].quotes}

\* fingerprint_reasons: an elder the relation names does not hold its junior.
Undeclared(elders, b) == elders \ {b.elder}

IsComplete(b) == b.lacks = {}

\* derive_schedulability, of a body that is said to be open.
Schedulable(i, b, elders) ==
    /\ Parses(i, b) /\ b.state = "ready" /\ IsComplete(b)
    /\ Undeclared(elders, b) = {}
    /\ b.deps \in {"none", "declared"} /\ DependenciesLanded(i, b)

\* The bodies of the open issues, as they are now.
Live == [i \in {j \in Issue : issue[j].provider = "open"} |-> issue[i].body]

\* What intake_normalization makes of b: each marker that is missing is derived, a
\* missing state becomes blocked; a foreign subject has no cure, and stops the cures.
Cured(b) ==
    [b EXCEPT !.subject = IF @ = "missing" THEN "own" ELSE @,
              !.state = IF @ = "missing" /\ b.subject # "pending" THEN "blocked" ELSE @,
              !.deps = IF @ = "silent" THEN "declared" ELSE @,
              !.normalized = TRUE]

Derivable(i, b) ==
    b.subject # "pending" /\ b.state # "missing" /\ b.elder # i /\ b.deps # "prose"

NormalizationOwed(i, b) == ~b.normalized /\ (~Parses(i, b) \/ b.deps = "silent")

-----------------------------------------------------------------------------
\* Authors (external).  An edit keeps the receipt marker of a normalized body.
Write(i, draft) ==
    /\ issue[i].provider = "open" /\ edits < MaxEdits /\ edits' = edits + 1
    /\ issue' = [issue EXCEPT ![i].body =
                    [Written(draft, edits') EXCEPT !.normalized = issue[i].body.normalized]]
    /\ UNCHANGED <<thread, named, adding, syncVars, sweep, failures>>

Retire(i) ==
    /\ issue[i].provider = "open" /\ edits < MaxEdits /\ edits' = edits + 1
    /\ issue' = [issue EXCEPT ![i].provider = "not_planned"]
    /\ UNCHANGED <<thread, named, adding, syncVars, sweep, failures>>

PostReceipt(i) ==
    /\ issue[i].provider # "absent" /\ "receipt" \notin thread[i]
    /\ thread' = [thread EXCEPT ![i] = @ \cup {"receipt"}]
    /\ UNCHANGED <<issue, named, adding, syncVars, sweep, edits, failures>>

\* land_pull_request closes an issue that was schedulable (LandingTrain has its steps).
Land(i) ==
    /\ i \in DOMAIN Live /\ Schedulable(i, Live[i], Elders(i, Live))
    /\ issue' = [issue EXCEPT ![i].provider = "completed", ![i].body.state = "landed"]
    /\ UNCHANGED <<thread, named, adding, syncVars, sweep, edits, failures>>

\* adapter_add: a provisional body first, for the number, then the template.
AddCreate(i) ==
    /\ issue[i].provider = "absent"
    /\ issue' = [issue EXCEPT ![i].provider = "open"]
    /\ adding' = adding \cup {i}
    /\ UNCHANGED <<thread, named, syncVars, sweep, edits, failures>>

Template == [subject |-> "own", state |-> "ready", deps |-> "none", quotes |-> FALSE, elder |-> 0,
             lacks |-> {"section", "requirement", "rationale"}]

AddWrite(i) ==
    /\ i \in adding /\ adding' = adding \ {i}
    /\ issue' = [issue EXCEPT ![i].body = Written(Template, MaxEdits + 1)]
    /\ UNCHANGED <<thread, named, syncVars, sweep, edits, failures>>

AddDies(i) ==
    /\ i \in adding /\ adding' = adding \ {i}
    /\ failures < MaxFailures /\ failures' = failures + 1
    /\ UNCHANGED <<issue, thread, named, syncVars, sweep, edits>>
-----------------------------------------------------------------------------
\* Mutant of Held: a hold does not expire.
HeldForGood(r) == record[r].stage = "complete" /\ record[r].empty > 0

\* sync_backlog of root r.  A held frontier is served from the record.
Held(r) == record[r].stage = "complete" /\ record[r].hold > 0

SyncBegins(r) ==
    /\ sync[r].at = "idle" /\ ~Held(r)
    /\ LET resumed == record[r].stage = "finalists"
       IN  sync' = [sync EXCEPT ![r] =
               [at |-> IF resumed THEN "item" ELSE "derive", resumed |-> resumed,
                todo |-> IF resumed THEN DOMAIN record[r].finalists ELSE {}, items |-> None,
                started |-> [i \in Issue |-> issue[i].body.text]]]
    /\ UNCHANGED <<issue, thread, named, adding, record, sweep, streak, edits, failures>>

\* Mutant of Derived: the new record starts its own count.
DerivedAfresh(r, finalists) == [NoRecord EXCEPT !.stage = "finalists", !.finalists = finalists]

\* The finalists are persisted before anything is spent on one of them.
Derived(r, finalists) ==
    [stage |-> "finalists", finalists |-> finalists, items |-> None,
     empty |-> record[r].empty, hold |-> 0]

Derive(r) ==
    /\ sync[r].at = "derive"
    /\ record' = [record EXCEPT ![r] = Derived(r, Live)]
    /\ sync' = [sync EXCEPT ![r].at = "item", ![r].todo = DOMAIN Live]
    /\ UNCHANGED <<issue, thread, named, adding, sweep, streak, edits, failures>>

Current(r) == Min(sync[r].todo)
Finalist(r) == record[r].finalists[Current(r)]

\* The item of the issue in hand, and on to the next.
Report(r, status) ==
    sync' = [sync EXCEPT ![r].at = "item", ![r].todo = @ \ {Current(r)},
                         ![r].items[Current(r)] = status]

\* The elders among the finalists, by their bodies as they were listed.
EldersOf(r) == Elders(Current(r), record[r].finalists)

\* An issue with elders is surfaced before its item is reported.
Decide(r, status) ==
    IF EldersOf(r) = {} THEN Report(r, status)
    ELSE sync' = [sync EXCEPT ![r].at = "surface", ![r].items[Current(r)] = status]

Judge(r, b) ==
    IF ~Parses(Current(r), b) THEN Report(r, "blocked")
    ELSE Decide(r, IF Schedulable(Current(r), b, EldersOf(r)) THEN "schedulable" ELSE "held")

\* Mutant of NextCall: the snapshot is as good as a read.
PatchNow(r) == "patch"

NextCall(r) == IF sync[r].resumed THEN "verify" ELSE "patch"

Plan(r) ==
    /\ sync[r].at = "item" /\ sync[r].todo # {}
    /\ IF NormalizationOwed(Current(r), Finalist(r))
       THEN sync' = [sync EXCEPT ![r].at = NextCall(r)]
       ELSE Judge(r, Finalist(r))
    /\ UNCHANGED <<issue, thread, named, adding, record, sweep, streak, edits, failures>>

\* A resumed cycle reads the body again and refuses one that changed.
VerifyLive(r) ==
    /\ sync[r].at = "verify"
    /\ IF issue[Current(r)].body = Finalist(r)
       THEN sync' = [sync EXCEPT ![r].at = "patch"]
       ELSE Report(r, "blocked")
    /\ UNCHANGED <<issue, thread, named, adding, record, sweep, streak, edits, failures>>

Patch(r) ==
    /\ sync[r].at = "patch"
    /\ issue' = [issue EXCEPT ![Current(r)].body = Cured(Finalist(r))]
    /\ IF Derivable(Current(r), Finalist(r))
       THEN Judge(r, Cured(Finalist(r)))
       ELSE sync' = [sync EXCEPT ![r].at = "comment"]
    /\ UNCHANGED <<thread, named, adding, record, sweep, streak, edits, failures>>

PostIntake(r) ==
    /\ sync[r].at = "comment"
    /\ thread' = [thread EXCEPT ![Current(r)] = @ \cup {"intake"}]
    /\ Judge(r, Cured(Finalist(r)))
    /\ UNCHANGED <<issue, named, adding, record, sweep, streak, edits, failures>>

\* One comment for each elder the thread, as it is read, does not name.
Surface(r) ==
    /\ sync[r].at = "surface"
    /\ named' = [named EXCEPT ![Current(r)] = @ \cup EldersOf(r)]
    /\ Report(r, sync[r].items[Current(r)])
    /\ UNCHANGED <<issue, thread, adding, record, sweep, streak, edits, failures>>

\* A comment that cannot be read or posted is printed, and the item stands as it was judged.
SurfaceFails(r) ==
    /\ sync[r].at = "surface" /\ failures < MaxFailures /\ failures' = failures + 1
    /\ \E posted \in SUBSET EldersOf(r) : named' = [named EXCEPT ![Current(r)] = @ \cup posted]
    /\ Report(r, sync[r].items[Current(r)])
    /\ UNCHANGED <<issue, thread, adding, record, sweep, streak, edits>>

\* A call for one issue fails, before or after it took effect: its item is blocked.
CallFails(r) ==
    /\ sync[r].at \in {"verify", "patch", "comment"}
    /\ failures < MaxFailures /\ failures' = failures + 1
    /\ Report(r, "blocked")
    /\ \/ UNCHANGED <<issue, thread>>
       \/ /\ sync[r].at = "patch" /\ UNCHANGED thread
          /\ issue' = [issue EXCEPT ![Current(r)].body = Cured(Finalist(r))]
       \/ /\ sync[r].at = "comment" /\ UNCHANGED issue
          /\ thread' = [thread EXCEPT ![Current(r)] = @ \cup {"intake"}]
    /\ UNCHANGED <<named, adding, record, sweep, streak, edits>>

\* A predecessor that cannot be read never counts as landed.
DependencyReadFails(r) ==
    /\ sync[r].at = "item" /\ sync[r].todo # {} /\ ~NormalizationOwed(Current(r), Finalist(r))
    /\ Parses(Current(r), Finalist(r)) /\ Finalist(r).deps = "declared"
    /\ \E j \in Issue : <<Current(r), j>> \in Depends
    /\ failures < MaxFailures /\ failures' = failures + 1
    /\ Decide(r, "held")
    /\ UNCHANGED <<issue, thread, named, adding, record, sweep, streak, edits>>

\* The count saturates at MaxEmpty, past which the interval does not change.
Longer(n) == Min({n + 1, MaxEmpty})

Empty(items) == \A i \in Issue : items[i] # "schedulable"

Complete(r) ==
    /\ sync[r].at = "item" /\ sync[r].todo = {}
    /\ LET items == sync[r].items
           empty == IF Empty(items) THEN Longer(record[r].empty) ELSE 0
       IN  /\ record' = [record EXCEPT ![r] = [stage |-> "complete", finalists |-> Nothing, items |-> items,
                                               empty |-> empty, hold |-> Backoff(empty)]]
           /\ streak' = [streak EXCEPT ![r] = IF Empty(items) THEN Longer(@) ELSE 0]
    /\ sync' = [sync EXCEPT ![r] = Idle]
    /\ UNCHANGED <<issue, thread, named, adding, sweep, edits, failures>>

\* The snapshot fails, or the process stops; the record stays.
SyncDies(r) ==
    /\ sync[r].at # "idle" /\ failures < MaxFailures /\ failures' = failures + 1
    /\ sync' = [sync EXCEPT ![r] = Idle]
    /\ UNCHANGED <<issue, thread, named, adding, record, sweep, streak, edits>>

\* Time passes: one base interval of every hold.
Tick ==
    /\ \E r \in Root : record[r].hold > 0
    /\ record' = [r \in Root |-> [record[r] EXCEPT !.hold = IF @ > 0 THEN @ - 1 ELSE 0]]
    /\ UNCHANGED <<issue, thread, named, adding, sync, sweep, streak, edits, failures>>
-----------------------------------------------------------------------------
\* sweep_closure_dispositions: all closures in one list, then one after the other.
Retired(i) == issue[i].provider = "not_planned" /\ issue[i].body.subject = "own"

SweepLists ==
    /\ sweep.at = "idle"
    /\ \E i \in Issue : Retired(i)
    /\ sweep' = [Resting EXCEPT !.at = "take",
                                !.closed = [i \in {j \in Issue : Retired(j)} |-> issue[i].body]]
    /\ UNCHANGED <<issue, thread, named, adding, syncVars, edits, failures>>

Closure == Min(DOMAIN sweep.closed)

Without(i) == [j \in DOMAIN sweep.closed \ {i} |-> sweep.closed[j]]
NextClosure == [at |-> IF DOMAIN sweep.closed = {Closure} THEN "idle" ELSE "take",
                closed |-> Without(Closure), thread |-> {}]

\* Mutant of Evidence: the sweep's own diagnostic, which quotes every element, counts.
WholeThread(comments) == comments

\* receipt_text leaves the sweep's own diagnostics out.
Evidence(comments) == comments \ {"diagnostic"}

ReadThread ==
    /\ sweep.at = "take"
    /\ sweep' = IF Evidence(thread[Closure]) \cap {"receipt", "diagnostic"} # {} THEN NextClosure
                ELSE [sweep EXCEPT !.at = "post", !.thread = thread[Closure]]
    /\ UNCHANGED <<issue, thread, named, adding, syncVars, edits, failures>>

\* Mutant of PostDiagnostic: any comment is taken for the standing diagnostic.
PostIfSilent ==
    /\ sweep.at = "post"
    /\ thread' = IF sweep.thread # {} THEN thread
                 ELSE [thread EXCEPT ![Closure] = @ \cup {"diagnostic"}]
    /\ sweep' = [sweep EXCEPT !.at = "reopen"]
    /\ UNCHANGED <<issue, named, adding, syncVars, edits, failures>>

\* An identical diagnostic in the thread as it was read is not posted again.
PostDiagnostic ==
    /\ sweep.at = "post"
    /\ thread' = IF "diagnostic" \in sweep.thread THEN thread
                 ELSE [thread EXCEPT ![Closure] = @ \cup {"diagnostic"}]
    /\ sweep' = [sweep EXCEPT !.at = "reopen"]
    /\ UNCHANGED <<issue, named, adding, syncVars, edits, failures>>

\* One call reopens, and writes the listed body with the state blocked unless it is.
Reopen ==
    /\ sweep.at = "reopen"
    /\ LET listed == sweep.closed[Closure]
       IN  issue' = [issue EXCEPT ![Closure] =
               [provider |-> "open",
                body |-> IF listed.state = "blocked" THEN issue[Closure].body
                         ELSE [listed EXCEPT !.state = "blocked"]]]
    /\ sweep' = NextClosure
    /\ UNCHANGED <<thread, named, adding, syncVars, edits, failures>>

SweepDies ==
    /\ sweep.at # "idle" /\ failures < MaxFailures /\ failures' = failures + 1
    /\ sweep' = Resting
    /\ UNCHANGED <<issue, thread, named, adding, syncVars, edits>>
-----------------------------------------------------------------------------
Authors ==
    \E i \in Issue :
        \/ \E draft \in Drafts : Write(i, draft)
        \/ Retire(i) \/ PostReceipt(i) \/ Land(i)
        \/ AddCreate(i) \/ AddWrite(i) \/ AddDies(i)

Sync(r) ==
    \/ SyncBegins(r) \/ Derive(r) \/ Plan(r) \/ VerifyLive(r) \/ Patch(r) \/ PostIntake(r)
    \/ Surface(r) \/ Complete(r)

Sweep == SweepLists \/ ReadThread \/ PostDiagnostic \/ Reopen

Next ==
    \/ Authors \/ Tick \/ Sweep \/ SweepDies
    \/ \E r \in Root : Sync(r) \/ CallFails(r) \/ DependencyReadFails(r) \/ SurfaceFails(r) \/ SyncDies(r)

\* The daemon calls the adapter again and again, reconcile runs again and again, and
\* time passes; calls fail and processes stop finitely often.
Fairness == WF_vars(Tick) /\ WF_vars(Sweep) /\ \A r \in Root : WF_vars(Sync(r))

Spec == Init /\ [][Next]_vars
FairSpec == Spec /\ Fairness
-----------------------------------------------------------------------------
\* The count a record keeps is the number of cycles in a row that completed with
\* nothing schedulable, however many cycles died and were resumed between them, and
\* the hold never exceeds what that number asks for (sync_backlog, #292).
HoldMatchesHistory ==
    \A r \in Root :
        /\ record[r].empty = streak[r]
        /\ record[r].hold <= Backoff(streak[r])

\* What an author wrote before a sync began is not overwritten by it, whether it
\* derives anew or resumes finalists of any age (intake_normalize, #292).
Overwrites(r, i) ==
    sync[r].at = "patch" /\ i = Current(r) /\ issue'[i].body.text # issue[i].body.text
OldEditsKept ==
    [][\A r \in Root, i \in Issue :
        Overwrites(r, i) /\ sync'[r] # sync[r] => issue[i].body.text # sync[r].started[i]]_vars

\* An issue that stays ready is reported schedulable by every root again and again:
\* no hold, stale resume or failed repair of a neighbour hides it for good.
ReadySurfaced ==
    \A r \in Root, i \in Issue :
        <>[](i \in DOMAIN Live /\ Schedulable(i, Live[i], Elders(i, Live)))
            => []<>(record[r].items[i] = "schedulable")

\* An issue is not held for a twin in silence: while it and an older open issue quote one defect, a
\* comment on it comes to name the elder, past failed comments, dead cycles and holds (backlog_items, #314).
Twin(i, j) ==
    /\ {i, j} \subseteq DOMAIN Live /\ j < i /\ issue[i].body.quotes /\ issue[j].body.quotes
    /\ Parses(i, issue[i].body)
TwinsNamed == \A i, j \in Issue : <>[]Twin(i, j) => <>(j \in named[i])

\* A retirement without a receipt does not stay (sweep_closure_dispositions), also
\* when a sweep stops after its diagnostic and before the reopening.
Bare(i) == Retired(i) /\ "receipt" \notin thread[i]
BareReopens == \A i \in Issue : Bare(i) ~> ~Bare(i)

\* No issue is reopened in silence: its thread names the defects by then, whoever
\* retired it again and wherever an earlier sweep stopped (reopen_bare_closure).
ReopenedNamed ==
    [][\A i \in Issue : issue[i].provider = "not_planned" /\ issue'[i].provider = "open" =>
        "diagnostic" \in thread[i]]_vars
=============================================================================
