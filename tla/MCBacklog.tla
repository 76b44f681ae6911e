------------------------------ MODULE MCBacklog ------------------------------
(***************************************************************************)
(* An issue an author wrote and one adapter add creates, which depends on  *)
(* the first once it says so; or two filings of one defect, one bald.      *)
(***************************************************************************)
EXTENDS Backlog

Draft(subject, state, deps) ==
    [subject |-> subject, state |-> state, deps |-> deps, lacks |-> {}, quotes |-> FALSE, elder |-> 0]

Legacy == Draft("own", "ready", "silent")
Filing == [Draft("own", "ready", "none") EXCEPT !.quotes = TRUE]
Bald == [Filing EXCEPT !.subject = "missing", !.state = "missing", !.deps = "silent"]
Succession == [Filing EXCEPT !.elder = 1]
MCDrafts == {Legacy, Succession}

Blank == [Draft("pending", "ready", "silent") EXCEPT !.lacks = Lack]

Open(draft) == [provider |-> "open", body |-> Written(draft, 0)]
ToAdd == [provider |-> "absent", body |-> Written(Blank, 0)]

MCFirstIssues ==
    {<<Open(Legacy), ToAdd>>, <<Open(Filing), Open(Bald)>>}

MCDepends == {<<2, 1>>}
=============================================================================
