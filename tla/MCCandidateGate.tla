--------------------------- MODULE MCCandidateGate ---------------------------
(***************************************************************************)
(* Four paths: f is on the surface of components a and b and its           *)
(* definition is a's, g is b's module, w a trusted workflow, and the       *)
(* policy, which a candidate may widen for itself.                         *)
(***************************************************************************)
EXTENDS CandidateGate, TLC

f == <<"f">>
g == <<"g">>
w == <<"workflows", "w">>
policy == <<"policy">>
MCPath == {f, g, w, policy}
MCWorkflow == {w}

Plain(d) == [there |-> TRUE, imports |-> {}, definition |-> d]
Importing == [there |-> TRUE, imports |-> {g}, definition |-> 2]

Row(s) == [surface |-> s, forcedBy |-> {f}]
Owners == [q \in MCPath |-> IF q = f THEN {"a"} ELSE {}]
Narrow == [surface |-> [c \in ComponentName |->
                CASE c = "a" -> {f, policy} [] c = "b" -> {f, g} [] OTHER -> MCPath],
           owner |-> Owners, coMandates |-> {Row(policy)}]
Wide == [surface |-> [Narrow.surface EXCEPT !["a"] = @ \cup {g}],
         owner |-> Owners, coMandates |-> {Row(policy), Row(g)}]

MCFirstTrees ==
    {[file |-> [q \in MCPath |-> IF q = g THEN Absent ELSE Plain(1)], policy |-> Narrow]}

Change(file) == [file |-> file, policy |-> Narrow]
MCDeltas ==
    {Change(f :> Importing), Change(g :> Plain(1)),
     Change(f :> Plain(2) @@ w :> Plain(2)),
     [file |-> f :> Plain(2) @@ g :> Plain(1) @@ policy :> Plain(2), policy |-> Wide]}

MCContracts ==
    {[component |-> "a", lane |-> "local", boundary |-> {f}, answers |-> FALSE],
     [component |-> "b", lane |-> "local", boundary |-> {g}, answers |-> TRUE],
     [component |-> "all", lane |-> "gha-agentic", boundary |-> {f, <<"workflows">>}, answers |-> TRUE],
     [component |-> "a", lane |-> "gha-agentic", boundary |-> {f}, answers |-> TRUE]}

Symmetry == Permutations(Pull)
=============================================================================
