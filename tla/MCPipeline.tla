----------------------------- MODULE MCPipeline -----------------------------
(* Small instances of Pipeline for TLC: one run of up to two capabilities with    *)
(* the contracts they are known for, and two runs over one Context of a           *)
(* capability whose contract the caller declares.                                 *)
EXTENDS Pipeline, TLC

\* "probe" declares two outputs, "resolve" one; "Plain name" is not a valid
\* capability ID. "custom" and "hosts" have no default contract, which a caller
\* may declare with `provides`; "hosts" is also a canonical key.
KnownNames  == {"probe", "resolve", "Plain name"}
CustomNames == {"custom", "hosts"}
MCNames     == KnownNames \cup CustomNames
MCIds       == MCNames \ {"Plain name"}
MCKeys      == {"hosts", "alive"}
MCContracts == [n \in MCNames |-> CASE n = "probe"   -> {"hosts", "alive"}
                                    [] n = "resolve" -> {"hosts"}
                                    [] OTHER         -> {}]
MCDeclared  == {{"hosts"}, {"hosts", "alive"}}

\* mistyped, at the limit, over the limit
MCValues == {[valid |-> FALSE, size |-> 1], [valid |-> TRUE, size |-> 1],
             [valid |-> TRUE, size |-> 2]}

MCSeeds  == {[s \in MCKeys \cup MCNames |->
                IF s = "alive" THEN [valid |-> TRUE, size |-> 2] ELSE Absent]}

MCPolicies == {[limits  |-> [k \in {"hosts"} |-> 1], expires |-> 1]}

\* What the environment does in this instance; a declared contract has values
\* enough with two. Registration after the last run is left out. Apart from the
\* answers, of which others remain, only Build and Start are restricted: no step
\* of a run changes the other variables or makes the pipeline idle.
CustomValues == {[valid |-> FALSE, size |-> 1], [valid |-> TRUE, size |-> 2]}

Custom == \/ \E i \in 1..Len(entries) : entries[i].name \in CustomNames
          \/ contracts # DefaultContracts

MCRuns == IF Custom THEN 2 ELSE 1

Environment ==
  /\ Custom => /\ Len(entries) <= 1
               /\ \A i \in 1..Len(entries) : entries[i].name \in CustomNames
               /\ answer.data \in CustomValues \cup {Absent}
               /\ \A k \in Keys : answer.pubs[k] \in CustomValues \cup {Absent}
  /\ runs <= MCRuns /\ (pc = "idle" => runs < MCRuns)
  /\ ~Custom => base = Nothing

MCSpec == Init /\ [][Next /\ Environment']_vars /\ Fairness
=============================================================================
