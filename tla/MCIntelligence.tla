--------------------------- MODULE MCIntelligence ---------------------------
(* An instance of VulnerabilityIntelligence for TLC: two products, one of    *)
(* two vendors and one with two versions of its name, observed with and      *)
(* without a vendor on two assets; CPE names that qualify once, twice or     *)
(* not at all; CVEs that two products share with different records, and      *)
(* rejected ones; odd pages for a service that answers anything.             *)
EXTENDS VulnerabilityIntelligence

Candidate(cpe, deprecated, vendor, product, version) ==
  [cpe |-> cpe, deprecated |-> deprecated, vendor |-> vendor, product |-> product,
   version |-> version]

Nameless == Candidate(0, FALSE, 0, 0, 0)
Exact    == Candidate(1, FALSE, 1, 1, 1)
Foreign  == Candidate(2, FALSE, 2, 1, 1)
Old      == Candidate(3, TRUE, 1, 1, 1)
Other    == Candidate(4, FALSE, 1, 2, 1)
MCCpeItems == {Nameless, Exact, Foreign, Old, Other}

Record(id, rejected, severity, score, rank) ==
  [id |-> id, rejected |-> rejected, severity |-> severity, score |-> score, rank |-> rank]

Critical == Record(1, FALSE, "critical", 98, 1)
Again    == Record(1, FALSE, "high", 71, 2)
Unscored == Record(2, FALSE, "medium", None, 1)
Strange  == Record(3, FALSE, "severe", 110, 1)
Rejected == Record(4, TRUE, "low", 10, 1)
MCCveItems == {Critical, Again, Unscored, Strange, Rejected}

MCProducts == (<<1, 1, 1>> :> <<Old, Foreign, Exact>>) @@ (<<0, 1, 1>> :> <<Exact, Foreign>>)
              @@ (<<0, 2, 1>> :> <<Nameless, Other>>)
MCRecords == 1 :> <<Critical, Rejected, Unscored>> @@ 2 :> <<>> @@ 3 :> <<Critical>>
             @@ 4 :> <<Again, Strange>>

OddPage(array, given, total, first, per) ==
  [array |-> array, items |-> given, total |-> total, start |-> first, per |-> per]

Pages(one, two) == {
  OddPage(FALSE, <<>>, 1, 0, 1),
  OddPage(TRUE, <<>>, 9, 0, 0),
  OddPage(TRUE, <<one>>, 9, 0, 0),
  OddPage(TRUE, <<one, one>>, 2, Missing, 2),
  OddPage(TRUE, <<two, one>>, Missing, 0, 2),
  OddPage(TRUE, <<one, two>>, 3, Missing, 1)}

MCOddPages == [cpe |-> Pages(Foreign, Exact) \cup Pages(Other, Nameless),
               cve |-> Pages(Again, Critical) \cup Pages(Rejected, Strange)]

Tech(id, vendor, product, version, confidence) ==
  [id |-> id, vendor |-> vendor, product |-> product, version |-> version,
   confidence |-> confidence]

Known     == Tech(1, 1, 1, 1, 90)
KnownToo  == Tech(2, 1, 1, 1, None)
Bare      == Tech(3, 0, 1, 1, 50)
Second    == Tech(4, 0, 2, 1, 101)
Unversioned == Tech(5, 1, 1, 0, 90)

On(asset, technology) == [asset |-> asset, technology |-> technology]

MCObservations == {
  [assets |-> {}, observed |-> {}],
  [assets |-> {1, 2}, observed |-> {On(1, Known), On(2, KnownToo), On(1, Second)}],
  [assets |-> {1, 2}, observed |-> {On(1, Bare), On(1, Known), On(2, Unversioned), On(2, Second)}],
  [assets |-> {1, None}, observed |-> {On(1, Second), On(1, Unversioned), On(2, Second)}]}

Entry(id, severity, score, rank) ==
  [id |-> id, severity |-> severity, score |-> score, rank |-> rank]
Lnk(t, id, product, confidence) ==
  [technology |-> t, id |-> id, product |-> product, confidence |-> confidence]

MCOddIntelligence == {
  [vulnerabilities |-> {Entry(1, "high", 80, 1), Entry(1, "low", 20, 1), Entry(None, "low", 1, 1)},
   links |-> {Lnk(Known, 1, 1, 60), Lnk(Known, 1, 2, 100), Lnk(Known, 9, 1, 100),
             Lnk(Known, None, 1, 100)}],
  [vulnerabilities |-> {Entry(2, "unknown", None, 1), Entry(3, "medium", None, 1)},
   links |-> {Lnk(Second, 2, None, 100), Lnk(Second, 3, 4, None), Lnk(Unversioned, 2, 1, 60)}]}

Vertices ==
  {Node("asset", 1, [identifier |-> 1]), TechnologyNode(Known), TechnologyNode(Second),
   Node("vulnerability", 1, Entry(1, "critical", 100, 1)),
   Node("vulnerability", 2, Entry(2, "low", 101, 1))}

Observed(a, t) == ObservedEdge(On(a, t))

MCOddGraphs == {
  [nodes |-> Vertices, skipped |-> 0,
   edges |-> {Observed(1, Known), Observed(2, Known), MatchEdge(Lnk(Known, 1, 1, 60)),
              MatchEdge(Lnk(Known, 1, 2, 100)), MatchEdge(Lnk(Second, 1, 1, 60)),
              MatchEdge(Lnk(Known, 2, 1, None)), MatchEdge(Lnk(Known, 2, 1, 60))}],
  [nodes |-> Vertices, skipped |-> 1,
   edges |-> {Observed(1, Second), [Observed(1, Known) EXCEPT !.kind = "matches"],
              MatchEdge(Lnk(Second, 2, 1, None)), MatchEdge(Lnk(Second, 2, 1, 60)),
              MatchEdge(Lnk(Second, 3, 1, 60))}]}
=============================================================================
