------------------------- MODULE MCFindingCorrelation -------------------------
(* Instances of FindingCorrelation for TLC: two endpoints, a technology, two     *)
(* classifications, and references 1 (a CVE), 2 and 3 (GHSAs).                   *)
EXTENDS FindingCorrelation

MCKind == <<1, 2, 2>>

OneEach(S) == \A r, s \in S : Fingerprint(r) = Fingerprint(s) => r = s

UpToThree(R) == {S \in {{a, b, c} : a \in R, b \in R, c \in R} : OneEach(S)}

\* every collection of one to three records of one asset
Threes == UpToThree({r \in Records : r.asset = 1 /\
                       r.refs \in {{}, {1}, {1, 2}, {1, 3}, {2}}})

\* three records of two assets
TwoAssets == UpToThree({r \in Records : r.technology = None /\ r.cls = 1 /\
                          r.refs \in {{}, {1}, {1, 2}}})

\* up to five records about the CVE, with and without endpoints
Fives ==
  LET R == {r \in Records : r.asset = 1 /\ r.technology = None /\
              r.refs \in {{1}, {1, 2}, {1, 3}}}
  IN {S \in SUBSET R : Cardinality(S) \in {0, 4, 5} /\ OneEach(S)}

MCInputs == Threes \cup TwoAssets \cup Fives
==============================================================================
