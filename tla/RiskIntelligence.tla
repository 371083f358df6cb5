-------------------------- MODULE RiskIntelligence --------------------------
(***************************************************************************)
(* The knowledge graph of assets, technologies and vulnerabilities, and the *)
(* risk assessments made of its paths, as functions of what the             *)
(* intelligence capabilities published: KnowledgeGraphCapability and        *)
(* RiskIntelligenceCapability.                                              *)
(*                                                                          *)
(* A node is [id, entity] and its id <<kind, what>>, for a technology with   *)
(* the hash of the whole observation, here the observation itself, and the  *)
(* ends of an edge are ids. Scores are in tenths.                          *)
(***************************************************************************)
EXTENDS Integers, FiniteSets

Severities == {"unknown", "low", "medium", "high", "critical"}
None == -1

\* _vulnerability_sort_key: rank stands for what it compares before the
\* severity, which is compared by its name.
Alphabetical == [critical |-> 1, high |-> 2, low |-> 3, medium |-> 4, unknown |-> 5]

LeastRecord(vs) ==
  LET sorts(v) == <<v.rank, Alphabetical[v.severity], v.score>>
      before(k, l) == \E i \in 1..3 : k[i] < l[i] /\ \A j \in 1..(i - 1) : k[j] = l[j]
  IN CHOOSE v \in vs : \A w \in vs \ {v} : before(sorts(v), sorts(w))

-----------------------------------------------------------------------------
(* KnowledgeGraphCapability.execute *)

Node(kind, what, entity) == [id |-> <<kind, what>>, entity |-> entity]

\* Blank identifiers get no node.
AssetNodes(assets) == {Node("asset", a, [identifier |-> a]) : a \in assets \ {None}}

VulnerabilityNodes(vulnerabilities) ==
  {Node("vulnerability", i, LeastRecord({v \in vulnerabilities : v.id = i})) :
     i \in {v.id : v \in vulnerabilities} \ {None}}

TechnologyNode(t) == Node("technology", t, t)

ObservedEdge(o) ==
  [kind |-> "observed", source |-> <<"asset", o.asset>>, target |-> <<"technology", o.technology>>,
   confidence |-> None, product |-> None]

MatchEdge(l) ==
  [kind |-> "matches", source |-> <<"technology", l.technology>>,
   target |-> <<"vulnerability", l.id>>, confidence |-> l.confidence, product |-> l.product]

\* Mutant: a match is kept although its vulnerability is unknown.
BuildGraphLoosely(ai, vi) ==
  LET assets  == AssetNodes(ai.assets)
      vulns   == VulnerabilityNodes(vi.vulnerabilities)
      placed  == {o \in ai.observed : <<"asset", o.asset>> \in {n.id : n \in assets}}
  IN [nodes   |-> assets \cup vulns \cup {TechnologyNode(o.technology) : o \in placed}
                  \cup {TechnologyNode(l.technology) : l \in vi.links},
      edges   |-> {ObservedEdge(o) : o \in placed} \cup {MatchEdge(l) : l \in vi.links},
      skipped |-> Cardinality(ai.observed \ placed)]

\* Nodes and edges; relationships with an unknown end or no product are skipped.
BuildGraph(ai, vi) ==
  LET assets  == AssetNodes(ai.assets)
      vulns   == VulnerabilityNodes(vi.vulnerabilities)
      placed  == {o \in ai.observed : <<"asset", o.asset>> \in {n.id : n \in assets}}
      matched == {l \in vi.links : <<"vulnerability", l.id>> \in {n.id : n \in vulns} /\ l.product # None}
  IN [nodes   |-> assets \cup vulns \cup {TechnologyNode(o.technology) : o \in placed}
                  \cup {TechnologyNode(l.technology) : l \in matched},
      edges   |-> {ObservedEdge(o) : o \in placed} \cup {MatchEdge(l) : l \in matched},
      skipped |-> Cardinality(ai.observed \ placed) + Cardinality(vi.links \ matched)]

-----------------------------------------------------------------------------
(* RiskIntelligenceCapability.execute *)

\* _node_index, _valid_edge: both ends exist and have the kinds of the edge.
HasNode(g, end) == \E n \in g.nodes : n.id = end

ValidEdge(g, e) ==
  /\ HasNode(g, e.source) /\ HasNode(g, e.target)
  /\ \/ e.kind = "observed" /\ e.source[1] = "asset" /\ e.target[1] = "technology"
     \/ e.kind = "matches" /\ e.source[1] = "technology" /\ e.target[1] = "vulnerability"

Entity(g, end) == (CHOOSE n \in g.nodes : n.id = end).entity

ValidScore(v) == v.score \in 0..100
KnownSeverity(v) == v.severity # "unknown"

Contribution == [unknown |-> 0, low |-> 15, medium |-> 35, high |-> 55, critical |-> 70]

\* int(score * 7 + 0.5) of a score in tenths.
CvssFactor(v) == (7 * v.score + 5) \div 10

SeverityFactor(v) == Contribution[v.severity]

PriorityScore(v) == IF ValidScore(v) THEN CvssFactor(v) ELSE SeverityFactor(v)

\* risk_level_for_score
Level(score, known) ==
  CASE ~known                            -> "unknown"
    [] known /\ score < 20               -> "low"
    [] known /\ score \in 20..39         -> "medium"
    [] known /\ score \in 40..59         -> "high"
    [] OTHER                             -> "critical"

\* The mean of the confidences that are known.
ConfidenceScore(match, technology) ==
  CASE match # None /\ technology \in 0..100    -> (match + technology) \div 2
    [] match # None /\ technology \notin 0..100 -> match
    [] match = None /\ technology \in 0..100    -> technology
    [] OTHER                                    -> 0

DataCompleteness(v, match, technology) ==
  25 * Cardinality({c \in {1, 2, 3, 4} :
         CASE c = 1 -> ValidScore(v) \/ KnownSeverity(v)
           [] c = 2 -> match # None
           [] c = 3 -> technology \in 0..100
           [] OTHER -> TRUE})

\* _match_edge_preference_key: the most confident, then the first.
PreferredEdge(es) ==
  CHOOSE e \in es : \A f \in es :
    e.confidence > f.confidence \/ (e.confidence = f.confidence /\ e.product <= f.product)

Assessment(g, asset, technology, vulnerability, edge) ==
  LET v == Entity(g, vulnerability)
      t == Entity(g, technology)
      known == ValidScore(v) \/ KnownSeverity(v)
  IN [asset |-> asset, technology |-> technology, vulnerability |-> vulnerability,
      priority |-> PriorityScore(v), known |-> known,
      level |-> Level(PriorityScore(v), known),
      confidence |-> ConfidenceScore(edge.confidence, t.confidence),
      completeness |-> DataCompleteness(v, edge.confidence, t.confidence)]

\* One assessment per asset, technology and vulnerability joined by valid edges.
AssessRisk(g) ==
  LET valid == {e \in g.edges : ValidEdge(g, e)}
      paths == {p \in valid \X valid : /\ p[1].kind = "observed" /\ p[2].kind = "matches"
                                       /\ p[1].target = p[2].source}
  IN [assessments |->
        {Assessment(g, p[1].source, p[2].source, p[2].target,
                    PreferredEdge({e \in valid : /\ e.kind = "matches"
                                                 /\ e.source = p[2].source
                                                 /\ e.target = p[2].target})) : p \in paths},
      skipped |-> Cardinality(g.edges \ valid)]
=============================================================================
