---------------------- MODULE VulnerabilityIntelligence ----------------------
(***************************************************************************)
(* VulnerabilityIntelligenceCapability over NvdAdapter, and the two         *)
(* capabilities behind it: technologies observed on assets are grouped into *)
(* lookups, each lookup must lead to exactly one CPE, whose CVEs are linked *)
(* to the observations; the knowledge graph and the risk assessments are    *)
(* made of the result.                                                      *)
(*                                                                          *)
(* A technology is [id, product, version, vendor, confidence] with 0 for a  *)
(* part that normalization refuses (_normalize_identity, _concrete_version);*)
(* id stands for everything else that tells two observations apart.         *)
(***************************************************************************)
EXTENDS Nvd, RiskIntelligence

CONSTANTS
  Observations,    \* the AssetIntelligence values tried: [assets, observed]
  OddIntelligence, \* VulnerabilityIntelligence values of a caller
  OddGraphs        \* KnowledgeGraph values of a caller

Technologies == UNION {{o.technology : o \in ai.observed} : ai \in Observations}
Key(t) == <<t.vendor, t.product, t.version>>
Eligible(t) == t.product # 0 /\ t.version # 0

\* The types of Vulnerability, VulnerabilityAssociation and KnowledgeGraphEdge;
\* no negative scores are tried.
IsVulnerability(v) ==
  /\ v = [id |-> v.id, severity |-> v.severity, score |-> v.score, rank |-> v.rank]
  /\ v.severity \in Severities /\ v.rank \in Nat /\ v.score \in Nat \cup {None}
IsMatch(l) == l.confidence \in 0..100 \cup {None} /\ l.product \in Nat \cup {None}

ASSUME VulnerabilityIntelligenceAssumption ==
  /\ \A t \in Technologies : Eligible(t) => Key(t) \in DOMAIN Products
  /\ \A c \in CpeItems : c.cpe # 0 => c.cpe \in DOMAIN Records
  /\ \A c \in CpeItems : c.cpe \in Nat
  \* The name determines what is parsed from it.
  /\ \A c, d \in CpeItems : c.cpe # 0 /\ c.cpe = d.cpe =>
       <<c.vendor, c.product, c.version>> = <<d.vendor, d.product, d.version>>
  \* A truthful service does not list a name both as deprecated and as not.
  /\ \A k \in DOMAIN Products : \A i, j \in DOMAIN Products[k] :
       Products[k][i].cpe # 0 /\ Products[k][i].cpe = Products[k][j].cpe =>
         Products[k][i].deprecated = Products[k][j].deprecated
  /\ \A r \in CveItems : r.rank \in Nat
  \* The values of a caller are of the types the domain declares.
  /\ \A x \in OddIntelligence :
       /\ \A v \in x.vulnerabilities : IsVulnerability(v)
       /\ \A l \in x.links : IsMatch(l)
  /\ \A g \in OddGraphs :
       /\ \A e \in g.edges : e.kind = "matches" => IsMatch(e)
       /\ \A n \in g.nodes : n.id[1] = "vulnerability" => IsVulnerability(n.entity)

VARIABLES
  mode,    \* which capability of the chain the caller starts with
  stage,   \* the capability whose turn it is, or "lookups", "stopped", "done"
  ai,      \* state key asset_intelligence
  vi,      \* state key vulnerability_intelligence
  graph,   \* state key knowledge_graph
  risk,    \* state key risk_intelligence
  results, \* of the three capabilities
  pending, \* lookups not finished
  failed,  \* lookups that failed
  current  \* the lookup in progress

chain == <<mode, ai, graph, risk>>
lookup == <<pending, failed, current>>
chainVars == <<nvdVars, mode, stage, ai, vi, graph, risk, results, pending, failed, current>>

NoIntelligence == [vulnerabilities |-> {}, links |-> {}]
NoGraph == [nodes |-> {}, edges |-> {}, skipped |-> 0]
NoRisk  == [assessments |-> {}, skipped |-> 0]
NoKey   == <<0, 0, 0>>

ChainInit ==
  /\ NvdInit
  /\ mode \in {"composed", "intelligence", "graph", "nothing"}
  /\ ai \in Observations /\ vi = NoIntelligence
  /\ graph = NoGraph
  /\ mode # "composed" => ~truthful
  /\ stage = IF mode = "composed" THEN "vulnerability_intelligence" ELSE "given"
  /\ risk = NoRisk
  /\ results = [vi |-> "NONE", graph |-> "NONE", risk |-> "NONE"]
  /\ pending = {} /\ failed = {} /\ current = NoKey

\* A pipeline without some of the producers, over a Context the caller filled.
Seed ==
  /\ stage = "given"
  /\ \/ /\ mode = "intelligence"
        /\ vi' \in OddIntelligence /\ stage' = "graph" /\ UNCHANGED graph
     \/ /\ mode = "graph"
        /\ graph' \in OddGraphs /\ stage' = "risk" /\ UNCHANGED vi
     \/ /\ mode = "nothing"
        /\ stage' = "risk" /\ UNCHANGED <<vi, graph>>
  /\ UNCHANGED <<nvdVars, mode, ai, risk, results, lookup>>

-----------------------------------------------------------------------------
(* VulnerabilityIntelligenceCapability.execute *)

ObservationsOf(k) == {o.technology : o \in {p \in ai.observed : Eligible(p.technology)
                                                          /\ Key(p.technology) = k}}

\* observations_by_lookup: the keys.
Lookups == {Key(t) : t \in {o.technology : o \in {p \in ai.observed : Eligible(p.technology)}}}

\* Grouping: technologies without a name or a concrete version are left out.
Group ==
  /\ stage = "vulnerability_intelligence"
  /\ stage' = "lookups"
  /\ pending' = Lookups
  /\ UNCHANGED <<nvdVars, chain, vi, results, failed, current>>

\* The next lookup. They are made in the order of their keys, which decides
\* nothing but whose record of a CVE comes first.
Search ==
  /\ stage = "lookups" /\ query = NoQuery
  /\ \E k \in pending : current' = k /\ Ask([path |-> "cpe", of |-> k])
  /\ UNCHANGED <<chain, stage, vi, results, pending, failed>>

\* Mutant: a candidate of another vendor qualifies.
QualifiesForAnyVendor(c, k) ==
  c.cpe # 0 /\ ~c.deprecated /\ c.product = k[2] /\ c.version = k[3]

\* _parse_cpe_candidate, _qualifying_candidates
Qualifies(c, k) ==
  /\ c.cpe # 0 /\ ~c.deprecated
  /\ c.product = k[2] /\ c.version = k[3]
  /\ c.vendor # 0 /\ (k[1] # 0 => c.vendor = k[1])

Drop == /\ pending' = pending \ {current} /\ current' = NoKey /\ Forget

\* search_cpe_candidates keeps the first candidate of a name, and one name
\* must qualify.
Candidates ==
  /\ stage = "lookups" /\ reply = "items" /\ query.path = "cpe"
  /\ LET first == {items[i] : i \in {j \in DOMAIN items :
                     \A h \in 1..(j - 1) : items[h].cpe # items[j].cpe}}
         names == {c.cpe : c \in {d \in first : Qualifies(d, current)}}
     IN IF Cardinality(names) = 1
        THEN /\ Ask([path |-> "cve", of |-> CHOOSE c \in names : TRUE])
             /\ UNCHANGED <<pending, current>>
        ELSE Drop
  /\ UNCHANGED <<chain, stage, vi, results, failed>>

\* _parse_vulnerability_record, _to_vulnerability: rejected records and those
\* without an identifier are no vulnerabilities, invalid parts are unknown.
Accepted(r) == r.id # None /\ ~r.rejected

ToVulnerability(r) ==
  [id |-> r.id, rank |-> r.rank,
   severity |-> IF r.severity \in Severities THEN r.severity ELSE "unknown",
   score |-> IF r.score \in 0..100 THEN r.score ELSE None]

Link(t, id, cpe) ==
  [technology |-> t, id |-> id, product |-> cpe,
   confidence |-> IF t.vendor # 0 THEN 100 ELSE 60]

\* get_vulnerabilities keeps the first record of an identifier, the
\* capability the first over all lookups.
Vulnerabilities ==
  /\ stage = "lookups" /\ reply = "items" /\ query.path = "cve"
  /\ LET accepted == {i \in DOMAIN items : Accepted(items[i])}
         known    == {v.id : v \in vi.vulnerabilities}
         fresh    == {j \in accepted :
                        /\ items[j].id \notin known
                        /\ \A h \in accepted : h < j => items[h].id # items[j].id}
     IN vi' = [vulnerabilities |-> vi.vulnerabilities \cup {ToVulnerability(items[i]) : i \in fresh},
               links |-> vi.links \cup {Link(t, items[i].id, query.of) :
                                          t \in ObservationsOf(current), i \in accepted}]
  /\ Drop
  /\ UNCHANGED <<chain, stage, results, failed>>

\* AdapterError: the lookup counts as failed.
LookupFails ==
  /\ stage = "lookups" /\ reply = "failed"
  /\ failed' = failed \cup {current}
  /\ Drop
  /\ UNCHANGED <<chain, stage, vi, results>>

\* Any other exception ends the capability, and what was found is gone.
LookupBreaks ==
  /\ stage = "lookups" /\ reply = "broken"
  /\ vi' = NoIntelligence
  /\ results' = [results EXCEPT !.vi = "ERROR"]
  /\ stage' = "stopped"
  /\ Drop
  /\ UNCHANGED <<chain, failed>>

\* _status; a Result that is not usable publishes nothing and stops the run.
Publish ==
  /\ stage = "lookups" /\ pending = {}
  /\ LET st == CASE failed = {}                    -> "SUCCESS"
                 [] failed # {} /\ failed = Lookups -> "FAILURE"
                 [] OTHER                          -> "PARTIAL"
     IN /\ results' = [results EXCEPT !.vi = st]
        /\ stage' = IF st = "FAILURE" THEN "stopped" ELSE "graph"
        /\ vi' = IF st = "FAILURE" THEN NoIntelligence ELSE vi
  /\ UNCHANGED <<nvdVars, chain, lookup>>

-----------------------------------------------------------------------------
(* The capabilities behind it *)

KnowledgeGraph ==
  /\ stage = "graph"
  /\ graph' = BuildGraph(ai, vi)
  /\ results' = [results EXCEPT !.graph = IF graph'.skipped > 0 THEN "PARTIAL" ELSE "SUCCESS"]
  /\ stage' = "risk"
  /\ UNCHANGED <<nvdVars, mode, ai, vi, risk, lookup>>

\* Without a graph in the Context the capability fails.
Risk ==
  /\ stage = "risk"
  /\ IF mode = "nothing"
     THEN results' = [results EXCEPT !.risk = "FAILURE"] /\ UNCHANGED risk
     ELSE /\ risk' = AssessRisk(graph)
          /\ results' = [results EXCEPT !.risk = IF risk'.skipped > 0 THEN "PARTIAL" ELSE "SUCCESS"]
  /\ stage' = "done"
  /\ UNCHANGED <<nvdVars, mode, ai, vi, graph, lookup>>

\* What the thread does by itself, and what the network does to it.
Advance == Group \/ Search \/ Candidates \/ Vulnerabilities \/ LookupFails \/ LookupBreaks
           \/ Publish \/ KnowledgeGraph \/ Risk \/ Seed
Network == NvdStep /\ UNCHANGED <<mode, stage, ai, vi, graph, risk, results, lookup>>

ChainNext == Advance \/ Network

\* The thread runs, and urlopen returns or raises within its timeout.
Fairness == WF_chainVars(Advance) /\ WF_chainVars(Network)

ChainSpec == ChainInit /\ [][ChainNext]_chainVars /\ Fairness

-----------------------------------------------------------------------------
(* Properties *)

\* The types of the chain's state.
IntelligenceTypeOK ==
  /\ NvdTypeOK
  /\ mode \in {"composed", "intelligence", "graph", "nothing"}
  /\ stage \in {"given", "vulnerability_intelligence", "lookups", "graph", "risk", "stopped", "done"}
  /\ ai \in Observations
  /\ \A s \in {results.vi, results.graph, results.risk} :
       s \in {"NONE", "SUCCESS", "PARTIAL", "FAILURE", "ERROR"}
  /\ pending \cup failed \subseteq Lookups /\ current \in Lookups \cup {NoKey}

QualifyingTruth(k) == {c.cpe : c \in {d \in ToSet(Products[k]) : Qualifies(d, k)}}

\* With a truthful service the published links are exactly those of the lookups
\* that did not fail: every page and every attempt is accounted for, each
\* observation of a product gets every CVE of its only CPE, rejected records
\* excepted, and an ambiguous product gets none. The result tells whether a
\* lookup failed (_get_paginated_items, _request_json, execute).
LookupsAreExact ==
  truthful /\ results.vi \in {"SUCCESS", "PARTIAL"} =>
    /\ vi.links = UNION {UNION {
         {Link(t, r.id, c) : t \in ObservationsOf(k), r \in {s \in ToSet(Records[c]) : Accepted(s)}} :
           c \in IF Cardinality(QualifyingTruth(k)) = 1 THEN QualifyingTruth(k) ELSE {}} :
         k \in Lookups \ failed}
    /\ results.vi = "SUCCESS" <=> failed = {}
    /\ Lookups # {} => failed # Lookups

\* Whatever the service answers, a link rests on an exact match: its CPE has
\* the product and the version of the technology, and its vendor where one was
\* observed, which alone makes the match highly confident; its vulnerability
\* is there, once (_qualifying_candidates, the dictionaries of execute).
MatchIsJustified ==
  mode = "composed" =>
    /\ \A l \in vi.links :
         /\ \E c \in CpeItems :
              /\ c.cpe = l.product
              /\ c.product = l.technology.product /\ c.version = l.technology.version
              /\ l.technology.vendor \in {0, c.vendor}
              /\ l.confidence = 100 => c.vendor = l.technology.vendor
         /\ Eligible(l.technology)
    /\ {l.id : l \in vi.links} = {v.id : v \in vi.vulnerabilities}
    /\ \A v, w \in vi.vulnerabilities : v.id = w.id => v = w

Paths == {<<o.asset, l.technology, l.id>> : o \in ai.observed, l \in vi.links}

\* The graph says what was published and no more: no edge without its two
\* nodes, and the assessments are the joins of observations and links, one for
\* each, with scores their constructor accepts, the fallback level of an
\* unscored vulnerability being its severity, and the most confident match.
\* After vulnerability intelligence nothing is skipped (KnowledgeGraphCapability,
\* RiskIntelligenceCapability).
RisksAreThePaths ==
  /\ results.graph # "NONE" => \A e \in graph.edges : ValidEdge(graph, e)
  /\ mode = "composed" /\ (\A o \in ai.observed : o.asset \in ai.assets \ {None}) =>
       results.graph # "PARTIAL" /\ results.risk # "PARTIAL"
  /\ stage = "done" =>
       /\ mode \in {"composed", "intelligence"} =>
            {<<a.asset[2], a.technology[2], a.vulnerability[2]>> : a \in risk.assessments} =
            {p \in Paths : /\ p[1] \in ai.assets \ {None} /\ p[3] # None
                           /\ \E v \in vi.vulnerabilities : v.id = p[3]
                           /\ \E o \in ai.observed : o.asset = p[1] /\ o.technology = p[2]
                           /\ \E l \in vi.links : /\ l.technology = p[2] /\ l.id = p[3]
                                                  /\ l.product # None}
       /\ \A a, b \in risk.assessments :
            <<a.asset, a.technology, a.vulnerability>> = <<b.asset, b.technology, b.vulnerability>>
              => a = b
       /\ \A a \in risk.assessments :
            /\ {a.priority, a.confidence, a.completeness} \subseteq 0..100
            /\ LET v == Entity(graph, a.vulnerability)
               IN ~ValidScore(v) => a.level = v.severity
            /\ \A e \in graph.edges :
                 /\ e.kind = "matches" /\ e.confidence # None
                 /\ e.source = a.technology /\ e.target = a.vulnerability
                 => a.confidence >= ConfidenceScore(e.confidence,
                                                    Entity(graph, a.technology).confidence)

\* Every run ends, whatever the service sends: pages that do not advance,
\* totals that are never reached and failures that go on are all cut off
\* (max_pages, max_retries, "did not advance").
LookupsEnd == <>(stage \in {"done", "stopped"})
=============================================================================
